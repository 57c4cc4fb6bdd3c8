----------------------------- MODULE MCConsole -----------------------------
(***************************************************************************)
(* The parts of the console, the life of an API key and the tenant gate,   *)
(* side by side: each behaviour is that of one part, while the others keep *)
(* the state they begin with.  One page is on screen at a time, and the    *)
(* parts share no state that a step of theirs changes.                     *)
(***************************************************************************)
EXTENDS Session, Dashboard, RuleForm, ModelForm, ApiKeyPage, KeyAccess, TenantGate, ListPages

CONSTANTS Parts

VARIABLE part

consoleVars == <<part, sessionVars, dashVars, ruleVars, modelVars, keyVars, accessVars, tenantVars, listVars>>

MCIdentities == {[user |-> "root", super |-> TRUE, perms |-> {}, features |-> {"privacy"}],
                 [user |-> "viewer", super |-> FALSE, perms |-> {}, features |-> {}]}
MCTexts == {<<>>, <<"a">>}

ConsoleInit ==
    /\ part \in Parts
    /\ SessionInit
    /\ DashInit /\ (part # "dashboard" => theme = "light")
    /\ ModelInit /\ (part # "models" => row = RowOf(BlankForm))
    /\ RuleInit /\ KeyInit /\ AccessInit
    /\ GateInit /\ (part # "tenants" => tenant = [disabled |-> FALSE, since |-> 0, page |-> 1])
    /\ ListInit /\ (part # "lists" => view = ModelList)

Visit(p, step) == part = p /\ step /\ UNCHANGED part

ConsoleNext ==
    \/ /\ Visit("session", SessionNext)
       /\ UNCHANGED <<dashVars, ruleVars, modelVars, keyVars, accessVars, tenantVars, listVars>>
    \/ /\ Visit("dashboard", DashNext)
       /\ UNCHANGED <<sessionVars, ruleVars, modelVars, keyVars, accessVars, tenantVars, listVars>>
    \/ /\ Visit("rules", RuleNext)
       /\ UNCHANGED <<sessionVars, dashVars, modelVars, keyVars, accessVars, tenantVars, listVars>>
    \/ /\ Visit("models", ModelNext)
       /\ UNCHANGED <<sessionVars, dashVars, ruleVars, keyVars, accessVars, tenantVars, listVars>>
    \/ /\ Visit("newkey", KeyNext)
       /\ UNCHANGED <<sessionVars, dashVars, ruleVars, modelVars, accessVars, tenantVars, listVars>>
    \/ /\ Visit("access", AccessNext)
       /\ UNCHANGED <<sessionVars, dashVars, ruleVars, modelVars, keyVars, tenantVars, listVars>>
    \/ /\ Visit("tenants", GateNext)
       /\ UNCHANGED <<sessionVars, dashVars, ruleVars, modelVars, keyVars, accessVars, listVars>>
    \/ /\ Visit("lists", ListNext)
       /\ UNCHANGED <<sessionVars, dashVars, ruleVars, modelVars, keyVars, accessVars, tenantVars>>

\* Only the session is asked to go on by itself; a session at rest has
\* nothing to go on with.
ConsoleSpec == ConsoleInit /\ [][ConsoleNext]_consoleVars /\ SessionFairness

ConsoleTypeOK ==
    /\ SessionTypeOK /\ DashTypeOK /\ RuleTypeOK /\ ModelTypeOK
    /\ KeyTypeOK /\ AccessTypeOK /\ GateTypeOK /\ ListTypeOK

\* Nothing turns for ever, whatever overtakes what: behind the loading mask of
\* the overview and of a list, and behind each button that shows that it is at
\* work, there is an answer under way that will end it.
SpinnersAwaitAnswers ==
    /\ mounted /\ loading => \E r \in asked : r.no = seq
    /\ logging => logins > 0
    /\ saving => creating + listing > 0
    /\ spinning => loads # {}
    /\ listSaving => (\E w \in writes : w.way # "row") \/ (\E r \in loads : r.saves)
=============================================================================
