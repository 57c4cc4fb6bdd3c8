----------------------------- MODULE TenantGate -----------------------------
(***************************************************************************)
(* The gate that keeps disabled tenants out of the proxy,                  *)
(* pkg/core/tenant_gate.go: a cache of the disabled tenants that every     *)
(* request consults and that whoever finds it expired loads again, page by *)
(* page and without a lock, so reloads overlap.  One tenant is looked at;  *)
(* it stands on some page of the listing, and moves to the one before when *)
(* a tenant listed before it is deleted.  A moment is kept as its age.     *)
(***************************************************************************)
EXTENDS Naturals, CommonValues

CONSTANTS
    Callers,  \* requests of the tenant, each by one caller after another
    TTL,      \* tenantCheckInterval
    Slow,     \* longest time that a call of Allowed takes
    LastPage  \* pages of tenants

ASSUME TenantGateAssumption ==
    /\ TTL \in Nat /\ Slow \in 0..TTL /\ LastPage \in Nat \ {0}
    /\ None \notin Nat

VARIABLES
    tenant,   \* the row: disabled, for how long, page of the listing
    gate,     \* age of the cache, "empty" switch, whether the tenant is out
    checks    \* what each request is doing in Allowed

tenantVars == <<tenant, gate, checks>>

\* Above every age that matters, ages are not told apart.
AgeLimit == TTL + Slow + 1
Ages == 0..AgeLimit
Aged(a) == IF a < AgeLimit THEN a + 1 ELSE a

\* In gate, whole is a history variable: the tenant's row was among those that
\* this load of the cache has read, and no listing failed.
Gates == [age : Ages \cup {None}, empty : BOOLEAN, out : BOOLEAN, whole : BOOLEAN]
TenantRows == [disabled : BOOLEAN, since : Ages, page : 1..LastPage]

\* at: not in Allowed, about to list a page, about to swap, to look again;
\* "in" when it was let in.  age is that of the call.
Checks == [at : {"out", "list", "swap", "judge", "in"}, age : 0..Slow, page : 1..LastPage,
           found : BOOLEAN, seen : BOOLEAN]
Fresh(at) == [at |-> at, age |-> 0, page |-> 1, found |-> FALSE, seen |-> FALSE]

GateInit ==
    /\ tenant \in TenantRows /\ tenant.since = 0
    /\ gate = [age |-> None, empty |-> FALSE, out |-> FALSE, whole |-> FALSE]
    /\ checks = [r \in Callers |-> Fresh("out")]

Expired == IF gate.age = None THEN TRUE ELSE gate.age > TTL
Open == gate.empty \/ ~gate.out
Verdict(r) == checks' = [checks EXCEPT ![r] = Fresh(IF Open THEN "in" ELSE "out")]

\* Allowed up to its reload: a snapshot of the cache, which decides unless it
\* has expired.
Look(r) ==
    /\ checks[r].at = "out"
    /\ IF Expired THEN checks' = [checks EXCEPT ![r] = Fresh("list")]
                  ELSE Verdict(r)
    /\ UNCHANGED <<tenant, gate>>

\* A set of disabled tenants that begins anew with every page.
FoundOnPage(c, here) == here /\ tenant.disabled

Found(c, here) == c.found \/ (here /\ tenant.disabled)

\* reload: one page of the listing.
ListPage(r) ==
    LET c == checks[r]
        here == tenant.page = c.page
        last == c.page = LastPage
    IN /\ c.at = "list"
       /\ checks' = [checks EXCEPT ![r] =
              [c EXCEPT !.at = IF last THEN "swap" ELSE "list",
                        !.page = IF last THEN 1 ELSE c.page + 1,
                        !.found = Found(c, here),
                        !.seen = c.seen \/ here]]
       /\ UNCHANGED <<tenant, gate>>

\* swap: the cache is as young as this moment, whenever its rows were read.
SwapIn(r, empty, out, whole) ==
    /\ gate' = [age |-> 0, empty |-> empty, out |-> out, whole |-> whole]
    /\ checks' = [checks EXCEPT ![r] = [Fresh("judge") EXCEPT !.age = checks[r].age]]
    /\ UNCHANGED tenant

\* The count or a page cannot be read: as if there were no tenants.
ListFails(r) == checks[r].at = "list" /\ SwapIn(r, TRUE, FALSE, FALSE)

ListDone(r) == checks[r].at = "swap" /\ SwapIn(r, FALSE, checks[r].found, checks[r].seen)

\* Allowed after its reload, by the cache there is by now.
Judge(r) ==
    /\ checks[r].at = "judge"
    /\ Verdict(r)
    /\ UNCHANGED <<tenant, gate>>

\* A request that was let in goes on.
GoOn(r) ==
    /\ checks[r].at = "in"
    /\ checks' = [checks EXCEPT ![r] = Fresh("out")]
    /\ UNCHANGED <<tenant, gate>>

\* updateTenant, deleteTenant of a tenant listed before this one.  (This one
\* has keys and is not deleted.)
SetDisabled(b) ==
    /\ tenant.disabled # b
    /\ tenant' = [tenant EXCEPT !.disabled = b, !.since = 0]
    /\ UNCHANGED <<gate, checks>>

EarlierDeleted ==
    /\ tenant.page > 1
    /\ tenant' = [tenant EXCEPT !.page = @ - 1]
    /\ UNCHANGED <<gate, checks>>

\* Time, as far as the calls under way allow.
GateTick ==
    /\ \A r \in Callers : checks[r].age < Slow
    /\ tenant' = [tenant EXCEPT !.since = IF tenant.disabled THEN Aged(@) ELSE 0]
    /\ gate' = [gate EXCEPT !.age = IF @ = None THEN None ELSE Aged(@)]
    /\ checks' = [r \in Callers |->
          IF checks[r].at \in {"out", "in"} THEN checks[r] ELSE [checks[r] EXCEPT !.age = @ + 1]]

Allowed(r) == Look(r) \/ ListPage(r) \/ ListFails(r) \/ ListDone(r) \/ Judge(r)

GateNext ==
    \/ \E r \in Callers : Allowed(r) \/ GoOn(r)
    \/ \E b \in BOOLEAN : SetDisabled(b)
    \/ EarlierDeleted
    \/ GateTick

GateSpec == GateInit /\ [][GateNext]_tenantVars

(***************************************************************************)
(* Properties.                                                             *)
(***************************************************************************)
GateTypeOK ==
    /\ tenant \in TenantRows
    /\ gate \in Gates
    /\ checks \in [Callers -> Checks]

LetIn(r) == checks[r].at # "in" /\ checks'[r].at = "in"

\* A tenant that has been disabled for longer than the cache lives and a call
\* takes is let in only by a load that failed or whose pages a deletion made
\* pass over the tenant, and by that load for no longer than the cache lives:
\* however many reloads overlap and whichever of them swaps last, such a load
\* is the last one that swapped, and that was at most TTL ago.
DisabledTenantOut ==
    [][\A r \in Callers :
          LetIn(r) /\ tenant.disabled /\ tenant.since > TTL + Slow =>
            ~gate.whole /\ gate.age \in 0..TTL]_tenantVars
=============================================================================
