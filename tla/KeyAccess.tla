----------------------------- MODULE KeyAccess -----------------------------
(***************************************************************************)
(* The life of one API key with a quota: requests that the gateway admits  *)
(* with it and charges when they end (pkg/core/middleware_auth.go,         *)
(* pkg/core/proxy.go), and administrators who disable, enable or delete it *)
(* (pkg/admin/api_key.go).  Admission only compares; a charge is one SQL   *)
(* statement; a change of the status reads the row and writes all of it    *)
(* back, deletion mark included.                                           *)
(***************************************************************************)
EXTENDS Naturals, FiniteSets, CommonValues

CONSTANTS
    Clients,   \* clients that use the key, each with one request at a time
    Admins,    \* administrators
    Quota,     \* tokens that the key may use
    MaxTokens, \* most tokens that one request uses
    MaxUsed    \* bound: tokens used in all

VARIABLES
    key,       \* the row: status, tokens charged, deletion mark
    inFlight,  \* clients whose request was admitted and has not ended
    read,      \* what an administrator's change has read, None outside one
    consumed,  \* tokens of the requests that ended while the row was live
    dead,      \* the key was deleted
    exposed,   \* of those tokens, what was charged while a change of the status
               \* was between its read and its write
    overDelete \* the key was deleted while one was

historyVars == <<consumed, dead, exposed, overDelete>>
accessVars  == <<key, inFlight, read, consumed, dead, exposed, overDelete>>

Statuses == {"active", "disabled"}
KeyRow == [status : Statuses, used : Nat, deleted : BOOLEAN]

ASSUME KeyAccessAssumption ==
    /\ Quota \in Nat \ {0} /\ MaxTokens \in Nat \ {0} /\ MaxUsed \in Nat
    /\ IsFiniteSet(Clients)
    /\ None \notin KeyRow

AccessInit ==
    /\ key = [status |-> "active", used |-> 0, deleted |-> FALSE]
    /\ inFlight = {}
    /\ read = [a \in Admins |-> None]
    /\ consumed = 0
    /\ dead = FALSE
    /\ exposed = 0
    /\ overDelete = FALSE

\* The checks with an off-by-one at the quota.
AcceptedAtQuota(k) == ~k.deleted /\ k.status = "active" /\ k.used <= Quota

\* The checks of the authentication middleware.
Accepted(k) ==
    /\ ~k.deleted
    /\ k.status = "active"
    /\ k.used < Quota

Admit(c) ==
    /\ c \notin inFlight
    /\ Accepted(key)
    /\ inFlight' = inFlight \cup {c}
    /\ UNCHANGED <<key, read, historyVars>>

\* Some change of the status is between its read and its write.
Changing == \E a \in Admins : read[a] # None

\* updateQuota when a request of n tokens ends: its statement passes over a
\* deleted row.
Charge(c, n) ==
    /\ c \in inFlight
    /\ consumed + n <= MaxUsed
    /\ inFlight' = inFlight \ {c}
    /\ \/ /\ ~key.deleted
          /\ key' = [key EXCEPT !.used = @ + n]
          /\ consumed' = consumed + n
          /\ exposed' = IF Changing THEN exposed + n ELSE exposed
       \/ key.deleted /\ UNCHANGED <<key, consumed, exposed>>
    /\ UNCHANGED <<read, dead, overDelete>>

\* updateAPIKey reads the row, unless it is deleted.
ReadKey(a) ==
    /\ read[a] = None
    /\ ~key.deleted
    /\ read' = [read EXCEPT ![a] = key]
    /\ UNCHANGED <<key, inFlight, historyVars>>

\* updateAPIKey writes what it read with the new status; SaveAPIKey clears
\* the deletion mark.
WriteKey(a, status) ==
    /\ read[a] # None
    /\ key' = [read[a] EXCEPT !.status = status]
    /\ read' = [read EXCEPT ![a] = None]
    /\ UNCHANGED <<inFlight, historyVars>>

\* deleteAPIKey, batchDeleteAPIKeys: one statement that marks a live row.
DeleteKey ==
    /\ ~key.deleted
    /\ key' = [key EXCEPT !.deleted = TRUE]
    /\ dead' = TRUE
    /\ overDelete' = (overDelete \/ Changing)
    /\ UNCHANGED <<inFlight, read, consumed, exposed>>

AccessNext ==
    \/ \E c \in Clients : Admit(c)
    \/ \E c \in Clients : \E n \in 0..MaxTokens : Charge(c, n)
    \/ \E a \in Admins : ReadKey(a)
    \/ \E a \in Admins, status \in Statuses : WriteKey(a, status)
    \/ DeleteKey

AccessSpec == AccessInit /\ [][AccessNext]_accessVars

(***************************************************************************)
(* Properties.                                                             *)
(***************************************************************************)
AccessTypeOK ==
    /\ key \in KeyRow
    /\ inFlight \subseteq Clients
    /\ read \in [Admins -> KeyRow \cup {None}]
    /\ consumed \in Nat /\ exposed \in Nat
    /\ dead \in BOOLEAN /\ overDelete \in BOOLEAN

\* The most that a key can overrun its quota by: what the requests use that
\* were admitted together with the last token left.
Overrun == Cardinality(Clients) * MaxTokens

\* A change of the status can undo the charges that come between its read and
\* its write, and a deletion that comes there, but nothing else, however many
\* changes overlap: of all other tokens every one stays charged, the key uses no
\* more of them than its quota and what the requests use that were in flight
\* with its last token, and a deletion that no change straddles lasts.
QuotaOverrunBounded ==
    /\ key.used <= consumed /\ consumed <= key.used + exposed
    /\ consumed < Quota + Overrun + exposed
    /\ dead /\ ~overDelete => key.deleted

\* A deleted key is not accepted again.
DeletedKeyDead == dead => ~Accepted(key)
=============================================================================
