----------------------------- MODULE SimpleAuditor -----------------------------
(***************************************************************************)
(* The synchronous auditor (pkg/plugin/oss/audit_simple.go): a map pending *)
(* of the logs being assembled and the audit_logs table they are saved to. *)
(* Its mutex is held across the save, so each method is one step.          *)
(***************************************************************************)
EXTENDS Naturals, Sequences

CONSTANTS
  Requests,     \* request ids
  Backend,      \* "sql": audit_logs.id is a primary key; "mem": append only
  MaxFailures   \* bound: how many saves the storage refuses on its own

ASSUME AuditAssumption ==
  /\ Backend \in {"sql", "mem"}
  /\ MaxFailures \in Nat

Reasons == {"none", "client", "upstream"}

(* base: built by the request_start event, with tenant, key, model and     *)
(* body; meta: tokens, status and duration were filled in.                 *)
Log == [base : BOOLEAN, chunks : Seq(Nat), meta : BOOLEAN, reason : Reasons]

(* NoLog stands for a request id that is not in pending.                   *)
Base     == [base |-> TRUE,  chunks |-> <<>>, meta |-> FALSE, reason |-> "none"]
Skeleton == [base |-> FALSE, chunks |-> <<>>, meta |-> FALSE, reason |-> "none"]
NoLog    == [base |-> FALSE, chunks |-> <<>>, meta |-> FALSE, reason |-> "absent"]

VARIABLES
  pending,   \* SimpleAuditor.pending
  stored,    \* per request id, the rows of audit_logs, oldest first
  failures   \* saves the storage has refused on its own

auditVars == <<pending, stored, failures>>

AuditInit ==
  /\ pending = [r \in Requests |-> NoLog]
  /\ stored = [r \in Requests |-> <<>>]
  /\ failures = 0

Assembling(r) == pending[r] # NoLog

(* SaveAuditLog: a second row of the same id violates the primary key.     *)
Duplicate(r) == Backend = "sql" /\ stored[r] # <<>>

(* Variant: a log whose save failed is dropped.                            *)
SaveForgetful(r, log) ==
  /\ pending' = [pending EXCEPT ![r] = NoLog]
  /\ \/ /\ ~Duplicate(r)
        /\ stored' = [stored EXCEPT ![r] = Append(@, log)]
        /\ UNCHANGED failures
     \/ /\ failures < MaxFailures /\ failures' = failures + 1
        /\ UNCHANGED stored

Save(r, log) ==
  \/ /\ ~Duplicate(r)
     /\ stored' = [stored EXCEPT ![r] = Append(@, log)]
     /\ pending' = [pending EXCEPT ![r] = NoLog]
     /\ UNCHANGED failures
  \/ /\ \/ Duplicate(r) /\ UNCHANGED failures
        \/ failures < MaxFailures /\ failures' = failures + 1
     /\ pending' = [pending EXCEPT ![r] = log]
     /\ UNCHANGED stored

Submit(r) ==
  /\ pending' = [pending EXCEPT ![r] = IF Assembling(r) THEN @ ELSE Base]
  /\ UNCHANGED <<stored, failures>>

(* Variants: a chunk of an unknown request is not given a log of its own;  *)
(* a chunk replaces the one before it.                                     *)
SubmitSSEChunkUnknown(r, i) ==
  /\ pending' = [pending EXCEPT ![r].chunks = Append(@, i)]
  /\ UNCHANGED <<stored, failures>>

SubmitSSEChunkReplacing(r, i) ==
  LET log == IF Assembling(r) THEN pending[r] ELSE Skeleton
  IN  /\ pending' = [pending EXCEPT ![r] = [log EXCEPT !.chunks = <<i>>]]
      /\ UNCHANGED <<stored, failures>>

SubmitSSEChunk(r, i) ==
  LET log == IF Assembling(r) THEN pending[r] ELSE Skeleton
  IN  /\ pending' = [pending EXCEPT ![r] =
                       [log EXCEPT !.chunks = Append(@, i)]]
      /\ UNCHANGED <<stored, failures>>

Finalize(r) ==
  IF Assembling(r) THEN Save(r, [pending[r] EXCEPT !.meta = TRUE])
  ELSE UNCHANGED auditVars

MarkDisconnect(r, reason) ==
  IF Assembling(r)
  THEN Save(r, [pending[r] EXCEPT !.meta = TRUE, !.reason = reason])
  ELSE UNCHANGED auditVars

(* Shutdown walks pending in Go's random map order and returns at the      *)
(* first save that fails: done is the part of the walk that was saved.     *)
Shutdown ==
  LET open == {r \in Requests : Assembling(r)}
  IN \E done \in SUBSET open :
       /\ \A r \in done : ~Duplicate(r)
       /\ \/ done = open /\ UNCHANGED failures
          \/ /\ \E r \in open \ done : Duplicate(r)
             /\ UNCHANGED failures
          \/ /\ done # open /\ failures < MaxFailures
             /\ failures' = failures + 1
       /\ stored' = [r \in Requests |->
                       IF r \in done THEN Append(stored[r], pending[r])
                       ELSE stored[r]]
       /\ pending' = [r \in Requests |->
                        IF r \in done THEN NoLog ELSE pending[r]]
=============================================================================
