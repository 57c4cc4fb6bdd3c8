--------------------------- MODULE StreamAuditProofs ---------------------------
(***************************************************************************)
(* Proofs about StreamAudit, for any set of requests, either kind of       *)
(* storage, and any number of chunks and of storage failures.              *)
(***************************************************************************)
EXTENDS StreamAudit, SequenceTheorems, TLAPS

(* The metadata is in the first row, or nothing is stored and pending has  *)
(* it: RecordKept alone is not inductive, since a row without metadata     *)
(* that was stored first would stay first when the pending log is saved.   *)
Kept(r) ==
  \/ stored[r] = <<>> /\ pending[r].base
  \/ stored[r] # <<>> /\ stored[r][1].base

Untouched(r) == pending[r] = NoLog /\ stored[r] = <<>>

IInv ==
  /\ TypeOK
  /\ \A r \in Requests :
       /\ pc[r] = "start" => Untouched(r)
       /\ pc[r] \notin {"start", "rejected"} => Kept(r)

AuditTypeOK ==
  /\ pending \in [Requests -> Log \cup {NoLog}]
  /\ stored \in [Requests -> Seq(Log)]
  /\ failures \in 0..MaxFailures

LEMMA NoLogIsNone == NoLog \notin Log /\ NoLog.base = FALSE
  BY DEF NoLog, Log, Reasons

LEMMA AssemblingIsLog ==
  ASSUME AuditTypeOK, NEW r \in Requests, Assembling(r)
  PROVE  pending[r] \in Log
  BY DEF AuditTypeOK, Assembling

(* A first row stays the first row.                                        *)
LEMMA FirstRow ==
  ASSUME NEW s \in Seq(Log), NEW log \in Log
  PROVE  /\ Append(s, log) \in Seq(Log) /\ Append(s, log) # <<>>
         /\ s = <<>> => Append(s, log)[1] = log
         /\ s # <<>> => Append(s, log)[1] = s[1]
         /\ (s = <<>> /\ log.base) \/ (s # <<>> /\ s[1].base)
              => Append(s, log)[1].base
  <1>1. s # <<>> => Len(s) >= 1 /\ 1 \in 1..Len(s)
    BY EmptySeq
  <1>2. s = <<>> => Len(s) = 0
    OBVIOUS
  <1>3. /\ Append(s, log) \in Seq(Log)
        /\ Len(Append(s, log)) = Len(s) + 1
        /\ \A i \in 1..Len(s) : Append(s, log)[i] = s[i]
        /\ Append(s, log)[Len(s) + 1] = log
    BY AppendProperties
  <1>4. /\ s = <<>> => Append(s, log)[1] = log
        /\ s # <<>> => Append(s, log)[1] = s[1]
    BY <1>1, <1>2, <1>3
  <1>5. (s = <<>> /\ log.base) \/ (s # <<>> /\ s[1].base)
              => Append(s, log)[1].base
    BY <1>4
  <1>6. Append(s, log) # <<>>
    <2>1. Len(s) \in Nat /\ Len(<<>>) = 0
      BY LenProperties, EmptySeq
    <2>2. Len(Append(s, log)) # Len(<<>>)
      BY <1>3, <2>1
    <2>3. QED BY <2>2
  <1>7. QED BY <1>3, <1>4, <1>5, <1>6

(* Saving a log that kept the request's metadata keeps it.                 *)
LEMMA SaveKeeps ==
  ASSUME AuditTypeOK, NEW r \in Requests, NEW log \in Log,
         Save(r, log), log.base = pending[r].base
  PROVE  /\ AuditTypeOK'
         /\ \A q \in Requests : Kept(q) => Kept(q)'
         /\ \A q \in Requests \ {r} :
              pending'[q] = pending[q] /\ stored'[q] = stored[q]
  <1>1. CASE /\ stored' = [stored EXCEPT ![r] = Append(@, log)]
             /\ pending' = [pending EXCEPT ![r] = NoLog]
             /\ UNCHANGED failures
    <2>1. Append(stored[r], log) \in Seq(Log)
      BY FirstRow DEF AuditTypeOK
    <2>2. AuditTypeOK'
      BY <1>1, <2>1 DEF AuditTypeOK
    <2>3. ASSUME NEW q \in Requests, Kept(q)
          PROVE  Kept(q)'
      <3>1. CASE q = r
        <4>1. stored'[q] = Append(stored[r], log)
          BY <1>1, <3>1 DEF AuditTypeOK
        <4>2. stored[r] \in Seq(Log)
          BY DEF AuditTypeOK
        <4>3. stored'[q] # <<>> /\ stored'[q][1].base
          BY <2>3, <3>1, <4>1, <4>2, FirstRow DEF Kept
        <4>4. QED BY <4>3 DEF Kept
      <3>2. CASE q # r
        BY <1>1, <2>3, <3>2 DEF Kept, AuditTypeOK
      <3>3. QED BY <3>1, <3>2
    <2>4. \A q \in Requests \ {r} :
            pending'[q] = pending[q] /\ stored'[q] = stored[q]
      BY <1>1 DEF AuditTypeOK
    <2>5. QED BY <2>2, <2>3, <2>4
  <1>2. CASE /\ pending' = [pending EXCEPT ![r] = log]
             /\ UNCHANGED stored
             /\ failures' \in 0..MaxFailures
    BY <1>2 DEF Kept, AuditTypeOK
  <1>3. QED
    <2>1. ASSUME \/ Duplicate(r) /\ UNCHANGED failures
                 \/ failures < MaxFailures /\ failures' = failures + 1
          PROVE  failures' \in 0..MaxFailures
      BY <2>1, AuditAssumption DEF AuditTypeOK
    <2>2. \/ /\ stored' = [stored EXCEPT ![r] = Append(@, log)]
             /\ pending' = [pending EXCEPT ![r] = NoLog]
             /\ UNCHANGED failures
          \/ /\ pending' = [pending EXCEPT ![r] = log]
             /\ UNCHANGED stored
             /\ failures' \in 0..MaxFailures
      BY <2>1 DEF Save
    <2>3. QED BY <1>1, <1>2, <2>2

LEMMA FinalizeKeeps ==
  ASSUME AuditTypeOK, NEW r \in Requests, Finalize(r)
  PROVE  /\ AuditTypeOK'
         /\ \A q \in Requests : Kept(q) => Kept(q)'
         /\ \A q \in Requests \ {r} :
              pending'[q] = pending[q] /\ stored'[q] = stored[q]
  <1>1. CASE Assembling(r)
    <2> DEFINE log == [pending[r] EXCEPT !.meta = TRUE]
    <2>1. log \in Log /\ log.base = pending[r].base
      BY <1>1, AssemblingIsLog DEF Log
    <2>2. Save(r, log)
      BY <1>1 DEF Finalize
    <2> HIDE DEF log
    <2>3. QED BY <2>1, <2>2, SaveKeeps
  <1>2. CASE ~Assembling(r)
    BY <1>2 DEF Finalize, auditVars, AuditTypeOK, Kept
  <1>3. QED BY <1>1, <1>2

LEMMA MarkKeeps ==
  ASSUME AuditTypeOK, NEW r \in Requests, NEW reason \in Reasons,
         MarkDisconnect(r, reason)
  PROVE  /\ AuditTypeOK'
         /\ \A q \in Requests : Kept(q) => Kept(q)'
         /\ \A q \in Requests \ {r} :
              pending'[q] = pending[q] /\ stored'[q] = stored[q]
  <1>1. CASE Assembling(r)
    <2> DEFINE met == [pending[r] EXCEPT !.meta = TRUE]
               log == [met EXCEPT !.reason = reason]
    <2>1. met \in Log /\ met.base = pending[r].base
      BY <1>1, AssemblingIsLog DEF Log
    <2>2. Save(r, log)
      BY <1>1 DEF MarkDisconnect
    <2> HIDE DEF met
    <2>3. log \in Log /\ log.base = pending[r].base
      BY <2>1 DEF Log
    <2> HIDE DEF log
    <2>4. QED BY <2>2, <2>3, SaveKeeps
  <1>2. CASE ~Assembling(r)
    BY <1>2 DEF MarkDisconnect, auditVars, AuditTypeOK, Kept
  <1>3. QED BY <1>1, <1>2

LEMMA SubmitKeeps ==
  ASSUME AuditTypeOK, NEW r \in Requests, Submit(r)
  PROVE  /\ AuditTypeOK'
         /\ \A q \in Requests : Kept(q) => Kept(q)'
         /\ Untouched(r) => Kept(r)'
         /\ \A q \in Requests \ {r} :
              pending'[q] = pending[q] /\ stored'[q] = stored[q]
  <1>1. Base \in Log /\ Base.base = TRUE
    BY EmptySeq DEF Base, Log, Reasons
  <1>2. QED
    BY <1>1, NoLogIsNone DEF Submit, Assembling, AuditTypeOK, Kept, Untouched

LEMMA ChunkKeeps ==
  ASSUME AuditTypeOK, NEW r \in Requests, NEW i \in Nat, SubmitSSEChunk(r, i)
  PROVE  /\ AuditTypeOK'
         /\ \A q \in Requests : Kept(q) => Kept(q)'
         /\ \A q \in Requests \ {r} :
              pending'[q] = pending[q] /\ stored'[q] = stored[q]
  <1> DEFINE log == IF Assembling(r) THEN pending[r] ELSE Skeleton
             new == [log EXCEPT !.chunks = Append(@, i)]
  <1>1. Skeleton \in Log /\ Skeleton.base = FALSE
    BY EmptySeq DEF Skeleton, Log, Reasons
  <1>2. log \in Log /\ log.base = pending[r].base
    BY <1>1, AssemblingIsLog, NoLogIsNone DEF Assembling
  <1>3. pending' = [pending EXCEPT ![r] = new] /\ UNCHANGED <<stored, failures>>
    BY DEF SubmitSSEChunk
  <1> HIDE DEF log
  <1>4. Append(log.chunks, i) \in Seq(Nat)
    BY <1>2, AppendProperties DEF Log
  <1>5. new \in Log /\ new.base = pending[r].base
    BY <1>2, <1>4 DEF Log
  <1> HIDE DEF new
  <1>6. QED BY <1>3, <1>5 DEF AuditTypeOK, Kept

LEMMA ShutdownKeeps ==
  ASSUME AuditTypeOK, Shutdown
  PROVE  /\ AuditTypeOK'
         /\ \A q \in Requests : Kept(q) => Kept(q)'
         /\ \A q \in Requests : Untouched(q) => Untouched(q)'
  <1> DEFINE open == {r \in Requests : Assembling(r)}
  <1>1. PICK done \in SUBSET open :
          /\ \A r \in done : ~Duplicate(r)
          /\ \/ done = open /\ UNCHANGED failures
             \/ /\ \E r \in open \ done : Duplicate(r)
                /\ UNCHANGED failures
             \/ /\ done # open /\ failures < MaxFailures
                /\ failures' = failures + 1
          /\ stored' = [r \in Requests |->
                          IF r \in done THEN Append(stored[r], pending[r])
                          ELSE stored[r]]
          /\ pending' = [r \in Requests |->
                           IF r \in done THEN NoLog ELSE pending[r]]
    BY DEF Shutdown
  <1>2. failures' \in 0..MaxFailures
    BY <1>1, AuditAssumption DEF AuditTypeOK
  <1>3. ASSUME NEW r \in done
        PROVE  /\ r \in Requests /\ pending[r] \in Log
               /\ stored[r] \in Seq(Log)
               /\ Append(stored[r], pending[r]) \in Seq(Log)
    BY AssemblingIsLog, FirstRow DEF AuditTypeOK
  <1>4. AuditTypeOK'
    BY <1>1, <1>2, <1>3 DEF AuditTypeOK
  <1>5. ASSUME NEW q \in Requests, Kept(q)
        PROVE  Kept(q)'
    <2>1. CASE q \in done
      <3>1. stored'[q] = Append(stored[q], pending[q])
        BY <1>1, <2>1
      <3>2. stored'[q] # <<>> /\ stored'[q][1].base
        BY <1>3, <1>5, <2>1, <3>1, FirstRow DEF Kept
      <3>3. QED BY <3>2 DEF Kept
    <2>2. CASE q \notin done
      BY <1>1, <1>5, <2>2 DEF Kept
    <2>3. QED BY <2>1, <2>2
  <1>6. ASSUME NEW q \in Requests, Untouched(q)
        PROVE  Untouched(q)'
    BY <1>1, <1>6 DEF Untouched, Assembling
  <1>7. QED BY <1>4, <1>5, <1>6

-----------------------------------------------------------------------------
LEMMA InitIInv == Init => IInv
  <1> SUFFICES ASSUME Init PROVE IInv
    OBVIOUS
  <1>1. TypeOK
    BY AuditAssumption, ChunkAssumption, EmptySeq
    DEF Init, AuditInit, TypeOK, Steps
  <1>2. QED BY <1>1 DEF Init, AuditInit, IInv, Untouched

(* The handler, Watch, the client and net/http: at most one method of the  *)
(* auditor is called, for the request that takes the step.                 *)
LEMMA RequestKeeps ==
  ASSUME IInv, NEW r \in Requests,
         AuditTypeOK',
         \A q \in Requests : Kept(q) => Kept(q)',
         \A q \in Requests \ {r} :
           pending'[q] = pending[q] /\ stored'[q] = stored[q],
         NEW to \in Steps \ {"start"}, pc' = [pc EXCEPT ![r] = to],
         to # "rejected" => Kept(r)',
         ctx' \in [Requests -> {"live", "client", "server"}],
         watch' \in [Requests -> {"off", "waiting", "ended"}],
         delivered' \in [Requests -> 0..MaxChunks],
         broken' \in [Requests -> BOOLEAN],
         UNCHANGED process
  PROVE  IInv'
  <1>1. TypeOK'
    BY DEF IInv, TypeOK, AuditTypeOK
  <1>2. ASSUME NEW q \in Requests
        PROVE  /\ pc'[q] = "start" => Untouched(q)'
               /\ pc'[q] \notin {"start", "rejected"} => Kept(q)'
    <2>1. CASE q = r
      BY <2>1 DEF IInv, TypeOK
    <2>2. CASE q # r
      BY <2>2 DEF IInv, TypeOK, Untouched
    <2>3. QED BY <2>1, <2>2
  <1>3. QED BY <1>1, <1>2 DEF IInv

(* A step of an actor other than the handler.                              *)
LEMMA OtherKeeps ==
  ASSUME IInv, NEW r \in Requests,
         pc[r] = "start" => UNCHANGED <<pending, stored>>,
         AuditTypeOK',
         \A q \in Requests : Kept(q) => Kept(q)',
         \A q \in Requests \ {r} :
           pending'[q] = pending[q] /\ stored'[q] = stored[q],
         ctx' \in [Requests -> {"live", "client", "server"}],
         watch' \in [Requests -> {"off", "waiting", "ended"}],
         UNCHANGED <<pc, delivered, broken, process>>
  PROVE  IInv'
  BY DEF IInv, TypeOK, AuditTypeOK, Untouched

LEMMA NextIInv == IInv /\ [Next]_vars => IInv'
  <1> SUFFICES ASSUME IInv, [Next]_vars PROVE IInv'
    OBVIOUS
  <1> DEFINE Frame(r) ==
        /\ AuditTypeOK'
        /\ \A q \in Requests : Kept(q) => Kept(q)'
        /\ \A q \in Requests \ {r} :
             pending'[q] = pending[q] /\ stored'[q] = stored[q]
  <1>1. AuditTypeOK
    BY DEF IInv, TypeOK, AuditTypeOK
  <1>2. ASSUME NEW r \in Requests, UNCHANGED auditVars PROVE Frame(r)
    BY <1>1, <1>2 DEF auditVars, AuditTypeOK, Kept
  <1>3. ASSUME NEW r \in Requests, pc[r] \notin {"start", "rejected"}
        PROVE  Kept(r)
    BY <1>3 DEF IInv
  <1>4. ASSUME NEW r \in Requests, Reject(r) PROVE IInv'
    <2>1. Frame(r) /\ UNCHANGED <<ctx, watch, delivered, broken, process>>
      BY <1>1, <1>4, FinalizeKeeps DEF Reject
    <2>2. pc' = [pc EXCEPT ![r] = "rejected"]
      BY <1>4 DEF Reject, Go
    <2>3. QED BY <2>1, <2>2, RequestKeeps DEF IInv, TypeOK, Steps
  <1>5. ASSUME NEW r \in Requests, Begin(r) PROVE IInv'
    <2>1. Untouched(r)
      BY <1>5 DEF Begin, Go, IInv
    <2>2. /\ Frame(r) /\ Kept(r)'
          /\ UNCHANGED <<ctx, watch, delivered, broken, process>>
      BY <1>1, <1>5, <2>1, SubmitKeeps DEF Begin
    <2>3. pc' = [pc EXCEPT ![r] = "calling"]
      BY <1>5 DEF Begin, Go
    <2>4. QED BY <2>2, <2>3, RequestKeeps DEF IInv, TypeOK, Steps
  <1>6. ASSUME NEW r \in Requests, Answer(r) \/ End(r) PROVE IInv'
    <2>1. Frame(r) /\ UNCHANGED <<ctx, watch, delivered, broken, process>>
      BY <1>1, <1>6, FinalizeKeeps DEF Answer, End
    <2>2. /\ pc' = [pc EXCEPT ![r] = "returned"]
          /\ pc[r] \notin {"start", "rejected"}
      BY <1>6 DEF Answer, End, Go
    <2>3. Kept(r)'
      BY <1>3, <2>1, <2>2
    <2>4. QED BY <2>1, <2>2, <2>3, RequestKeeps DEF IInv, TypeOK, Steps
  <1>7. ASSUME NEW r \in Requests, OpenStream(r) PROVE IInv'
    <2>1. Frame(r) /\ UNCHANGED <<ctx, delivered, broken, process>>
      BY <1>2, <1>7 DEF OpenStream
    <2>2. /\ pc' = [pc EXCEPT ![r] = "scanning"]
          /\ pc[r] \notin {"start", "rejected"}
          /\ watch' \in [Requests -> {"off", "waiting", "ended"}]
      BY <1>7 DEF OpenStream, Go, IInv, TypeOK
    <2>3. Kept(r)'
      BY <1>3, <2>1, <2>2
    <2>4. QED BY <2>1, <2>2, <2>3, RequestKeeps DEF IInv, TypeOK, Steps
  <1>8. ASSUME NEW r \in Requests, Write(r) PROVE IInv'
    <2>1. Frame(r) /\ UNCHANGED <<ctx, watch, broken, process>>
      BY <1>2, <1>8 DEF Write
    <2>2. /\ pc' = [pc EXCEPT ![r] = "captures"]
          /\ pc[r] \notin {"start", "rejected"}
          /\ delivered' \in [Requests -> 0..MaxChunks]
      <3>1. delivered[r] + 1 \in 0..MaxChunks
        BY <1>8, ChunkAssumption DEF Write, IInv, TypeOK
      <3>2. QED BY <1>8, <3>1 DEF Write, Go, IInv, TypeOK
    <2>3. Kept(r)'
      BY <1>3, <2>1, <2>2
    <2>4. QED BY <2>1, <2>2, <2>3, RequestKeeps DEF IInv, TypeOK, Steps
  <1>9. ASSUME NEW r \in Requests, Capture(r) PROVE IInv'
    <2>1. delivered[r] \in Nat
      BY ChunkAssumption DEF IInv, TypeOK
    <2>2. Frame(r) /\ UNCHANGED <<ctx, watch, delivered, broken, process>>
      BY <1>1, <1>9, <2>1, ChunkKeeps DEF Capture
    <2>3. /\ pc' = [pc EXCEPT ![r] = "scanning"]
          /\ pc[r] \notin {"start", "rejected"}
      BY <1>9 DEF Capture, Go
    <2>4. Kept(r)'
      BY <1>3, <2>2, <2>3
    <2>5. QED BY <2>2, <2>3, <2>4, RequestKeeps DEF IInv, TypeOK, Steps
  <1>10. ASSUME NEW r \in Requests, EndScan(r) PROVE IInv'
    <2>1. Frame(r) /\ UNCHANGED <<ctx, watch, delivered, process>>
      BY <1>2, <1>10 DEF EndScan
    <2>2. /\ pc' = [pc EXCEPT ![r] = "scanned"]
          /\ pc[r] \notin {"start", "rejected"}
          /\ broken' \in [Requests -> BOOLEAN]
      BY <1>10 DEF EndScan, Go, IInv, TypeOK
    <2>3. Kept(r)'
      BY <1>3, <2>1, <2>2
    <2>4. QED BY <2>1, <2>2, <2>3, RequestKeeps DEF IInv, TypeOK, Steps
  <1>11. ASSUME NEW r \in Requests, CheckError(r) PROVE IInv'
    <2>1. Frame(r)
      <3>1. "upstream" \in Reasons /\ "client" \in Reasons
        BY DEF Reasons
      <3>2. CASE broken[r] /\ ctx[r] = "live"
        BY <1>1, <1>11, <3>1, <3>2, MarkKeeps DEF CheckError
      <3>3. CASE broken[r] /\ ctx[r] # "live"
        BY <1>1, <1>11, <3>1, <3>3, MarkKeeps DEF CheckError
      <3>4. CASE ~broken[r]
        BY <1>2, <1>11, <3>4 DEF CheckError
      <3>5. QED BY <3>2, <3>3, <3>4
    <2>2. /\ pc' = [pc EXCEPT ![r] = "finalizing"]
          /\ pc[r] \notin {"start", "rejected"}
          /\ UNCHANGED <<ctx, watch, delivered, broken, process>>
      BY <1>11 DEF CheckError, Go
    <2>3. Kept(r)'
      BY <1>3, <2>1, <2>2
    <2>4. QED BY <2>1, <2>2, <2>3, RequestKeeps DEF IInv, TypeOK, Steps
  <1>12. ASSUME NEW r \in Requests, Watch(r) PROVE IInv'
    <2>1. Frame(r)
      <3>1. CASE WatchCancel(r)
        BY <1>1, <3>1, MarkKeeps DEF WatchCancel, Reasons
      <3>2. CASE WatchDone(r)
        BY <1>2, <3>2 DEF WatchDone
      <3>3. QED BY <1>12, <3>1, <3>2 DEF Watch
    <2>2. /\ UNCHANGED <<pc, ctx, delivered, broken, process>>
          /\ watch' = [watch EXCEPT ![r] = "ended"]
          /\ watch[r] = "waiting"
      BY <1>12 DEF Watch, WatchCancel, WatchDone
    <2>3. pc[r] = "start" => UNCHANGED <<pending, stored>>
      <3>1. CASE WatchDone(r)
        BY <3>1 DEF WatchDone, auditVars
      <3>2. CASE WatchCancel(r)
        BY <3>2 DEF WatchCancel, MarkDisconnect, Assembling, auditVars,
                    IInv, Untouched
      <3>3. QED BY <1>12, <3>1, <3>2 DEF Watch
    <2>4. QED BY <2>1, <2>2, <2>3, OtherKeeps DEF IInv, TypeOK
  <1>13. ASSUME NEW r \in Requests, ClientGoes(r) \/ ServerCancels(r)
         PROVE  IInv'
    <2>1. Frame(r) /\ UNCHANGED <<pc, watch, delivered, broken, process>>
      BY <1>2, <1>13 DEF ClientGoes, ServerCancels
    <2>2. /\ UNCHANGED <<pending, stored>>
          /\ ctx' \in [Requests -> {"live", "client", "server"}]
      BY <1>13 DEF ClientGoes, ServerCancels, auditVars, IInv, TypeOK
    <2>3. QED BY <2>1, <2>2, OtherKeeps DEF IInv, TypeOK
  <1>14. CASE Stop
    <2>1. /\ AuditTypeOK'
          /\ \A q \in Requests : Kept(q) => Kept(q)'
          /\ \A q \in Requests : Untouched(q) => Untouched(q)'
      BY <1>1, <1>14, ShutdownKeeps DEF Stop
    <2>2. UNCHANGED reqVars /\ process' \in {"up", "down"}
      BY <1>14 DEF Stop
    <2>3. QED BY <2>1, <2>2 DEF IInv, TypeOK, AuditTypeOK, reqVars
  <1>15. CASE UNCHANGED vars
    BY <1>15 DEF vars, IInv, TypeOK, Kept, Untouched
  <1>16. QED
    BY <1>4, <1>5, <1>6, <1>7, <1>8, <1>9, <1>10, <1>11, <1>12, <1>13,
       <1>14, <1>15 DEF Next, Handle

LEMMA SpecIInv == Spec => []IInv
  BY InitIInv, NextIInv, PTL DEF Spec

-----------------------------------------------------------------------------
(* Every variable keeps its type, for either kind of storage.              *)
THEOREM AuditTypeCorrect == Spec => []TypeOK
  <1>1. IInv => TypeOK
    BY DEF IInv
  <1>2. QED BY <1>1, SpecIInv, PTL

(* The metadata of a request that was announced to the auditor is always   *)
(* either still being assembled or in the first row stored for it: neither *)
(* the disconnect race nor any number of failed saves loses it.            *)
THEOREM MetadataIsKept == Spec => []RecordKept
  <1>1. IInv => RecordKept
    BY DEF IInv, Kept, RecordKept
  <1>2. QED BY <1>1, SpecIInv, PTL

(***************************************************************************)
(* What the rows hold.  FirstRowIsPrefix, NoFalseDisconnect and            *)
(* CleanStreamExact need what pending holds at each step of the handler:   *)
(* until the first row, exactly the chunks captured so far; no reason but  *)
(* that of a client that went, unless the storage refuses the log as a     *)
(* second row; and, while nothing has gone wrong, just what was begun.     *)
(***************************************************************************)
Sketch(r) == [base |-> TRUE, chunks |-> Upto(Captured(r)), meta |-> FALSE,
              reason |-> "none"]

Whole(r) == [base |-> TRUE, chunks |-> Upto(delivered[r]), meta |-> TRUE,
             reason |-> IF broken[r] THEN "upstream" ELSE "none"]

Stage(r) ==
  /\ pc[r] \in {"start", "rejected"} => Untouched(r)
  /\ pc[r] \in {"start", "calling", "rejected"} => delivered[r] = 0
  /\ pc[r] = "captures" => delivered[r] > 0
  /\ broken[r] => pc[r] \in {"scanned", "finalizing", "returned"}
  /\ ctx[r] = "server" => pc[r] = "returned"

Prefix(r) ==
  /\ stored[r] = <<>> /\ Assembling(r) => pending[r].chunks = Upto(Captured(r))
  /\ stored[r] # <<>> => \E n \in 0..Captured(r) : stored[r][1].chunks = Upto(n)

Undisputed(r) ==
  /\ \A i \in 1..Len(stored[r]) : stored[r][i].reason = "client" => ctx[r] = "client"
  /\ Assembling(r) /\ ~Duplicate(r) =>
       /\ pc[r] # "returned"
       /\ pending[r].reason = "client" => ctx[r] = "client"

Exact(r) ==
  /\ pc[r] \in {"calling", "scanning", "captures", "scanned"} =>
       stored[r] = <<>> /\ pending[r] = Sketch(r)
  /\ pc[r] = "finalizing" =>
       IF broken[r] THEN stored[r] = <<Whole(r)>> /\ ~Assembling(r)
       ELSE stored[r] = <<>> /\ pending[r] = Sketch(r)
  /\ pc[r] = "returned" => stored[r] = <<Whole(r)>> /\ ~Assembling(r)

Clean(r) == failures = 0 /\ process = "up" /\ ctx[r] # "client"

Row(r) ==
  /\ Stage(r)
  /\ Prefix(r)
  /\ failures = 0 => Undisputed(r)
  /\ Clean(r) => Exact(r)

RInv == IInv /\ \A r \in Requests : Row(r)

-----------------------------------------------------------------------------
(* The chunks in order, one more at a time.                                *)
LEMMA UptoGrows ==
  /\ Upto(0) = <<>>
  /\ \A n \in Nat : Upto(n) \in Seq(Nat) /\ Append(Upto(n), n + 1) = Upto(n + 1)
  <1>1. \A n \in Nat : /\ Upto(n) \in Seq(Nat) /\ Len(Upto(n)) = n
                       /\ \A i \in 1..n : Upto(n)[i] = i
    BY DEF Upto
  <1>2. Upto(0) = <<>>
    BY <1>1, EmptySeq
  <1>3. ASSUME NEW n \in Nat
        PROVE  Append(Upto(n), n + 1) = Upto(n + 1)
    <2>1. /\ Append(Upto(n), n + 1) \in Seq(Nat)
          /\ Len(Append(Upto(n), n + 1)) = n + 1
          /\ \A i \in 1..n : Append(Upto(n), n + 1)[i] = i
          /\ Append(Upto(n), n + 1)[n + 1] = n + 1
      BY <1>1, AppendProperties
    <2>2. Upto(n + 1) \in Seq(Nat) /\ Len(Upto(n + 1)) = n + 1
      BY <1>1
    <2>3. \A i \in 1..(n + 1) : Append(Upto(n), n + 1)[i] = Upto(n + 1)[i]
      BY <1>1, <2>1
    <2> QED  BY <2>1, <2>2, <2>3, SeqEqual
  <1> QED  BY <1>1, <1>2, <1>3

(* What Save does to the request: a row and nothing pending, or neither.   *)
Handed(r, log) ==
  \/ /\ ~Duplicate(r) /\ failures' = failures
     /\ stored'[r] = Append(stored[r], log) /\ pending'[r] = NoLog
  \/ /\ stored'[r] = stored[r] /\ pending'[r] = log
     /\ \/ Duplicate(r) /\ failures' = failures
        \/ failures' = failures + 1

Spared(r) == UNCHANGED <<pending[r], stored[r], failures>>

LEMMA SaveEffect ==
  ASSUME AuditTypeOK, NEW r \in Requests, NEW log, Save(r, log)
  PROVE  Handed(r, log)
  BY DEF Save, Handed, AuditTypeOK

LEMMA FinalizeEffect ==
  ASSUME AuditTypeOK, NEW r \in Requests, Finalize(r)
  PROVE  IF Assembling(r) THEN Handed(r, [pending[r] EXCEPT !.meta = TRUE])
         ELSE Spared(r)
  BY SaveEffect DEF Finalize, Spared, auditVars

LEMMA MarkEffect ==
  ASSUME AuditTypeOK, NEW r \in Requests, NEW reason, MarkDisconnect(r, reason)
  PROVE  IF Assembling(r)
         THEN Handed(r, [pending[r] EXCEPT !.meta = TRUE, !.reason = reason])
         ELSE Spared(r)
  BY SaveEffect DEF MarkDisconnect, Spared, auditVars

(* The log that Finalize or MarkDisconnect hands over.                     *)
LEMMA HandedLogs ==
  ASSUME NEW log \in Log, NEW reason \in Reasons
  PROVE  /\ [log EXCEPT !.meta = TRUE] \in Log
         /\ [log EXCEPT !.meta = TRUE].chunks = log.chunks
         /\ [log EXCEPT !.meta = TRUE].reason = log.reason
         /\ [log EXCEPT !.meta = TRUE].base = log.base
         /\ [log EXCEPT !.meta = TRUE].meta = TRUE
         /\ [log EXCEPT !.meta = TRUE, !.reason = reason] \in Log
         /\ [log EXCEPT !.meta = TRUE, !.reason = reason].chunks = log.chunks
         /\ [log EXCEPT !.meta = TRUE, !.reason = reason].reason = reason
         /\ [log EXCEPT !.meta = TRUE, !.reason = reason].base = log.base
         /\ [log EXCEPT !.meta = TRUE, !.reason = reason].meta = TRUE
  BY DEF Log

Moved(r, log) ==
  \/ stored'[r] = Append(stored[r], log) /\ pending'[r] = NoLog
  \/ stored'[r] = stored[r] /\ pending'[r] = log

(* The first row takes over what was captured.                             *)
LEMMA HandedPrefix ==
  ASSUME AuditTypeOK, NEW r \in Requests, NEW log \in Log, Moved(r, log),
         Assembling(r), log.chunks = pending[r].chunks, Prefix(r),
         Captured(r) \in Nat, Captured(r)' = Captured(r)
  PROVE  Prefix(r)'
  <1>1. CASE stored'[r] = Append(stored[r], log) /\ pending'[r] = NoLog
    <2>1. /\ stored'[r] # <<>>
          /\ stored[r] = <<>> => stored'[r][1] = log
          /\ stored[r] # <<>> => stored'[r][1] = stored[r][1]
      BY <1>1, FirstRow DEF AuditTypeOK
    <2>2. \E n \in 0..Captured(r) : stored'[r][1].chunks = Upto(n)
      <3>1. CASE stored[r] = <<>>
        BY <2>1, <3>1 DEF Prefix
      <3>2. CASE stored[r] # <<>>
        BY <2>1, <3>2 DEF Prefix
      <3> QED  BY <3>1, <3>2
    <2> QED  BY <2>1, <2>2 DEF Prefix
  <1>2. CASE stored'[r] = stored[r] /\ pending'[r] = log
    BY <1>2 DEF Prefix
  <1> QED  BY <1>1, <1>2 DEF Moved

LEMMA HandedCounts ==
  ASSUME NEW r \in Requests, NEW log, Handed(r, log) \/ Spared(r),
         failures \in Nat
  PROVE  /\ failures' \in Nat /\ failures' >= failures
         /\ failures' = 0 => failures = 0
         /\ Handed(r, log) => Moved(r, log)
  <1>1. failures' \in {failures, failures + 1}
    BY DEF Handed, Spared
  <1>2. Handed(r, log) => Moved(r, log)
    BY DEF Handed, Moved
  <1> QED  BY <1>1, <1>2

(* With nothing stored yet and no failure, it is the request's one row.    *)
LEMMA HandedClean ==
  ASSUME NEW r \in Requests, NEW log, Handed(r, log), stored[r] = <<>>,
         failures = 0, failures' = 0
  PROVE  stored'[r] = <<log>> /\ ~Assembling(r)'
  <1>1. stored'[r] = Append(<<>>, log) /\ pending'[r] = NoLog
    BY DEF Handed, Duplicate
  <1>2. Append(<<>>, log) = <<log>>
    OBVIOUS
  <1> QED  BY <1>1, <1>2 DEF Assembling

LEMMA SparedPrefix ==
  ASSUME NEW r \in Requests, Spared(r), Prefix(r), Captured(r)' = Captured(r)
  PROVE  Prefix(r)'
  BY DEF Spared, Prefix, Assembling

(* Without a failure, what is handed over is stored, or is refused for     *)
(* ever because the request has its row.                                   *)
LEMMA HandedUndisputed ==
  ASSUME AuditTypeOK, NEW r \in Requests, NEW log \in Log, Handed(r, log),
         Undisputed(r), failures = 0, failures' = 0,
         ctx'[r] = ctx[r] \/ ctx[r] # "client",
         log.reason = "client" /\ ~Duplicate(r) => ctx'[r] = "client"
  PROVE  Undisputed(r)'
  <1>1. CASE /\ ~Duplicate(r)
             /\ stored'[r] = Append(stored[r], log) /\ pending'[r] = NoLog
    <2>1. ~Assembling(r)'
      BY <1>1 DEF Assembling
    <2>2. stored[r] \in Seq(Log)
      BY DEF AuditTypeOK
    <2>3. /\ Len(stored'[r]) = Len(stored[r]) + 1 /\ Len(stored[r]) \in Nat
          /\ \A i \in 1..Len(stored[r]) : stored'[r][i] = stored[r][i]
          /\ stored'[r][Len(stored[r]) + 1] = log
      BY <1>1, <2>2, AppendProperties, LenProperties
    <2>4. ASSUME NEW i \in 1..Len(stored'[r]), stored'[r][i].reason = "client"
          PROVE  ctx'[r] = "client"
      <3>1. CASE i = Len(stored[r]) + 1
        BY <1>1, <2>3, <2>4, <3>1
      <3>2. CASE i \in 1..Len(stored[r])
        BY <2>3, <2>4, <3>2 DEF Undisputed
      <3> QED  BY <2>3, <3>1, <3>2
    <2> QED  BY <2>1, <2>4 DEF Undisputed
  <1>2. CASE /\ stored'[r] = stored[r] /\ pending'[r] = log
             /\ Duplicate(r)
    <2>1. Duplicate(r)'
      BY <1>2 DEF Duplicate
    <2> QED  BY <1>2, <2>1 DEF Undisputed
  <1> QED  BY <1>1, <1>2 DEF Handed

-----------------------------------------------------------------------------
(* The types of one request's parts.                                       *)
LEMMA Typed ==
  ASSUME RInv, NEW r \in Requests
  PROVE  /\ AuditTypeOK /\ Stage(r) /\ Prefix(r) /\ failures \in Nat
         /\ failures = 0 => Undisputed(r)
         /\ Clean(r) => Exact(r)
         /\ pc[r] \in Steps /\ ctx[r] \in {"live", "client", "server"}
         /\ broken[r] \in BOOLEAN /\ delivered[r] \in Nat /\ Captured(r) \in Nat
         /\ pc[r] \notin {"start", "rejected"} => Kept(r)
         /\ stored[r] = <<>> /\ pc[r] \notin {"start", "rejected"} => Assembling(r)
         /\ Assembling(r) => pending[r] \in Log
         /\ pending[r] = NoLog <=> ~Assembling(r)
  <1>1. Row(r) /\ IInv /\ AuditTypeOK
    BY DEF RInv, IInv, TypeOK, AuditTypeOK
  <1>2. /\ pc[r] \in Steps /\ ctx[r] \in {"live", "client", "server"}
        /\ broken[r] \in BOOLEAN /\ delivered[r] \in Nat /\ failures \in Nat
    BY <1>1, AuditAssumption, ChunkAssumption DEF IInv, TypeOK
  <1>3. Captured(r) \in Nat
    BY <1>1, <1>2 DEF Row, Stage, Captured
  <1>4. pc[r] \notin {"start", "rejected"} => Kept(r)
    BY <1>1 DEF IInv
  <1>5. stored[r] = <<>> /\ pc[r] \notin {"start", "rejected"} => Assembling(r)
    BY <1>4, NoLogIsNone DEF Kept, Assembling
  <1>6. (Assembling(r) => pending[r] \in Log) /\ (pending[r] = NoLog <=> ~Assembling(r))
    BY <1>1, AssemblingIsLog DEF Assembling
  <1> QED  BY <1>1, <1>2, <1>3, <1>4, <1>5, <1>6 DEF Row

(* A request whose parts do not change.                                    *)
LEMMA RowStays ==
  ASSUME RInv, NEW r \in Requests,
         UNCHANGED <<pending[r], stored[r], pc[r], ctx[r], delivered[r], broken[r]>>,
         failures' \in Nat, failures' >= failures,
         process' = process \/ process' = "down"
  PROVE  Row(r)'
  <1>1. failures' = 0 => failures = 0
    BY Typed
  <1>2. Clean(r)' => Clean(r)
    BY <1>1 DEF Clean
  <1>3. Stage(r)'
    BY Typed DEF Stage, Untouched
  <1>4. Prefix(r)'
    BY Typed DEF Prefix, Assembling, Captured
  <1>5. failures' = 0 => Undisputed(r)'
    BY <1>1, Typed DEF Undisputed, Assembling, Duplicate
  <1>6. Clean(r)' => Exact(r)'
    BY <1>2, Typed DEF Exact, Assembling, Sketch, Captured, Whole
  <1> QED  BY <1>3, <1>4, <1>5, <1>6 DEF Row

(* The other requests of a request's step.                                 *)
LEMMA HandlerFrame ==
  ASSUME RInv, NEW r \in Requests, Handle(r)
  PROVE  /\ \A q \in Requests \ {r} :
              UNCHANGED <<pending[q], stored[q], pc[q], ctx[q], delivered[q], broken[q]>>
         /\ failures' \in Nat /\ failures' >= failures /\ process' = process
  <1> DEFINE Apart == \A q \in Requests \ {r} : UNCHANGED <<pending[q], stored[q]>>
  <1>1. AuditTypeOK /\ IInv /\ TypeOK /\ failures \in Nat
    BY Typed DEF RInv, IInv
  <1>2. UNCHANGED auditVars => Apart /\ failures' = failures
    BY DEF auditVars
  <1>3. \A log \in Log : Save(r, log) => Apart /\ failures' \in {failures, failures + 1}
    BY <1>1 DEF Save, AuditTypeOK
  <1>4. Finalize(r) => Apart /\ failures' \in {failures, failures + 1}
    <2>1. Assembling(r) => [pending[r] EXCEPT !.meta = TRUE] \in Log
      BY <1>1, AssemblingIsLog, HandedLogs DEF Reasons
    <2> QED  BY <1>2, <1>3, <2>1 DEF Finalize
  <1>5. \A reason \in Reasons :
          MarkDisconnect(r, reason) => Apart /\ failures' \in {failures, failures + 1}
    <2>1. \A reason \in Reasons : Assembling(r) =>
            [pending[r] EXCEPT !.meta = TRUE, !.reason = reason] \in Log
      BY <1>1, AssemblingIsLog, HandedLogs
    <2> QED  BY <1>2, <1>3, <2>1 DEF MarkDisconnect
  <1>6. Submit(r) \/ (\E i \in Nat : SubmitSSEChunk(r, i)) =>
          Apart /\ failures' = failures
    BY <1>1 DEF Submit, SubmitSSEChunk, AuditTypeOK
  <1>7. Apart /\ failures' \in {failures, failures + 1} /\ process' = process
    <2>1. CASE Reject(r) \/ Answer(r) \/ End(r)
      BY <1>4, <2>1 DEF Reject, Answer, End
    <2>2. CASE Begin(r)
      BY <1>6, <2>2 DEF Begin
    <2>3. CASE Capture(r)
      <3>1. delivered[r] \in Nat
        BY Typed
      <3> QED  BY <1>6, <2>3, <3>1 DEF Capture
    <2>4. CASE CheckError(r)
      BY <1>2, <1>5, <2>4 DEF CheckError, Reasons
    <2>5. CASE OpenStream(r) \/ Write(r) \/ EndScan(r)
      BY <1>2, <2>5 DEF OpenStream, Write, EndScan
    <2> QED  BY <2>1, <2>2, <2>3, <2>4, <2>5 DEF Handle
  <1>8. \A q \in Requests \ {r} : UNCHANGED <<pc[q], ctx[q], delivered[q], broken[q]>>
    BY <1>1 DEF Handle, Reject, Begin, Answer, OpenStream, Write, Capture, EndScan,
                CheckError, End, Go, TypeOK
  <1>9. failures' \in Nat /\ failures' >= failures
    BY <1>1, <1>7
  <1> QED  BY <1>7, <1>8, <1>9

LEMMA HandlerAlone ==
  ASSUME RInv, NEW r \in Requests, Handle(r)
  PROVE  \A q \in Requests \ {r} : Row(q)'
  BY HandlerFrame, RowStays

-----------------------------------------------------------------------------
(* The row of the request that takes the step, one lemma per action.       *)
LEMMA RejectRow ==
  ASSUME RInv, NEW r \in Requests, Reject(r)
  PROVE  Row(r)'
  <1>1. /\ pc[r] = "start" /\ pc'[r] = "rejected"
        /\ UNCHANGED <<ctx, watch, delivered, broken, process>>
    BY DEF Reject, Go, RInv, IInv, TypeOK
  <1>2. ~Assembling(r) /\ stored[r] = <<>>
    BY <1>1, Typed DEF Stage, Untouched, Assembling
  <1>3. pending'[r] = pending[r] /\ stored'[r] = stored[r] /\ failures' = failures
    BY <1>2 DEF Reject, Finalize, auditVars
  <1>4. Stage(r)' /\ Prefix(r)' /\ Undisputed(r)'
    <2>1. ~Assembling(r)' /\ stored'[r] = <<>> /\ Untouched(r)'
      BY <1>2, <1>3 DEF Assembling, Untouched
    <2>2. Len(stored'[r]) = 0
      BY <2>1, EmptySeq
    <2> QED  BY <1>1, <2>1, <2>2, Typed DEF Stage, Prefix, Undisputed
  <1>5. Exact(r)'
    BY <1>1 DEF Exact
  <1> QED  BY <1>4, <1>5 DEF Row

LEMMA BeginRow ==
  ASSUME RInv, NEW r \in Requests, Begin(r)
  PROVE  Row(r)'
  <1>1. /\ pc[r] = "start" /\ pc'[r] = "calling"
        /\ UNCHANGED <<ctx, watch, delivered, broken, process>>
    BY DEF Begin, Go, RInv, IInv, TypeOK
  <1>2. ~Assembling(r) /\ stored[r] = <<>> /\ delivered[r] = 0
    BY <1>1, Typed DEF Stage, Untouched, Assembling
  <1>3. pending'[r] = Base /\ stored'[r] = <<>> /\ failures' = failures
    BY <1>2, Typed DEF Begin, Submit, AuditTypeOK
  <1>4. Captured(r)' = 0 /\ Upto(0) = <<>>
    BY <1>1, <1>2, UptoGrows DEF Captured
  <1>5. Stage(r)'
    BY <1>1, Typed DEF Stage
  <1>6. Prefix(r)'
    BY <1>3, <1>4 DEF Prefix, Base
  <1>7. Undisputed(r)'
    <2>1. Len(stored'[r]) = 0 /\ pending'[r].reason = "none"
      BY <1>3, EmptySeq DEF Base
    <2> QED  BY <1>1, <2>1 DEF Undisputed
  <1>8. Exact(r)'
    BY <1>1, <1>3, <1>4 DEF Exact, Sketch, Base
  <1> QED  BY <1>5, <1>6, <1>7, <1>8 DEF Row

(* Steps that do not call the auditor, on the way to the end of the scan.  *)
LEMMA QuietRow ==
  ASSUME RInv, NEW r \in Requests, UNCHANGED auditVars,
         pc[r] \in {"calling", "scanning"},
         pc'[r] \in {"scanning", "captures", "scanned"},
         Captured(r)' = Captured(r), Stage(r)',
         UNCHANGED <<ctx, process>>
  PROVE  Row(r)'
  <1>1. Prefix(r)'
    BY Typed DEF Prefix, Assembling, auditVars
  <1>2. failures' = 0 => Undisputed(r)'
    BY Typed DEF Undisputed, Assembling, Duplicate, auditVars
  <1>3. Clean(r)' => Exact(r)'
    <2>1. Clean(r)' => Clean(r)
      BY DEF Clean, auditVars
    <2>2. Sketch(r)' = Sketch(r)
      BY DEF Sketch
    <2> QED  BY <2>1, <2>2, Typed DEF Exact, auditVars
  <1> QED  BY <1>1, <1>2, <1>3 DEF Row

LEMMA ScanRow ==
  ASSUME RInv, NEW r \in Requests, OpenStream(r) \/ Write(r) \/ EndScan(r)
  PROVE  Row(r)'
  <1>0. TypeOK
    BY DEF RInv, IInv
  <1>1. /\ UNCHANGED auditVars /\ UNCHANGED <<ctx, process>>
        /\ pc[r] \in {"calling", "scanning"}
        /\ pc'[r] \in {"scanning", "captures", "scanned"}
    BY <1>0 DEF OpenStream, Write, EndScan, Go, TypeOK
  <1>2. Captured(r)' = Captured(r) /\ Stage(r)'
    <2>1. CASE OpenStream(r)
      <3>1. pc[r] = "calling" /\ pc'[r] = "scanning" /\ UNCHANGED <<delivered, broken>>
        BY <1>0, <2>1 DEF OpenStream, Go, TypeOK
      <3> QED  BY <1>1, <3>1, Typed DEF Captured, Stage
    <2>2. CASE Write(r)
      <3>1. /\ pc[r] = "scanning" /\ pc'[r] = "captures" /\ UNCHANGED broken
            /\ delivered'[r] = delivered[r] + 1
        BY <1>0, <2>2 DEF Write, Go, TypeOK
      <3> QED  BY <1>1, <3>1, Typed DEF Captured, Stage
    <2>3. CASE EndScan(r)
      <3>1. pc[r] = "scanning" /\ pc'[r] = "scanned" /\ UNCHANGED delivered
        BY <1>0, <2>3 DEF EndScan, Go, TypeOK
      <3> QED  BY <1>1, <3>1, Typed DEF Captured, Stage
    <2> QED  BY <2>1, <2>2, <2>3
  <1> QED  BY <1>1, <1>2, QuietRow

LEMMA CaptureRow ==
  ASSUME RInv, NEW r \in Requests, Capture(r)
  PROVE  Row(r)'
  <1> DEFINE log == IF Assembling(r) THEN pending[r] ELSE Skeleton
             more == Append(log.chunks, delivered[r])
             new == [log EXCEPT !.chunks = more]
  <1>1. /\ pc[r] = "captures" /\ pc'[r] = "scanning"
        /\ UNCHANGED <<ctx, watch, delivered, broken, process>>
    BY DEF Capture, Go, RInv, IInv, TypeOK
  <1>2. /\ pending'[r] = new /\ UNCHANGED <<stored, failures>>
    BY Typed DEF Capture, SubmitSSEChunk, AuditTypeOK
  <1>3. log \in Log
    BY Typed, EmptySeq DEF Skeleton, Log, Reasons
  <1>4. /\ new.base = log.base /\ new.meta = log.meta /\ new.reason = log.reason
        /\ new.chunks = more
        /\ new = [base |-> log.base, chunks |-> more, meta |-> log.meta,
                  reason |-> log.reason]
    <2> HIDE DEF log, more
    <2> QED  BY <1>3 DEF Log
  <1>5. /\ Captured(r) = delivered[r] - 1 /\ Captured(r)' = delivered[r]
        /\ delivered[r] \in Nat /\ Captured(r) \in Nat
        /\ Append(Upto(Captured(r)), delivered[r]) = Upto(Captured(r)')
    <2>1. Captured(r) = delivered[r] - 1 /\ Captured(r)' = delivered[r]
          /\ delivered[r] \in Nat /\ Captured(r) \in Nat
      BY <1>1, Typed DEF Captured
    <2>2. Captured(r) + 1 = delivered[r]
      BY <2>1
    <2>3. \A n \in Nat : Append(Upto(n), n + 1) = Upto(n + 1)
      BY UptoGrows
    <2>4. Append(Upto(Captured(r)), Captured(r) + 1) = Upto(Captured(r) + 1)
      BY <2>1, <2>3
    <2> QED  BY <2>1, <2>2, <2>4
  <1>6. stored[r] = <<>> => log = pending[r] /\ log.chunks = Upto(Captured(r))
    BY <1>1, Typed DEF Prefix
  <1> HIDE DEF log, new
  <1>7. Stage(r)'
    BY <1>1, Typed DEF Stage
  <1>8. Prefix(r)'
    <2>1. CASE stored[r] = <<>>
      BY <1>2, <1>4, <1>5, <1>6, <2>1 DEF Prefix
    <2>2. CASE stored[r] # <<>>
      <3>1. PICK n \in 0..Captured(r) : stored[r][1].chunks = Upto(n)
        BY <2>2, Typed DEF Prefix
      <3>2. n \in 0..(Captured(r)')
        BY <1>5, <3>1
      <3> QED  BY <1>2, <2>2, <3>1, <3>2 DEF Prefix
    <2> QED  BY <2>1, <2>2
  <1>9. failures' = 0 => Undisputed(r)'
    <2>1. log.reason = "client" => Assembling(r) /\ pending[r].reason = "client"
      BY DEF log, Skeleton
    <2> QED  BY <1>1, <1>2, <1>4, <2>1, Typed DEF Undisputed, Duplicate
  <1>10. Clean(r)' => Exact(r)'
    <2> SUFFICES ASSUME Clean(r)' PROVE Exact(r)'
      OBVIOUS
    <2>1. stored[r] = <<>> /\ pending[r] = Sketch(r)
      BY <1>1, <1>2, Typed DEF Clean, Exact
    <2>2. log.base = TRUE /\ log.meta = FALSE /\ log.reason = "none"
      BY <1>6, <2>1 DEF Sketch
    <2>3. more = Upto(Captured(r)')
      BY <1>5, <1>6, <2>1
    <2> HIDE DEF more
    <2>4. new = [base |-> TRUE, chunks |-> Upto(Captured(r)'), meta |-> FALSE,
                 reason |-> "none"]
      BY <1>4, <2>2, <2>3
    <2>5. new = Sketch(r)'
      BY <2>4 DEF Sketch
    <2> QED  BY <1>1, <1>2, <2>1, <2>5 DEF Exact
  <1> QED  BY <1>7, <1>8, <1>9, <1>10 DEF Row

(* Finalize and MarkDisconnect make the whole row of the sketch.           *)
LEMMA SameLog ==
  ASSUME NEW a \in Log, NEW b \in Log, a.base = b.base, a.chunks = b.chunks,
         a.meta = b.meta, a.reason = b.reason
  PROVE  a = b
  BY DEF Log

LEMMA Filled ==
  ASSUME NEW r \in Requests, pending[r] = Sketch(r), Captured(r) = delivered[r],
         delivered[r] \in Nat, broken[r] \in BOOLEAN
  PROVE  /\ ~broken[r] => [pending[r] EXCEPT !.meta = TRUE] = Whole(r)
         /\ broken[r] => [pending[r] EXCEPT !.meta = TRUE, !.reason = "upstream"] = Whole(r)
  <1> DEFINE got == Upto(delivered[r])
  <1>1. got \in Seq(Nat)
    BY UptoGrows
  <1>2. /\ pending[r] = [base |-> TRUE, chunks |-> got, meta |-> FALSE, reason |-> "none"]
        /\ Whole(r) = [base |-> TRUE, chunks |-> got, meta |-> TRUE,
                       reason |-> IF broken[r] THEN "upstream" ELSE "none"]
    BY DEF Sketch, Whole
  <1> HIDE DEF got
  <1>3. /\ pending[r] \in Log /\ pending[r].base = TRUE /\ pending[r].chunks = got
        /\ pending[r].reason = "none" /\ "upstream" \in Reasons
    BY <1>1, <1>2 DEF Log, Reasons
  <1>4. /\ Whole(r) \in Log /\ Whole(r).base = TRUE /\ Whole(r).chunks = got
        /\ Whole(r).meta = TRUE
        /\ Whole(r).reason = IF broken[r] THEN "upstream" ELSE "none"
    BY <1>1, <1>2 DEF Log, Reasons
  <1>5. ~broken[r] => [pending[r] EXCEPT !.meta = TRUE] = Whole(r)
    <2> DEFINE log == [pending[r] EXCEPT !.meta = TRUE]
    <2>1. /\ log \in Log /\ log.base = TRUE /\ log.chunks = got /\ log.meta = TRUE
          /\ log.reason = "none"
      BY <1>3, HandedLogs
    <2> HIDE DEF log
    <2>2. ~broken[r] => log = Whole(r)
      BY <1>4, <2>1, SameLog
    <2> QED  BY <2>2 DEF log
  <1>6. broken[r] => [pending[r] EXCEPT !.meta = TRUE, !.reason = "upstream"] = Whole(r)
    <2> DEFINE log == [pending[r] EXCEPT !.meta = TRUE, !.reason = "upstream"]
    <2>1. /\ log \in Log /\ log.base = TRUE /\ log.chunks = got /\ log.meta = TRUE
          /\ log.reason = "upstream"
      BY <1>3, HandedLogs
    <2> HIDE DEF log
    <2>2. broken[r] => log = Whole(r)
      BY <1>4, <2>1, SameLog
    <2> QED  BY <2>2 DEF log
  <1> QED  BY <1>5, <1>6

LEMMA FinalizeRow ==
  ASSUME RInv, NEW r \in Requests, Answer(r) \/ End(r)
  PROVE  Row(r)'
  <1> DEFINE log == [pending[r] EXCEPT !.meta = TRUE]
  <1>1. /\ pc[r] \in {"calling", "finalizing"} /\ pc'[r] = "returned"
        /\ Finalize(r)
        /\ UNCHANGED <<ctx, watch, delivered, broken, process>>
    BY DEF Answer, End, Go, RInv, IInv, TypeOK
  <1>2. IF Assembling(r) THEN Handed(r, log) ELSE Spared(r)
    BY <1>1, Typed, FinalizeEffect
  <1>3. /\ failures' \in Nat /\ failures' >= failures
        /\ failures' = 0 => failures = 0
        /\ Handed(r, log) => Moved(r, log)
    BY <1>2, Typed, HandedCounts
  <1>4. Assembling(r) => /\ log \in Log /\ log.chunks = pending[r].chunks
                         /\ log.reason = pending[r].reason
    BY Typed, HandedLogs DEF Reasons
  <1>5. Captured(r) = delivered[r] /\ Captured(r)' = delivered[r]
    BY <1>1 DEF Captured
  <1>6. Stage(r)'
    BY <1>1, Typed DEF Stage
  <1>7. Prefix(r)'
    <2>1. CASE Assembling(r)
      <3> HIDE DEF log
      <3> QED  BY <1>2, <1>3, <1>4, <1>5, <2>1, Typed, HandedPrefix
    <2>2. CASE ~Assembling(r)
      BY <1>2, <1>5, <2>2, Typed, SparedPrefix
    <2> QED  BY <2>1, <2>2
  <1>8. ASSUME failures' = 0 PROVE Undisputed(r)'
    <2>1. Undisputed(r) /\ failures = 0
      BY <1>3, <1>8, Typed
    <2>2. CASE Assembling(r)
      <3>1. log.reason = "client" /\ ~Duplicate(r) => ctx'[r] = "client"
        BY <1>1, <1>4, <2>1, <2>2 DEF Undisputed
      <3> HIDE DEF log
      <3>2. ctx'[r] = ctx[r]
        BY <1>1
      <3> QED  BY <1>2, <1>4, <1>8, <2>1, <2>2, <3>1, <3>2, Typed, HandedUndisputed
    <2>3. CASE ~Assembling(r)
      BY <1>1, <1>2, <2>1, <2>3 DEF Undisputed, Spared, Assembling
    <2> QED  BY <2>2, <2>3
  <1>9. ASSUME Clean(r)' PROVE Exact(r)'
    <2>1. failures' = 0 /\ failures = 0 /\ Clean(r) /\ Exact(r)
      BY <1>1, <1>3, <1>9, Typed DEF Clean
    <2>2. Whole(r)' = Whole(r)
      BY <1>1 DEF Whole
    <2>3. CASE pc[r] = "finalizing" /\ broken[r]
      <3>1. stored[r] = <<Whole(r)>> /\ ~Assembling(r)
        BY <2>1, <2>3 DEF Exact
      <3>2. stored'[r] = <<Whole(r)>> /\ ~Assembling(r)'
        BY <1>2, <3>1 DEF Spared, Assembling
      <3> QED  BY <1>1, <2>2, <3>2 DEF Exact
    <2>4. CASE ~(pc[r] = "finalizing" /\ broken[r])
      <3>1. stored[r] = <<>> /\ pending[r] = Sketch(r) /\ ~broken[r]
        BY <1>1, <2>1, <2>4, Typed DEF Exact, Stage
      <3>2. log = Whole(r)
        BY <1>5, <3>1, Typed, Filled
      <3>3. Assembling(r)
        BY <3>1 DEF Assembling, Sketch, NoLog
      <3>4. Handed(r, Whole(r))
        BY <1>2, <3>2, <3>3
      <3>5. stored'[r] = <<Whole(r)>> /\ ~Assembling(r)'
        BY <2>1, <3>1, <3>4, HandedClean
      <3> QED  BY <1>1, <2>2, <3>5 DEF Exact
    <2> QED  BY <2>3, <2>4
  <1> QED  BY <1>6, <1>7, <1>8, <1>9 DEF Row

(* MarkDisconnect by either caller, from which Prefix and Undisputed follow*)
(* alike: a reason given to a log that can be stored is the client's only  *)
(* when the client has gone.                                               *)
LEMMA MarkedRow ==
  ASSUME RInv, NEW r \in Requests, NEW reason \in Reasons,
         MarkDisconnect(r, reason), Captured(r)' = Captured(r),
         Assembling(r) /\ ~Duplicate(r) /\ failures = 0 /\ reason = "client"
           => ctx[r] = "client",
         UNCHANGED ctx
  PROVE  /\ failures' \in Nat /\ failures' >= failures
         /\ failures' = 0 => failures = 0
         /\ Prefix(r)'
         /\ failures' = 0 => Undisputed(r)'
  <1> DEFINE log == [pending[r] EXCEPT !.meta = TRUE, !.reason = reason]
  <1>1. IF Assembling(r) THEN Handed(r, log) ELSE Spared(r)
    BY Typed, MarkEffect
  <1>2. /\ failures' \in Nat /\ failures' >= failures
        /\ failures' = 0 => failures = 0
        /\ Handed(r, log) => Moved(r, log)
    BY <1>1, Typed, HandedCounts
  <1>3. Assembling(r) => /\ log \in Log /\ log.chunks = pending[r].chunks
                         /\ log.reason = reason
    BY Typed, HandedLogs
  <1> HIDE DEF log
  <1>4. Prefix(r)'
    <2>1. CASE Assembling(r)
      BY <1>1, <1>2, <1>3, <2>1, Typed, HandedPrefix
    <2>2. CASE ~Assembling(r)
      BY <1>1, <2>2, Typed, SparedPrefix
    <2> QED  BY <2>1, <2>2
  <1>5. ASSUME failures' = 0 PROVE Undisputed(r)'
    <2>1. Undisputed(r) /\ failures = 0
      BY <1>2, <1>5, Typed
    <2>2. CASE Assembling(r)
      <3>1. log.reason = "client" /\ ~Duplicate(r) => ctx'[r] = "client"
        BY <1>3, <2>1, <2>2
      <3> QED  BY <1>1, <1>3, <1>5, <2>1, <2>2, <3>1, Typed, HandedUndisputed
    <2>3. CASE ~Assembling(r)
      BY <1>1, <2>1, <2>3 DEF Undisputed, Spared, Assembling
    <2> QED  BY <2>2, <2>3
  <1> QED  BY <1>2, <1>4, <1>5

LEMMA CheckErrorRow ==
  ASSUME RInv, NEW r \in Requests, CheckError(r)
  PROVE  Row(r)'
  <1> DEFINE reason == IF ctx[r] = "live" THEN "upstream" ELSE "client"
  <1>1. /\ pc[r] = "scanned" /\ pc'[r] = "finalizing"
        /\ UNCHANGED <<ctx, watch, delivered, broken, process>>
        /\ IF broken[r] THEN MarkDisconnect(r, reason) ELSE UNCHANGED auditVars
    BY DEF CheckError, Go, RInv, IInv, TypeOK
  <1>2. Captured(r) = delivered[r] /\ Captured(r)' = delivered[r]
    BY <1>1 DEF Captured
  <1>3. Stage(r)'
    BY <1>1, Typed DEF Stage
  <1>4. reason \in Reasons /\ (reason = "client" => ctx[r] = "client")
    BY <1>1, Typed DEF Stage, Reasons
  <1>5. /\ failures' \in Nat /\ failures' >= failures
        /\ failures' = 0 => failures = 0
        /\ Prefix(r)'
        /\ failures' = 0 => Undisputed(r)'
    <2>1. CASE broken[r]
      <3> HIDE DEF reason
      <3> QED  BY <1>1, <1>2, <1>4, <2>1, MarkedRow
    <2>2. CASE ~broken[r]
      <3>1. Spared(r) /\ failures' = failures
        BY <1>1, <2>2 DEF Spared, auditVars
      <3>2. failures' = 0 => Undisputed(r)'
        BY <1>1, <3>1, Typed DEF Undisputed, Spared, Assembling, Duplicate
      <3> QED  BY <1>2, <3>1, <3>2, Typed, SparedPrefix
    <2> QED  BY <2>1, <2>2
  <1>6. ASSUME Clean(r)' PROVE Exact(r)'
    <2>1. failures' = 0 /\ failures = 0 /\ Clean(r) /\ Exact(r)
      BY <1>1, <1>5, <1>6, Typed DEF Clean
    <2>2. stored[r] = <<>> /\ pending[r] = Sketch(r)
      BY <1>1, <2>1 DEF Exact
    <2>3. Whole(r)' = Whole(r) /\ Sketch(r)' = Sketch(r)
      BY <1>1, <1>2 DEF Whole, Sketch
    <2>4. CASE broken[r]
      <3>1. reason = "upstream" /\ "upstream" \in Reasons
        BY <1>4, <2>1 DEF Clean, Reasons
      <3>2. [pending[r] EXCEPT !.meta = TRUE, !.reason = "upstream"] = Whole(r)
        BY <1>2, <2>2, <2>4, Typed, Filled
      <3>3. Assembling(r)
        BY <2>2 DEF Assembling, Sketch, NoLog
      <3>4. Handed(r, Whole(r))
        <4>1. MarkDisconnect(r, "upstream") /\ AuditTypeOK
          BY <1>1, <2>4, <3>1, Typed
        <4> QED  BY <3>2, <3>3, <4>1, MarkEffect
      <3>5. stored'[r] = <<Whole(r)>> /\ ~Assembling(r)'
        BY <2>1, <2>2, <3>4, HandedClean
      <3> QED  BY <1>1, <2>3, <2>4, <3>5 DEF Exact
    <2>5. CASE ~broken[r]
      BY <1>1, <2>2, <2>3, <2>5 DEF Exact, auditVars
    <2> QED  BY <2>4, <2>5
  <1> QED  BY <1>3, <1>5, <1>6 DEF Row

LEMMA HandleRows ==
  ASSUME RInv, NEW r \in Requests, Handle(r)
  PROVE  \A q \in Requests : Row(q)'
  BY HandlerAlone, RejectRow, BeginRow, ScanRow, CaptureRow, FinalizeRow,
     CheckErrorRow DEF Handle

-----------------------------------------------------------------------------
(* Watch, the client, net/http and the shutdown.                           *)
LEMMA WatchRows ==
  ASSUME RInv, NEW r \in Requests, Watch(r)
  PROVE  \A q \in Requests : Row(q)'
  <1>1. CASE WatchCancel(r)
    <2>1. /\ ctx[r] # "live" /\ MarkDisconnect(r, "client") /\ "client" \in Reasons
          /\ UNCHANGED <<pc, ctx, delivered, broken, process>>
      BY <1>1 DEF WatchCancel, Reasons
    <2>2. Captured(r)' = Captured(r)
      BY <2>1 DEF Captured
    <2>3. ctx[r] = "client" \/ (ctx[r] = "server" /\ pc[r] = "returned")
      BY <2>1, Typed DEF Stage
    <2>4. Assembling(r) /\ ~Duplicate(r) /\ failures = 0 => ctx[r] = "client"
      BY <2>3, Typed DEF Undisputed
    <2>5. /\ failures' \in Nat /\ failures' >= failures
          /\ failures' = 0 => failures = 0
          /\ Prefix(r)'
          /\ failures' = 0 => Undisputed(r)'
      BY <2>1, <2>2, <2>4, MarkedRow
    <2>6. ~Assembling(r) => Spared(r)
      BY <2>1, Typed, MarkEffect
    <2>7. Stage(r)'
      <3>1. Untouched(r) => Untouched(r)'
        BY <2>6 DEF Untouched, Assembling, Spared
      <3> QED  BY <2>1, <3>1, Typed DEF Stage
    <2>8. ASSUME Clean(r)' PROVE Exact(r)'
      <3>1. Clean(r) /\ pc[r] = "returned"
        BY <2>1, <2>3, <2>5, <2>8 DEF Clean
      <3>2. stored[r] = <<Whole(r)>> /\ ~Assembling(r)
        BY <3>1, Typed DEF Exact
      <3> QED  BY <2>1, <2>6, <3>1, <3>2 DEF Exact, Whole, Spared, Assembling
    <2>9. Row(r)'
      BY <2>5, <2>7, <2>8 DEF Row
    <2>10. ASSUME NEW q \in Requests \ {r} PROVE Row(q)'
      <3>1. pending'[q] = pending[q] /\ stored'[q] = stored[q]
        BY <2>1, Typed, MarkKeeps
      <3> QED  BY <2>1, <2>5, <3>1, RowStays
    <2> QED  BY <2>9, <2>10
  <1>2. CASE WatchDone(r)
    BY <1>2, RowStays, Typed DEF WatchDone, auditVars
  <1> QED  BY <1>1, <1>2 DEF Watch

LEMMA ContextRows ==
  ASSUME RInv, NEW r \in Requests, ClientGoes(r) \/ ServerCancels(r)
  PROVE  \A q \in Requests : Row(q)'
  <1>1. /\ UNCHANGED <<pending, stored, failures, pc, delivered, broken, process>>
        /\ \A q \in Requests \ {r} : ctx'[q] = ctx[q]
        /\ ctx[r] = "live"
        /\ \/ ctx'[r] = "client"
           \/ ctx'[r] = "server" /\ pc[r] = "returned"
    BY DEF ClientGoes, ServerCancels, auditVars, RInv, IInv, TypeOK
  <1>2. Row(r)'
    <2>1. Stage(r)' /\ Prefix(r)'
      BY <1>1, Typed DEF Stage, Prefix, Untouched, Assembling, Captured
    <2>2. failures' = 0 => Undisputed(r)'
      BY <1>1, Typed DEF Undisputed, Assembling, Duplicate
    <2>3. Clean(r)' => Exact(r)'
      <3>1. Clean(r)' => Clean(r)
        BY <1>1 DEF Clean
      <3> QED  BY <1>1, <3>1, Typed DEF Exact, Sketch, Whole, Captured, Assembling
    <2> QED  BY <2>1, <2>2, <2>3 DEF Row
  <1>3. ASSUME NEW q \in Requests \ {r} PROVE Row(q)'
    BY <1>1, RowStays, Typed
  <1> QED  BY <1>2, <1>3

LEMMA StopRows ==
  ASSUME RInv, Stop
  PROVE  \A r \in Requests : Row(r)'
  <1> DEFINE open == {r \in Requests : Assembling(r)}
  <1>1. Shutdown /\ process' = "down" /\ UNCHANGED <<pc, ctx, watch, delivered, broken>>
    BY DEF Stop, reqVars
  <1>2. PICK done \in SUBSET open :
          /\ \A r \in done : ~Duplicate(r)
          /\ \/ done = open /\ UNCHANGED failures
             \/ /\ \E r \in open \ done : Duplicate(r)
                /\ UNCHANGED failures
             \/ /\ done # open /\ failures < MaxFailures
                /\ failures' = failures + 1
          /\ stored' = [r \in Requests |->
                          IF r \in done THEN Append(stored[r], pending[r])
                          ELSE stored[r]]
          /\ pending' = [r \in Requests |->
                           IF r \in done THEN NoLog ELSE pending[r]]
    BY <1>1 DEF Shutdown
  <1>3. failures \in Nat
    BY AuditAssumption DEF RInv, IInv, TypeOK
  <1>4. failures' \in Nat /\ failures' >= failures /\ (failures' = 0 => failures' = failures)
    BY <1>2, <1>3
  <1>5. ASSUME NEW r \in done PROVE Row(r)'
    <2>1. /\ r \in Requests /\ Assembling(r) /\ ~Duplicate(r)
          /\ stored'[r] = Append(stored[r], pending[r]) /\ pending'[r] = NoLog
      BY <1>2
    <2>2. AuditTypeOK /\ pending[r] \in Log
      BY <2>1, Typed
    <2>3. Stage(r)'
      BY <1>1, <2>1, Typed DEF Stage, Untouched, Assembling
    <2>4. Captured(r)' = Captured(r)
      BY <1>1 DEF Captured
    <2>5. Prefix(r)'
      BY <2>1, <2>2, <2>4, Typed, HandedPrefix DEF Moved
    <2>6. ASSUME failures' = 0 PROVE Undisputed(r)'
      <3>1. failures = 0 /\ Undisputed(r) /\ ctx'[r] = ctx[r]
        BY <1>1, <1>4, <2>1, <2>6, Typed
      <3>2. pending[r].reason = "client" => ctx'[r] = "client"
        BY <2>1, <3>1 DEF Undisputed
      <3>3. Handed(r, pending[r])
        BY <1>4, <2>1, <2>6 DEF Handed
      <3> QED  BY <2>1, <2>2, <2>6, <3>1, <3>2, <3>3, HandedUndisputed
    <2>7. ~Clean(r)'
      BY <1>1 DEF Clean
    <2> QED  BY <2>3, <2>5, <2>6, <2>7 DEF Row
  <1>6. ASSUME NEW r \in Requests \ done PROVE Row(r)'
    <2>1. pending'[r] = pending[r] /\ stored'[r] = stored[r]
      BY <1>2
    <2> QED  BY <1>1, <1>4, <2>1, RowStays
  <1> QED  BY <1>5, <1>6

-----------------------------------------------------------------------------
LEMMA InitRInv == Init => RInv
  <1> SUFFICES ASSUME Init PROVE RInv
    OBVIOUS
  <1>1. ASSUME NEW r \in Requests PROVE Row(r)
    <2>1. /\ pc[r] = "start" /\ ctx[r] = "live" /\ delivered[r] = 0 /\ ~broken[r]
          /\ pending[r] = NoLog /\ stored[r] = <<>> /\ failures = 0
      BY DEF Init, AuditInit
    <2>2. ~Assembling(r) /\ Len(stored[r]) = 0
      BY <2>1, EmptySeq DEF Assembling
    <2> QED  BY <2>1, <2>2 DEF Row, Stage, Prefix, Undisputed, Exact, Untouched
  <1> QED  BY <1>1, InitIInv DEF RInv

LEMMA NextRInv == RInv /\ [Next]_vars => RInv'
  <1> SUFFICES ASSUME RInv, [Next]_vars PROVE RInv'
    OBVIOUS
  <1>1. IInv'
    BY NextIInv DEF RInv
  <1>2. CASE UNCHANGED vars
    <2>1. /\ UNCHANGED <<pending, stored, failures, pc, ctx, delivered, broken, process>>
          /\ failures \in Nat
      BY <1>2, AuditAssumption DEF vars, RInv, IInv, TypeOK
    <2>2. \A r \in Requests : Row(r)'
      BY <2>1, RowStays
    <2> QED  BY <1>1, <2>2 DEF RInv
  <1>3. CASE Next
    <2>1. \A r \in Requests : Row(r)'
      BY <1>3, HandleRows, WatchRows, ContextRows, StopRows DEF Next
    <2> QED  BY <1>1, <2>1 DEF RInv
  <1> QED  BY <1>2, <1>3

LEMMA SpecRInv == Spec => []RInv
  BY InitRInv, NextRInv, PTL DEF Spec

(* The first row of a request holds the chunks its client got, in order    *)
(* and without a gap, up to some chunk: whatever saves fail and however    *)
(* the handler, Watch and the shutdown interleave.                         *)
THEOREM FirstRowHoldsPrefix == Spec => []FirstRowIsPrefix
  <1>1. RInv => FirstRowIsPrefix
    <2> SUFFICES ASSUME RInv, NEW r \in Requests, stored[r] # <<>>
                 PROVE  stored[r][1].chunks \in {Upto(n) : n \in 0..delivered[r]}
      BY DEF FirstRowIsPrefix
    <2>1. PICK n \in 0..Captured(r) : stored[r][1].chunks = Upto(n)
      BY Typed DEF Prefix
    <2>2. n \in 0..delivered[r]
      BY <2>1, Typed DEF Captured
    <2> QED  BY <2>1, <2>2
  <1> QED  BY <1>1, SpecRInv, PTL

(* A request whose client stayed and whose saves succeeded has, when its   *)
(* handler has returned, exactly one row with all of it.                   *)
THEOREM CleanStreamIsExact == Spec => []CleanStreamExact
  <1>1. RInv => CleanStreamExact
    BY Typed DEF CleanStreamExact, Clean, Exact, Whole
  <1> QED  BY <1>1, SpecRInv, PTL

(* With a working storage only a request whose client has gone is ever     *)
(* stored as a client disconnect, although Watch also wakes at the         *)
(* cancellation net/http makes after every return.                         *)
THEOREM DisconnectsAreReal == Spec => []NoFalseDisconnect
  <1>1. RInv => NoFalseDisconnect
    BY Typed DEF NoFalseDisconnect, Undisputed
  <1> QED  BY <1>1, SpecRInv, PTL

(***************************************************************************)
(* KeepsLedger.  What is being assembled is never blank, so that every row *)
(* that is stored turns a page; a save that fails leaves the page open.    *)
(***************************************************************************)
Filed == \A r \in Requests : Assembling(r) => Page(pending[r]) # Ledger!Blank

Sheets == [base : BOOLEAN, chunks : Seq(Nat)]

LEMMA SheetOf ==
  /\ Page(NoLog) = Ledger!Blank /\ Page(Base) = Ledger!Titled
  /\ Ledger!Blank \in Sheets /\ Ledger!Blank # Ledger!Titled
  /\ \A log \in Log \cup {NoLog} : Page(log) \in Sheets
  <1>1. /\ Page(NoLog) = Ledger!Blank /\ Page(Base) = Ledger!Titled
        /\ Ledger!Blank # Ledger!Titled
    BY DEF Page, NoLog, Base, Ledger!Blank, Ledger!Titled
  <1>2. <<>> \in Seq(Nat)
    BY EmptySeq
  <1>3. Ledger!Blank \in Sheets
    BY <1>2 DEF Sheets, Ledger!Blank
  <1>4. \A log \in Log : Page(log) \in Sheets
    BY DEF Page, Log, Sheets
  <1>5. QED BY <1>1, <1>3, <1>4

LEMMA PagesShape ==
  ASSUME NEW s \in Seq(Log), NEW p \in Sheets
  PROVE  LET P == Append([i \in 1..Len(s) |-> Page(s[i])], p)
         IN  /\ P \in Seq(Sheets) /\ Len(P) = Len(s) + 1
             /\ \A i \in 1..Len(s) : P[i] = Page(s[i])
             /\ P[Len(s) + 1] = p
  <1> DEFINE Q == [i \in 1..Len(s) |-> Page(s[i])]
  <1>1. Len(s) \in Nat /\ \A i \in 1..Len(s) : s[i] \in Log
    BY LenProperties, ElementOfSeq
  <1>2. Q \in Seq(Sheets) /\ Len(Q) = Len(s)
    <2>1. Q \in [1..Len(s) -> Sheets]
      BY <1>1, SheetOf
    <2>2. Q \in Seq(Sheets)
      BY <1>1, <2>1, SeqDef
    <2>3. DOMAIN Q = 1..Len(s)
      OBVIOUS
    <2> HIDE DEF Q
    <2> QED  BY <1>1, <2>2, <2>3, LenProperties
  <1>3. \A i \in 1..Len(s) : Q[i] = Page(s[i])
    OBVIOUS
  <1> HIDE DEF Q
  <1>4. /\ Append(Q, p) \in Seq(Sheets) /\ Len(Append(Q, p)) = Len(s) + 1
        /\ \A i \in 1..Len(s) : Append(Q, p)[i] = Q[i]
        /\ Append(Q, p)[Len(s) + 1] = p
    BY <1>2, AppendProperties
  <1>5. QED BY <1>3, <1>4 DEF Q

LEMMA PagesOf ==
  ASSUME AuditTypeOK, NEW r \in Requests
  PROVE  /\ Pages(r) \in Seq(Sheets) /\ Len(Pages(r)) = Len(stored[r]) + 1
         /\ Len(stored[r]) \in Nat
         /\ \A i \in 1..Len(stored[r]) : Pages(r)[i] = Page(stored[r][i])
         /\ Pages(r)[Len(stored[r]) + 1] = Page(pending[r])
         /\ Page(pending[r]) \in Sheets
  <1>1. stored[r] \in Seq(Log) /\ Page(pending[r]) \in Sheets
    BY SheetOf DEF AuditTypeOK
  <1>2. QED BY <1>1, PagesShape, LenProperties DEF Pages

(* A row that is stored turns the page.                                    *)
LEMMA PageTurns ==
  ASSUME AuditTypeOK, AuditTypeOK', NEW r \in Requests, NEW log \in Log,
         stored'[r] = Append(stored[r], log), pending'[r] = NoLog,
         Page(log) = Page(pending[r])
  PROVE  Pages(r)' = Append(Pages(r), Ledger!Blank)
  <1> DEFINE n == Len(stored[r])
             P == Append(Pages(r), Ledger!Blank)
  <1>1. /\ n \in Nat /\ Len(stored'[r]) = n + 1
        /\ \A i \in 1..n : stored'[r][i] = stored[r][i]
        /\ stored'[r][n + 1] = log
    <2>1. stored[r] \in Seq(Log)
      BY DEF AuditTypeOK
    <2>2. QED BY <2>1, AppendProperties, LenProperties
  <1>2. /\ Pages(r) \in Seq(Sheets) /\ Len(Pages(r)) = n + 1
        /\ \A i \in 1..n : Pages(r)[i] = Page(stored[r][i])
        /\ Pages(r)[n + 1] = Page(pending[r])
    BY PagesOf
  <1>3. /\ Pages(r)' \in Seq(Sheets) /\ Len(Pages(r)') = n + 2
        /\ \A i \in 1..(n + 1) : Pages(r)'[i] = Page(stored'[r][i])
        /\ Pages(r)'[n + 2] = Ledger!Blank
    <2>1. /\ Pages(r)' \in Seq(Sheets) /\ Len(Pages(r)') = Len(stored'[r]) + 1
          /\ \A i \in 1..Len(stored'[r]) : Pages(r)'[i] = Page(stored'[r][i])
          /\ Pages(r)'[Len(stored'[r]) + 1] = Page(pending'[r])
      <3>1. /\ stored'[r] \in Seq(Log) /\ Page(pending'[r]) \in Sheets
        BY SheetOf DEF AuditTypeOK
      <3>2. QED BY <3>1, PagesShape DEF Pages
    <2> HIDE DEF n
    <2>2. QED BY <1>1, <2>1, SheetOf
  <1>4. /\ P \in Seq(Sheets) /\ Len(P) = n + 2
        /\ \A i \in 1..(n + 1) : P[i] = Pages(r)[i]
        /\ P[n + 2] = Ledger!Blank
    BY <1>1, <1>2, SheetOf, AppendProperties
  <1> HIDE DEF P, n
  <1>5. \A i \in 1..(n + 2) : Pages(r)'[i] = P[i]
    <2>1. \A i \in 1..n : Pages(r)'[i] = P[i]
      BY <1>1, <1>2, <1>3, <1>4
    <2>2. Pages(r)'[n + 1] = P[n + 1] /\ Pages(r)'[n + 2] = P[n + 2]
      BY <1>1, <1>2, <1>3, <1>4
    <2>3. QED BY <1>1, <2>1, <2>2
  <1>6. QED BY <1>3, <1>4, <1>5, SeqEqual DEF P

(* A chunk goes to the open page.                                          *)
LEMMA PageNotes ==
  ASSUME AuditTypeOK, AuditTypeOK', NEW r \in Requests, NEW n \in Nat,
         stored'[r] = stored[r],
         Page(pending'[r]) = Ledger!Written(Page(pending[r]), n)
  PROVE  Pages(r)' = Ledger!WithChunk(Pages(r), n)
  <1> DEFINE m == Len(stored[r])
             w == Page(pending'[r])
             P == Ledger!WithChunk(Pages(r), n)
  <1>1. /\ Pages(r) \in Seq(Sheets) /\ Len(Pages(r)) = m + 1 /\ m \in Nat
        /\ \A i \in 1..m : Pages(r)[i] = Page(stored[r][i])
        /\ Pages(r)[m + 1] = Page(pending[r])
    BY PagesOf
  <1>2. /\ Pages(r)' \in Seq(Sheets) /\ Len(Pages(r)') = m + 1
        /\ \A i \in 1..m : Pages(r)'[i] = Page(stored[r][i])
        /\ Pages(r)'[m + 1] = w /\ w \in Sheets
    <2>1. /\ stored[r] \in Seq(Log) /\ w \in Sheets
      BY SheetOf DEF AuditTypeOK
    <2>2. QED BY <2>1, PagesShape DEF Pages
  <1>3. P = [Pages(r) EXCEPT ![m + 1] = w]
    BY <1>1 DEF Ledger!WithChunk
  <1> HIDE DEF P, m, w
  <1>4. P \in Seq(Sheets) /\ Len(P) = m + 1
    BY <1>1, <1>2, <1>3, ExceptSeq
  <1>5. \A i \in 1..(m + 1) : P[i] = Pages(r)'[i]
    BY <1>1, <1>2, <1>3, ExceptSeq
  <1>6. QED BY <1>2, <1>4, <1>5, SeqEqual DEF P

(* What a step does to the pages of request r.                             *)
Turns(r) ==
  /\ Page(pending[r]) # Ledger!Blank
  /\ Pages(r)' = Append(Pages(r), Ledger!Blank)

LEMMA HandedTurns ==
  ASSUME AuditTypeOK, AuditTypeOK', NEW r \in Requests, NEW log \in Log,
         Handed(r, log), Page(log) = Page(pending[r]),
         Page(pending[r]) # Ledger!Blank
  PROVE  Turns(r) \/ Pages(r)' = Pages(r)
  <1>1. CASE stored'[r] = Append(stored[r], log) /\ pending'[r] = NoLog
    BY <1>1, PageTurns DEF Turns
  <1>2. CASE stored'[r] = stored[r] /\ pending'[r] = log
    BY <1>2 DEF Pages
  <1>3. QED BY <1>1, <1>2 DEF Handed

LEMMA CallTurns ==
  ASSUME RInv, RInv', Filed, NEW r \in Requests, NEW reason \in Reasons,
         Finalize(r) \/ MarkDisconnect(r, reason)
  PROVE  Turns(r) \/ Pages(r)' = Pages(r)
  <1>1. AuditTypeOK /\ AuditTypeOK'
    BY DEF RInv, IInv, TypeOK, AuditTypeOK
  <1>2. CASE Assembling(r)
    <2>1. pending[r] \in Log /\ Page(pending[r]) # Ledger!Blank
      BY <1>1, <1>2, AssemblingIsLog DEF Filed
    <2>2. PICK log \in Log : Handed(r, log) /\ Page(log) = Page(pending[r])
      <3> DEFINE met == [pending[r] EXCEPT !.meta = TRUE]
                 told == [pending[r] EXCEPT !.meta = TRUE, !.reason = reason]
      <3>1. Handed(r, met) \/ Handed(r, told)
        BY <1>1, <1>2, FinalizeEffect, MarkEffect
      <3>2. /\ met \in Log /\ met.base = pending[r].base
            /\ met.chunks = pending[r].chunks
            /\ told \in Log /\ told.base = pending[r].base
            /\ told.chunks = pending[r].chunks
        BY <2>1, HandedLogs
      <3> HIDE DEF met, told
      <3>3. Page(met) = Page(pending[r]) /\ Page(told) = Page(pending[r])
        BY <3>2 DEF Page
      <3>4. QED BY <3>1, <3>2, <3>3
    <2>3. QED BY <1>1, <2>1, <2>2, HandedTurns
  <1>3. CASE ~Assembling(r)
    BY <1>1, <1>3, FinalizeEffect, MarkEffect DEF Spared, Pages
  <1>4. QED BY <1>2, <1>3

(* The ledger of a step in which one request's auditor call turns a page.  *)
book == <<[r \in Requests |-> Pages(r)], [r \in Requests |-> Captured(r)]>>

LEMMA TurnsLedger ==
  ASSUME AuditTypeOK, NEW R \in SUBSET Requests,
         \A r \in R : Turns(r),
         \A q \in Requests \ R : Pages(q)' = Pages(q),
         \A q \in Requests : Captured(q)' = Captured(q)
  PROVE  [Ledger!Next]_book
  <1>1. \A r \in R : Pages(r)[Len(Pages(r))] # Ledger!Blank
    BY PagesOf DEF Turns
  <1>2. Ledger!Turn(R)
    BY <1>1 DEF Ledger!Turn, Turns
  <1>3. QED BY <1>2 DEF Ledger!Next

LEMMA FrameOf ==
  ASSUME NEW q \in Requests, UNCHANGED <<pending[q], stored[q], pc[q], delivered[q]>>
  PROVE  Pages(q)' = Pages(q) /\ Captured(q)' = Captured(q)
  BY DEF Pages, Captured

LEMMA HandleLedger ==
  ASSUME RInv, RInv', Filed, NEW r \in Requests, Handle(r)
  PROVE  [Ledger!Next]_book
  <1>1. \A q \in Requests \ {r} : Pages(q)' = Pages(q) /\ Captured(q)' = Captured(q)
    BY HandlerFrame, FrameOf
  <1>2. AuditTypeOK /\ AuditTypeOK' /\ TypeOK
    BY DEF RInv, IInv, TypeOK, AuditTypeOK
  <1>3. ASSUME Turns(r) \/ Pages(r)' = Pages(r), Captured(r)' = Captured(r)
        PROVE  [Ledger!Next]_book
    <2>1. CASE Turns(r)
      <3>1. {r} \in SUBSET Requests
        OBVIOUS
      <3>2. QED BY <1>1, <1>2, <1>3, <2>1, <3>1, TurnsLedger
    <2>2. CASE Pages(r)' = Pages(r)
      BY <1>1, <1>3, <2>2 DEF book
    <2>3. QED BY <1>3, <2>1, <2>2
  <1>4. CASE Reject(r) \/ Answer(r) \/ End(r)
    <2>1. Finalize(r) /\ "none" \in Reasons
      BY <1>4 DEF Reject, Answer, End, Reasons
    <2>2. Captured(r)' = Captured(r)
      BY <1>2, <1>4 DEF Captured, Reject, Answer, End, Go, TypeOK
    <2>3. QED BY <1>3, <2>1, <2>2, CallTurns
  <1>5. CASE CheckError(r)
    <2>1. Captured(r)' = Captured(r)
      BY <1>2, <1>5 DEF Captured, CheckError, Go, TypeOK
    <2>2. CASE broken[r]
      <3>1. PICK reason \in Reasons : MarkDisconnect(r, reason)
        BY <1>5, <2>2 DEF CheckError, Reasons
      <3>2. QED BY <1>3, <2>1, <3>1, CallTurns
    <2>3. CASE ~broken[r]
      <3>1. Pages(r)' = Pages(r)
        BY <1>5, <2>3 DEF CheckError, auditVars, Pages
      <3>2. QED BY <1>3, <2>1, <3>1
    <2>4. QED BY <2>2, <2>3
  <1>6. CASE OpenStream(r) \/ Write(r) \/ EndScan(r)
    <2>1. Pages(r)' = Pages(r)
      BY <1>6 DEF OpenStream, Write, EndScan, auditVars, Pages
    <2>2. Captured(r)' = Captured(r)
      BY <1>2, <1>6, Typed DEF OpenStream, Write, EndScan, Go, TypeOK, Captured
    <2>3. QED BY <1>3, <2>1, <2>2
  <1>7. CASE Begin(r)
    <2>1. /\ pc[r] = "start" /\ pc'[r] = "calling" /\ delivered' = delivered
          /\ pending[r] = NoLog /\ stored[r] = <<>> /\ stored' = stored
          /\ pending'[r] = Base
      BY <1>2, <1>7, Typed DEF Begin, Submit, Go, TypeOK, Stage, Untouched, Assembling
    <2>2. Captured(r)' = Captured(r)
      BY <2>1 DEF Captured
    <2>3. Pages(r) = <<Ledger!Blank>> /\ Pages(r)' = <<Ledger!Titled>>
      <3>1. \A p \in Sheets : Append([i \in 1..Len(<<>>) |-> Page(<<>>[i])], p) = <<p>>
        <4>1. [i \in 1..Len(<<>>) |-> Page(<<>>[i])] = <<>>
          OBVIOUS
        <4>2. QED BY <4>1
      <3>2. Ledger!Titled \in Sheets
        BY EmptySeq DEF Ledger!Titled, Sheets
      <3>3. QED BY <2>1, <3>1, <3>2, SheetOf DEF Pages
    <2>4. Ledger!Begin(r)
      BY <1>1, <2>2, <2>3 DEF Ledger!Begin
    <2>5. QED BY <2>4 DEF Ledger!Next
  <1>8. CASE Capture(r)
    <2> DEFINE n == delivered[r]
               log == IF Assembling(r) THEN pending[r] ELSE Skeleton
    <2>1. /\ pc[r] = "captures" /\ pc'[r] = "scanning" /\ delivered' = delivered
          /\ n \in Nat /\ stored' = stored
          /\ pending'[r] = [log EXCEPT !.chunks = Append(@, n)]
      BY <1>2, <1>8, Typed DEF Capture, SubmitSSEChunk, Go, TypeOK
    <2>2. Captured(r)' = n /\ Captured(r)' = Captured(r) + 1
      BY <2>1 DEF Captured
    <2>3. Page(pending'[r]) = Ledger!Written(Page(pending[r]), n)
      <3>1. log \in Log /\ Page(log) = Page(pending[r])
        <4>1. Skeleton \in Log /\ Page(Skeleton) = Ledger!Blank
          BY EmptySeq DEF Skeleton, Log, Reasons, Page, Ledger!Blank
        <4>2. QED BY <4>1, SheetOf, Typed
      <3> HIDE DEF log
      <3>2. QED BY <2>1, <3>1 DEF Page, Log, Ledger!Written
    <2>4. Pages(r)' = Ledger!WithChunk(Pages(r), n)
      BY <1>2, <2>1, <2>3, PageNotes
    <2>5. Pages(r) # <<Ledger!Blank>>
      <3>1. Kept(r)
        BY <2>1, Typed
      <3>2. CASE stored[r] = <<>> /\ pending[r].base
        <4>1. Pages(r)[1] = Page(pending[r])
          BY <1>2, <3>2, PagesOf, EmptySeq
        <4>2. Page(pending[r]).base # Ledger!Blank.base
          BY <3>2 DEF Page, Ledger!Blank
        <4>3. <<Ledger!Blank>>[1] = Ledger!Blank
          OBVIOUS
        <4>4. QED BY <4>1, <4>2, <4>3
      <3>3. CASE stored[r] # <<>>
        <4>1. Len(stored[r]) > 0
          BY <1>2, <3>3, EmptySeq DEF AuditTypeOK
        <4>2. Len(Pages(r)) > 1
          BY <1>2, <4>1, PagesOf
        <4>3. Len(<<Ledger!Blank>>) = 1
          OBVIOUS
        <4>4. Len(Pages(r)) # Len(<<Ledger!Blank>>)
          BY <4>2, <4>3
        <4>5. QED BY <4>4
      <3>4. QED BY <3>1, <3>2, <3>3 DEF Kept
    <2>6. Ledger!Note(r)
      BY <1>1, <2>2, <2>4, <2>5 DEF Ledger!Note
    <2>7. QED BY <2>6 DEF Ledger!Next
  <1>9. QED BY <1>4, <1>5, <1>6, <1>7, <1>8 DEF Handle

LEMMA WatchLedger ==
  ASSUME RInv, RInv', Filed, NEW r \in Requests, Watch(r)
  PROVE  [Ledger!Next]_book
  <1>1. CASE WatchCancel(r)
    <2>1. /\ MarkDisconnect(r, "client") /\ "client" \in Reasons
          /\ UNCHANGED <<pc, delivered>> /\ AuditTypeOK
      BY <1>1, Typed DEF WatchCancel, Reasons
    <2>2. Turns(r) \/ Pages(r)' = Pages(r)
      BY <2>1, CallTurns
    <2>3. \A q \in Requests \ {r} : Pages(q)' = Pages(q)
      <3>1. \A q \in Requests \ {r} : UNCHANGED <<pending[q], stored[q]>>
        BY <2>1, MarkKeeps
      <3>2. QED BY <3>1 DEF Pages
    <2>4. \A q \in Requests : Captured(q)' = Captured(q)
      BY <2>1 DEF Captured
    <2>5. CASE Turns(r)
      <3>1. {r} \in SUBSET Requests
        OBVIOUS
      <3>2. QED BY <2>1, <2>3, <2>4, <2>5, <3>1, TurnsLedger
    <2>6. CASE Pages(r)' = Pages(r)
      BY <2>3, <2>4, <2>6 DEF book
    <2>7. QED BY <2>2, <2>5, <2>6
  <1>2. CASE WatchDone(r)
    BY <1>2 DEF WatchDone, auditVars, book, Pages, Captured
  <1>3. QED BY <1>1, <1>2 DEF Watch

LEMMA StopLedger ==
  ASSUME RInv, RInv', Filed, Stop
  PROVE  [Ledger!Next]_book
  <1> DEFINE open == {r \in Requests : Assembling(r)}
  <1>1. Shutdown /\ UNCHANGED <<pc, delivered>>
    BY DEF Stop, reqVars
  <1>2. AuditTypeOK /\ AuditTypeOK'
    BY DEF RInv, IInv, TypeOK, AuditTypeOK
  <1>3. PICK done \in SUBSET open :
          /\ stored' = [r \in Requests |->
                          IF r \in done THEN Append(stored[r], pending[r])
                          ELSE stored[r]]
          /\ pending' = [r \in Requests |->
                           IF r \in done THEN NoLog ELSE pending[r]]
    BY <1>1 DEF Shutdown
  <1>4. ASSUME NEW r \in done PROVE Turns(r)
    <2>1. r \in Requests /\ pending[r] \in Log /\ Page(pending[r]) # Ledger!Blank
      BY <1>2, AssemblingIsLog DEF Filed
    <2>2. stored'[r] = Append(stored[r], pending[r]) /\ pending'[r] = NoLog
      BY <1>3, <2>1
    <2>3. QED BY <1>2, <2>1, <2>2, PageTurns DEF Turns
  <1>5. \A q \in Requests \ done : Pages(q)' = Pages(q)
    BY <1>3 DEF Pages
  <1>6. \A q \in Requests : Captured(q)' = Captured(q)
    BY <1>1 DEF Captured
  <1>7. done \in SUBSET Requests
    OBVIOUS
  <1>8. QED BY <1>2, <1>4, <1>5, <1>6, <1>7, TurnsLedger

(* Every step of the handlers, of Watch, of the clients and of the         *)
(* shutdown writes the ledger, or leaves it as it is.                      *)
LEMMA StepLedger == RInv /\ RInv' /\ Filed /\ [Next]_vars => [Ledger!Next]_book
  <1> SUFFICES ASSUME RInv, RInv', Filed, [Next]_vars PROVE [Ledger!Next]_book
    OBVIOUS
  <1>1. ASSUME NEW r \in Requests, ClientGoes(r) \/ ServerCancels(r)
        PROVE  UNCHANGED book
    BY <1>1 DEF ClientGoes, ServerCancels, auditVars, book, Pages, Captured
  <1>2. CASE UNCHANGED vars
    BY <1>2 DEF vars, book, Pages, Captured
  <1>3. QED BY <1>1, <1>2, HandleLedger, WatchLedger, StopLedger DEF Next

(* What a step leaves in pending is nothing, what was there, or not blank. *)
LEMMA HandedFiled ==
  ASSUME RInv, Filed, NEW r \in Requests, NEW reason \in Reasons,
         Finalize(r) \/ MarkDisconnect(r, reason)
  PROVE  pending'[r] = NoLog \/ Page(pending'[r]) # Ledger!Blank
  <1>1. CASE Assembling(r)
    <2> DEFINE met == [pending[r] EXCEPT !.meta = TRUE]
               told == [pending[r] EXCEPT !.meta = TRUE, !.reason = reason]
    <2>1. Handed(r, met) \/ Handed(r, told)
      BY <1>1, Typed, FinalizeEffect, MarkEffect
    <2>2. /\ met.base = pending[r].base /\ met.chunks = pending[r].chunks
          /\ told.base = pending[r].base /\ told.chunks = pending[r].chunks
      BY <1>1, Typed, HandedLogs
    <2> HIDE DEF met, told
    <2>3. QED BY <1>1, <2>1, <2>2 DEF Handed, Page, Filed
  <1>2. CASE ~Assembling(r)
    BY <1>2, Typed, FinalizeEffect, MarkEffect DEF Spared
  <1>3. QED BY <1>1, <1>2

LEMMA HandleFiled ==
  ASSUME RInv, Filed, NEW r \in Requests, Handle(r)
  PROVE  \/ pending'[r] = NoLog \/ Page(pending'[r]) # Ledger!Blank
         \/ pending'[r] = pending[r]
  <1>1. CASE Reject(r) \/ Answer(r) \/ End(r)
    BY <1>1, HandedFiled DEF Reject, Answer, End, Reasons
  <1>2. CASE CheckError(r)
    <2>1. \/ \E reason \in Reasons : MarkDisconnect(r, reason)
          \/ UNCHANGED auditVars
      BY <1>2 DEF CheckError, Reasons
    <2>2. QED BY <2>1, HandedFiled DEF auditVars
  <1>3. CASE OpenStream(r) \/ Write(r) \/ EndScan(r)
    BY <1>3 DEF OpenStream, Write, EndScan, auditVars
  <1>4. CASE Begin(r)
    <2>1. pending'[r] \in {pending[r], Base}
      BY <1>4, Typed DEF Begin, Submit, AuditTypeOK
    <2>2. QED BY <2>1, SheetOf
  <1>5. CASE Capture(r)
    <2> DEFINE log == IF Assembling(r) THEN pending[r] ELSE Skeleton
               more == Append(log.chunks, delivered[r])
    <2>1. pending'[r] = [log EXCEPT !.chunks = more] /\ delivered[r] \in Nat
      BY <1>5, Typed DEF Capture, SubmitSSEChunk, AuditTypeOK
    <2>2. log \in Log
      BY Typed, EmptySeq DEF Skeleton, Log, Reasons
    <2>3. more # <<>>
      <3> HIDE DEF log
      <3>1. log.chunks \in Seq(Nat)
        BY <2>2 DEF Log
      <3>2. Len(more) = Len(log.chunks) + 1 /\ Len(log.chunks) \in Nat
        BY <2>1, <3>1, AppendProperties, LenProperties
      <3>3. Len(more) # Len(<<>>)
        BY <3>2
      <3>4. QED BY <3>3
    <2> HIDE DEF log, more
    <2>4. Page(pending'[r]).chunks = more
      BY <2>1, <2>2 DEF Page, Log
    <2>5. QED BY <2>3, <2>4 DEF Ledger!Blank
  <1>6. QED BY <1>1, <1>2, <1>3, <1>4, <1>5 DEF Handle

LEMMA StepFiled == RInv /\ Filed /\ [Next]_vars => Filed'
  <1> SUFFICES ASSUME RInv, Filed, [Next]_vars, NEW q \in Requests
               PROVE  \/ pending'[q] = NoLog \/ Page(pending'[q]) # Ledger!Blank
                      \/ pending'[q] = pending[q]
    BY DEF Filed, Assembling
  <1>1. ASSUME NEW r \in Requests, Handle(r)
        PROVE  q # r => pending'[q] = pending[q]
    BY <1>1, HandlerFrame
  <1>2. ASSUME NEW r \in Requests, Watch(r)
        PROVE  \/ q = r /\ MarkDisconnect(r, "client")
               \/ pending'[q] = pending[q]
    <2>1. AuditTypeOK /\ "client" \in Reasons
      BY Typed DEF Reasons
    <2>2. MarkDisconnect(r, "client") \/ UNCHANGED auditVars
      BY <1>2 DEF Watch, WatchCancel, WatchDone
    <2>3. QED BY <2>1, <2>2, MarkKeeps DEF auditVars
  <1>3. ASSUME NEW r \in Requests, ClientGoes(r) \/ ServerCancels(r)
        PROVE  pending'[q] = pending[q]
    BY <1>3 DEF ClientGoes, ServerCancels, auditVars
  <1>4. CASE Stop
    BY <1>4 DEF Stop, Shutdown
  <1>5. CASE UNCHANGED vars
    BY <1>5 DEF vars
  <1>6. "client" \in Reasons
    BY DEF Reasons
  <1>7. QED
    BY <1>1, <1>2, <1>3, <1>4, <1>5, <1>6, HandleFiled, HandedFiled DEF Next

LEMMA InitLedger == Init => Filed /\ Ledger!Init
  <1> SUFFICES ASSUME Init PROVE Filed /\ Ledger!Init
    OBVIOUS
  <1>1. Filed
    BY DEF Init, AuditInit, Filed, Assembling
  <1>2. ASSUME NEW r \in Requests
        PROVE  Pages(r) = <<Ledger!Blank>> /\ Captured(r) = 0
    <2>1. stored[r] = <<>> /\ pending[r] = NoLog /\ pc[r] = "start" /\ delivered[r] = 0
      BY DEF Init, AuditInit
    <2>2. [i \in 1..Len(<<>>) |-> Page(<<>>[i])] = <<>>
      OBVIOUS
    <2>3. Append(<<>>, Ledger!Blank) = <<Ledger!Blank>>
      BY SheetOf
    <2>4. QED BY <2>1, <2>2, <2>3, SheetOf DEF Pages, Captured
  <1>3. QED BY <1>1, <1>2 DEF Ledger!Init

(* The audit trail is a ledger, for any requests, either kind of storage   *)
(* and any number of failed saves: handleStreaming, Watch, Finalize, the   *)
(* disconnect mark and Shutdown together neither lose, repeat, reorder nor *)
(* rewrite a chunk, and never store a row that holds nothing.              *)
THEOREM AuditKeepsLedger == Spec => KeepsLedger
  <1>1. RInv /\ RInv' /\ Filed /\ [Next]_vars =>
          [Ledger!Next]_<<[r \in Requests |-> Pages(r)],
                          [r \in Requests |-> Captured(r)]>>
    BY StepLedger DEF book
  <1>2. QED
    BY <1>1, InitLedger, StepFiled, SpecRInv, PTL
       DEF Spec, KeepsLedger, Ledger!Spec

-----------------------------------------------------------------------------
(***************************************************************************)
(* When a request may get a second row.  The first row is a request's last *)
(* as long as its client stays and the auditor is not shut down, for then  *)
(* the log is not saved before the scan is over, and no later step of the  *)
(* handler or of Watch puts anything into pending again.                   *)
(***************************************************************************)
Excused(r) == ctx[r] = "client" \/ process = "down"

Lone(r) ==
  \/ stored[r] = <<>>
  \/ Len(stored[r]) = 1 /\ ~Assembling(r) /\ pc[r] \in {"finalizing", "returned"}

Settled == \A r \in Requests : Lone(r) \/ Excused(r)

SecondRowExcused == \A r \in Requests : Len(stored[r]) > 1 => Excused(r)

(* A log that is handed to the storage, where there was no row or nothing  *)
(* to hand over.                                                           *)
LEMMA HandedLone ==
  ASSUME AuditTypeOK, NEW r \in Requests, Lone(r),
         pc'[r] \in {"finalizing", "returned"},
         (Assembling(r) /\ \E log : Handed(r, log)) \/ (~Assembling(r) /\ Spared(r)),
         pc[r] \in {"finalizing", "returned"} \/ stored[r] = <<>>
  PROVE  Lone(r)'
  <1>1. CASE ~Assembling(r) /\ Spared(r)
    BY <1>1 DEF Lone, Spared, Assembling
  <1>2. ASSUME Assembling(r), NEW log, Handed(r, log) PROVE Lone(r)'
    <2>1. stored[r] = <<>>
      BY <1>2 DEF Lone
    <2>2. CASE stored'[r] = Append(stored[r], log) /\ pending'[r] = NoLog
      <3>1. stored'[r] = <<log>> /\ Len(<<log>>) = 1
        BY <2>1, <2>2
      <3> QED  BY <2>2, <3>1 DEF Lone, Assembling
    <2>3. CASE stored'[r] = stored[r]
      BY <2>1, <2>3 DEF Lone
    <2> QED  BY <1>2, <2>2, <2>3 DEF Handed
  <1> QED  BY <1>1, <1>2

LEMMA HandleLone ==
  ASSUME RInv, NEW r \in Requests, Handle(r), Lone(r)
  PROVE  Lone(r)'
  <1>1. AuditTypeOK /\ TypeOK
    BY Typed DEF RInv, IInv
  <1>2. CASE Reject(r)
    <2>1. pc[r] = "start" /\ pc'[r] = "rejected"
      BY <1>1, <1>2 DEF Reject, Go, TypeOK
    <2>2. ~Assembling(r) /\ stored[r] = <<>>
      BY <2>1, Typed DEF Stage, Untouched, Assembling
    <2> QED  BY <1>2, <2>2 DEF Reject, Finalize, auditVars, Lone
  <1>3. CASE Answer(r) \/ End(r)
    <2>1. /\ pc'[r] = "returned" /\ Finalize(r)
          /\ pc[r] = "calling" \/ pc[r] = "finalizing"
      BY <1>1, <1>3 DEF Answer, End, Go, TypeOK
    <2>2. pc[r] = "finalizing" \/ stored[r] = <<>>
      BY <2>1 DEF Lone
    <2>3. (Assembling(r) /\ \E log : Handed(r, log)) \/ (~Assembling(r) /\ Spared(r))
      BY <1>1, <2>1, FinalizeEffect
    <2> QED  BY <1>1, <2>1, <2>2, <2>3, HandedLone
  <1>4. CASE CheckError(r)
    <2>1. /\ pc[r] = "scanned" /\ pc'[r] = "finalizing"
          /\ (\E reason : MarkDisconnect(r, reason)) \/ UNCHANGED auditVars
      BY <1>1, <1>4 DEF CheckError, Go, TypeOK
    <2>2. stored[r] = <<>>
      BY <2>1 DEF Lone
    <2>3. CASE UNCHANGED auditVars
      BY <2>2, <2>3 DEF auditVars, Lone
    <2>4. CASE \E reason : MarkDisconnect(r, reason)
      <3>1. (Assembling(r) /\ \E log : Handed(r, log)) \/ (~Assembling(r) /\ Spared(r))
        BY <1>1, <2>4, MarkEffect
      <3> QED  BY <1>1, <2>1, <2>2, <3>1, HandedLone
    <2> QED  BY <2>1, <2>3, <2>4
  <1>5. CASE Begin(r) \/ OpenStream(r) \/ Write(r) \/ Capture(r) \/ EndScan(r)
    <2>1. stored' = stored /\ pc[r] \in {"start", "calling", "scanning", "captures"}
      BY <1>5 DEF Begin, Submit, OpenStream, Write, Capture, SubmitSSEChunk,
                  EndScan, Go, auditVars
    <2> QED  BY <2>1 DEF Lone
  <1> QED  BY <1>2, <1>3, <1>4, <1>5 DEF Handle

LEMMA StepSettled == RInv /\ Settled /\ [Next]_vars => Settled'
  <1> SUFFICES ASSUME RInv, Settled, [Next]_vars, NEW q \in Requests
               PROVE  (Lone(q) \/ Excused(q))'
    BY DEF Settled
  <1>1. Lone(q) \/ Excused(q)
    BY DEF Settled
  <1>2. AuditTypeOK /\ TypeOK
    BY Typed DEF RInv, IInv
  <1>3. ASSUME UNCHANGED <<pending[q], stored[q], pc[q], ctx[q]>>,
               process' = process \/ process' = "down"
        PROVE  (Lone(q) \/ Excused(q))'
    BY <1>1, <1>3 DEF Lone, Excused, Assembling
  <1>4. ASSUME NEW r \in Requests, Handle(r) PROVE (Lone(q) \/ Excused(q))'
    <2>1. CASE q # r
      BY <1>3, <1>4, <2>1, HandlerFrame
    <2>2. CASE q = r
      <3>1. UNCHANGED <<ctx, process>>
        BY <1>4 DEF Handle, Reject, Begin, Answer, OpenStream, Write, Capture,
                    EndScan, CheckError, End
      <3> QED  BY <1>1, <1>4, <2>2, <3>1, HandleLone DEF Excused
    <2> QED  BY <2>1, <2>2
  <1>5. ASSUME NEW r \in Requests, WatchCancel(r) PROVE (Lone(q) \/ Excused(q))'
    <2>1. ctx[r] # "live" /\ MarkDisconnect(r, "client") /\ UNCHANGED <<pc, ctx, process>>
      BY <1>5 DEF WatchCancel
    <2>2. CASE q # r
      <3>1. "client" \in Reasons
        BY DEF Reasons
      <3>2. pending'[q] = pending[q] /\ stored'[q] = stored[q]
        BY <1>2, <2>1, <2>2, <3>1, MarkKeeps
      <3> QED  BY <1>3, <2>1, <3>2
    <2>3. CASE q = r /\ Excused(q)
      BY <2>1, <2>3 DEF Excused
    <2>4. CASE q = r /\ ~Excused(q)
      <3>1. pc[r] = "returned"
        BY <2>1, <2>4, Typed DEF Stage, Excused
      <3>2. (Assembling(r) /\ \E log : Handed(r, log)) \/ (~Assembling(r) /\ Spared(r))
        BY <1>2, <2>1, MarkEffect
      <3>3. pc'[r] = "returned"
        BY <2>1, <3>1
      <3> QED  BY <1>1, <1>2, <2>4, <3>1, <3>2, <3>3, HandedLone
    <2> QED  BY <2>2, <2>3, <2>4
  <1>6. ASSUME NEW r \in Requests, WatchDone(r) \/ ClientGoes(r) \/ ServerCancels(r)
        PROVE  (Lone(q) \/ Excused(q))'
    <2>1. /\ UNCHANGED <<auditVars, pc, process>>
          /\ ctx'[q] = ctx[q] \/ ctx[q] = "live"
      BY <1>2, <1>6 DEF WatchDone, ClientGoes, ServerCancels, TypeOK
    <2> QED  BY <1>1, <2>1 DEF auditVars, Lone, Excused, Assembling
  <1>7. CASE Stop
    BY <1>7 DEF Stop, Excused
  <1>8. CASE UNCHANGED vars
    BY <1>1, <1>8 DEF vars, Lone, Excused, Assembling
  <1> QED  BY <1>4, <1>5, <1>6, <1>7, <1>8 DEF Next, Watch

(* A second row of a request, which sse_test.go:172-173 rules out and the  *)
(* run over the memory storage finds, takes a client that went away or a   *)
(* shutdown in mid-stream: with either storage, whatever saves it refuses  *)
(* and whichever of handler and Watch comes first, a request whose client  *)
(* stays and that ends before the shutdown never has two.                  *)
THEOREM SecondRowTakesDisconnect == Spec => []SecondRowExcused
  <1>1. Init => Settled
    BY DEF Init, AuditInit, Settled, Lone
  <1>2. RInv /\ Settled /\ [Next]_vars => Settled'
    BY StepSettled
  <1>3. RInv /\ Settled => SecondRowExcused
    <2> SUFFICES ASSUME RInv, Settled, NEW r \in Requests, Len(stored[r]) > 1
                 PROVE  Excused(r)
      BY DEF SecondRowExcused
    <2>1. stored[r] \in Seq(Log)
      BY Typed DEF AuditTypeOK
    <2>2. Len(stored[r]) \in Nat /\ (stored[r] = <<>> => Len(stored[r]) = 0)
      BY <2>1, LenProperties, EmptySeq
    <2>3. \A n \in Nat : n > 1 => n # 0 /\ n # 1
      OBVIOUS
    <2>4. stored[r] # <<>> /\ Len(stored[r]) # 1
      BY <2>2, <2>3, Zenon
    <2>5. ~Lone(r)
      BY <2>4, Zenon DEF Lone
    <2> QED  BY <2>5 DEF Settled
  <1>4. QED BY <1>1, <1>2, <1>3, SpecRInv, PTL DEF Spec
=============================================================================
