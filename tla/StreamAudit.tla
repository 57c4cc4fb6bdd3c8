------------------------------ MODULE StreamAudit ------------------------------
(***************************************************************************)
(* How one proxied request is audited (pkg/core/proxy.go: handleProxy,     *)
(* handleStreaming; disconnect_handler.go: Watch).  Per request there are  *)
(* three actors: the handler goroutine, the Watch goroutine that it starts *)
(* for a stream, and the client, which may go away at any time.  The       *)
(* auditor is shared; it may be shut down while streams are open, as       *)
(* http.Server.Shutdown waits for them only ten seconds, and their         *)
(* handlers then run on until the process exits.                           *)
(***************************************************************************)
EXTENDS SimpleAuditor

CONSTANT MaxChunks   \* bound: data chunks of one stream

ASSUME ChunkAssumption == MaxChunks \in Nat

VARIABLES
  pc,         \* handler: see Steps
  ctx,        \* r.Context(): "live", "client" (gone) or "server" (returned)
  watch,      \* Watch: "off", "waiting" or "ended"
  delivered,  \* data chunks written to the client
  broken,     \* the scanner ended with an error
  process     \* "up", or "down" once the auditor was shut down; from then
              \* on every step may be the last one

reqVars == <<pc, ctx, watch, delivered, broken>>
vars    == <<pending, stored, failures, pc, ctx, watch, delivered, broken,
             process>>

(* Where the handler is: before the request_start event, waiting for the   *)
(* upstream, in the scan loop, between the write of a chunk and its        *)
(* capture, past the loop, past the read-error check, returned, or         *)
(* returned without a request_start event.                                 *)
Steps == {"start", "calling", "scanning", "captures", "scanned",
          "finalizing", "returned", "rejected"}

Init ==
  /\ AuditInit
  /\ pc = [r \in Requests |-> "start"]
  /\ ctx = [r \in Requests |-> "live"]
  /\ watch = [r \in Requests |-> "off"]
  /\ delivered = [r \in Requests |-> 0]
  /\ broken = [r \in Requests |-> FALSE]
  /\ process = "up"

Go(r, from, to) == pc[r] = from /\ pc' = [pc EXCEPT ![r] = to]

(* Rejected before request_start (no upstream, unsupported entry): the     *)
(* early Finalize finds nothing pending.                                   *)
Reject(r) ==
  /\ Go(r, "start", "rejected")
  /\ Finalize(r)
  /\ UNCHANGED <<ctx, watch, delivered, broken, process>>

Begin(r) ==
  /\ Go(r, "start", "calling")
  /\ Submit(r)
  /\ UNCHANGED <<ctx, watch, delivered, broken, process>>

(* Upstream error, or an answer that is not a stream: one Finalize.        *)
Answer(r) ==
  /\ Go(r, "calling", "returned")
  /\ Finalize(r)
  /\ UNCHANGED <<ctx, watch, delivered, broken, process>>

OpenStream(r) ==
  /\ Go(r, "calling", "scanning")
  /\ watch' = [watch EXCEPT ![r] = "waiting"]
  /\ UNCHANGED <<auditVars, ctx, delivered, broken, process>>

(* A data frame reaches the client's connection.  A client that has gone   *)
(* does not stop it: lines already buffered are scanned, and a write fails *)
(* only when the connection reports it.                                    *)
Write(r) ==
  /\ Go(r, "scanning", "captures")
  /\ delivered[r] < MaxChunks
  /\ delivered' = [delivered EXCEPT ![r] = @ + 1]
  /\ UNCHANGED <<auditVars, ctx, watch, broken, process>>

Capture(r) ==
  /\ Go(r, "captures", "scanning")
  /\ SubmitSSEChunk(r, delivered[r])
  /\ UNCHANGED <<ctx, watch, delivered, broken, process>>

(* The loop ends: end of the stream, a failed write (only to a client that *)
(* has gone), or a read error, which a cancelled context also causes.      *)
EndScan(r) ==
  /\ Go(r, "scanning", "scanned")
  /\ \E e \in BOOLEAN : broken' = [broken EXCEPT ![r] = e]
  /\ UNCHANGED <<auditVars, ctx, watch, delivered, process>>

(* Variant: the end of every stream is taken for a disconnect.             *)
CheckErrorAlways(r) ==
  /\ Go(r, "scanned", "finalizing")
  /\ MarkDisconnect(r, IF ctx[r] = "live" THEN "upstream" ELSE "client")
  /\ UNCHANGED <<ctx, watch, delivered, broken, process>>

(* scanner.Err() # nil: mark the disconnect, with the reason of the moment.*)
CheckError(r) ==
  /\ Go(r, "scanned", "finalizing")
  /\ IF broken[r]
     THEN MarkDisconnect(r, IF ctx[r] = "live" THEN "upstream" ELSE "client")
     ELSE UNCHANGED auditVars
  /\ UNCHANGED <<ctx, watch, delivered, broken, process>>

(* Variant: the handler returns and leaves the log to Watch.               *)
EndUnfinalized(r) ==
  /\ Go(r, "finalizing", "returned")
  /\ UNCHANGED <<auditVars, ctx, watch, delivered, broken, process>>

(* finalizeAudit, then the deferred close(done) as the handler returns.    *)
End(r) ==
  /\ Go(r, "finalizing", "returned")
  /\ Finalize(r)
  /\ UNCHANGED <<ctx, watch, delivered, broken, process>>

(* Variant: Watch notices the cancellation and marks nothing.              *)
WatchCancelSilent(r) ==
  /\ watch[r] = "waiting" /\ ctx[r] # "live"
  /\ watch' = [watch EXCEPT ![r] = "ended"]
  /\ UNCHANGED <<auditVars, pc, ctx, delivered, broken, process>>

(* Watch's select: with both channels ready it takes either one.           *)
WatchCancel(r) ==
  /\ watch[r] = "waiting" /\ ctx[r] # "live"
  /\ watch' = [watch EXCEPT ![r] = "ended"]
  /\ MarkDisconnect(r, "client")
  /\ UNCHANGED <<pc, ctx, delivered, broken, process>>

WatchDone(r) ==
  /\ watch[r] = "waiting" /\ pc[r] = "returned"
  /\ watch' = [watch EXCEPT ![r] = "ended"]
  /\ UNCHANGED <<auditVars, pc, ctx, delivered, broken, process>>

ClientGoes(r) ==
  /\ ctx[r] = "live" /\ pc[r] \notin {"returned", "rejected"}
  /\ ctx' = [ctx EXCEPT ![r] = "client"]
  /\ UNCHANGED <<auditVars, pc, watch, delivered, broken, process>>

(* net/http cancels the context of a request whose handler has returned.   *)
ServerCancels(r) ==
  /\ ctx[r] = "live" /\ pc[r] = "returned"
  /\ ctx' = [ctx EXCEPT ![r] = "server"]
  /\ UNCHANGED <<auditVars, pc, watch, delivered, broken, process>>

(* main.go: the auditor is shut down.                                      *)
Stop ==
  /\ process = "up" /\ process' = "down"
  /\ Shutdown
  /\ UNCHANGED reqVars

Handle(r) ==
  \/ Reject(r) \/ Begin(r) \/ Answer(r) \/ OpenStream(r) \/ Write(r)
  \/ Capture(r) \/ EndScan(r) \/ CheckError(r) \/ End(r)

Watch(r) == WatchCancel(r) \/ WatchDone(r)

Next ==
  \/ \E r \in Requests :
       Handle(r) \/ Watch(r) \/ ClientGoes(r) \/ ServerCancels(r)
  \/ Stop

Spec == Init /\ [][Next]_vars

(* Only Watch is fair, and only until the shutdown: an upstream may hang   *)
(* for ever in the scan loop.                                              *)
FairSpec == Spec /\ \A r \in Requests : WF_vars(process = "up" /\ Watch(r))

-----------------------------------------------------------------------------
Upto(n) == [i \in 1..n |-> i]

TypeOK ==
  /\ pending \in [Requests -> Log \cup {NoLog}]
  /\ stored \in [Requests -> Seq(Log)]
  /\ failures \in 0..MaxFailures
  /\ pc \in [Requests -> Steps]
  /\ ctx \in [Requests -> {"live", "client", "server"}]
  /\ watch \in [Requests -> {"off", "waiting", "ended"}]
  /\ delivered \in [Requests -> 0..MaxChunks]
  /\ broken \in [Requests -> BOOLEAN]
  /\ process \in {"up", "down"}

(* Once the request_start event was submitted, the metadata of the request *)
(* is never lost while the process lives: it is being assembled, or it is  *)
(* in the first row stored, whatever saves fail and whichever of Finalize, *)
(* MarkDisconnect, Shutdown and a late chunk comes first.                  *)
RecordKept ==
  \A r \in Requests :
    pc[r] \notin {"start", "rejected"} =>
      \/ pending[r].base
      \/ stored[r] # <<>> /\ stored[r][1].base

(* If the client stays to the end and the storage works, a request that    *)
(* ends before the shutdown has exactly one row, with every chunk the      *)
(* client got, in order, and is marked as disconnected only if the         *)
(* upstream failed in mid-stream.                                          *)
CleanStreamExact ==
  \A r \in Requests :
    pc[r] = "returned" /\ ctx[r] # "client" /\ failures = 0
      /\ process = "up" =>
      stored[r] =
        << [base |-> TRUE, chunks |-> Upto(delivered[r]), meta |-> TRUE,
            reason |-> IF broken[r] THEN "upstream" ELSE "none"] >>

(* Whatever the client does, the first row of a request holds what it got  *)
(* up to some chunk, in order, with nothing missing or repeated.           *)
FirstRowIsPrefix ==
  \A r \in Requests :
    stored[r] # <<>> => stored[r][1].chunks \in {Upto(n) : n \in 0..delivered[r]}

(* disconnect_handler.go:44: a stream that ends normally is never marked   *)
(* as a client disconnect, although net/http cancels the context of every  *)
(* request that returns.  It takes a working storage: after a Finalize     *)
(* that failed, Watch may still see that late cancellation first.          *)
NoFalseDisconnect ==
  \A r \in Requests : \A i \in 1..Len(stored[r]) :
    failures = 0 /\ stored[r][i].reason = "client" => ctx[r] = "client"

(* sse_test.go:172-173: after the disconnect was saved, the handler's      *)
(* Finalize must not add a second, empty row for the request.              *)
OneRow == \A r \in Requests : Len(stored[r]) <= 1

(* audit_simple.go:143: Shutdown flushes what is left, so with a working   *)
(* storage it leaves no log with a request's metadata in memory.           *)
ShutdownFlushes ==
  [][process # process' /\ failures' = 0 =>
       \A r \in Requests : ~pending'[r].base]_vars

(* A stream whose client goes away is completed in the audit log even if   *)
(* its upstream never says another word (README.md:32).                    *)
DisconnectCompletes ==
  \A r \in Requests :
    (ctx[r] = "client" /\ watch[r] = "waiting")
      ~> (stored[r] # <<>> \/ failures > 0 \/ process = "down")

(* The audit trail is the ledger of AuditLedger: a chunk that was captured *)
(* is in exactly one row or being assembled, in its place; a row is never  *)
(* empty and never written to again; and the metadata is in the first row, *)
(* through every failed save, retry, late chunk and shutdown.              *)
Page(log) == [base |-> log.base, chunks |-> log.chunks]

Pages(r) == Append([i \in 1..Len(stored[r]) |-> Page(stored[r][i])],
                   Page(pending[r]))

(* The chunks captured so far: the last one written may not be yet.        *)
Captured(r) == IF pc[r] = "captures" THEN delivered[r] - 1 ELSE delivered[r]

Ledger == INSTANCE AuditLedger WITH
            pages <- [r \in Requests |-> Pages(r)],
            noted <- [r \in Requests |-> Captured(r)]

KeepsLedger == Ledger!Spec
=============================================================================
