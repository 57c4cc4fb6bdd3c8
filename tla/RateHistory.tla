----------------------------- MODULE RateHistory -----------------------------
(***************************************************************************)
(* RateLimiter with history variables that only observe it: when each      *)
(* key's requests were let in, and when their tokens were recorded.        *)
(***************************************************************************)
EXTENDS RateLimiter

CONSTANT Horizon   \* units of time that the history looks back

ASSUME HorizonAssumption == Horizon \in 0..IdleTTL

VARIABLES
  admitted,  \* per key and h, the requests let in since the h-th last tick:
             \* in the last h units of time and the current one
  spent      \* the same of the tokens that its requests recorded

hvars == <<stored, configs, buckets, visits, pc, key, step, draft, listed,
           admitted, spent>>

(* What was counted since each of the last ticks: nothing, n more, and the *)
(* same counts one tick later.                                             *)
Zero       == [h \in 0..Horizon |-> 0]
Plus(c, n) == [h \in 0..Horizon |-> c[h] + n]
Later(c)   == [h \in 0..Horizon |-> IF h = 0 THEN 0 ELSE c[h - 1]]

HInit ==
  /\ Init
  /\ admitted = [k \in Keys |-> Zero]
  /\ spent = [k \in Keys |-> Zero]

Admit(k) ==
  /\ admitted' = IF Allows(bucketFor(k))
                 THEN [admitted EXCEPT ![k] = Plus(@, 1)] ELSE admitted
  /\ UNCHANGED spent

HArrive(r) == Arrive(r) /\ Admit(key'[r])

HArriveMCP(k) == ArriveMCP(k) /\ Admit(k)

HFinish(r, n) ==
  /\ Finish(r, n)
  /\ spent' = [spent EXCEPT ![key[r]] = Plus(@, n)]
  /\ UNCHANGED admitted

HTick ==
  /\ Tick
  /\ admitted' = [k \in Keys |-> Later(admitted[k])]
  /\ spent' = [k \in Keys |-> Later(spent[k])]

HOther ==
  /\ \/ \E r \in Requests : Status(r)
     \/ \E a \in Admins :
          Prepare(a) \/ Save(a) \/ Delete(a) \/ List(a) \/ ListFails(a)
            \/ Swap(a)
  /\ UNCHANGED <<admitted, spent>>

HNext ==
  \/ \E r \in Requests :
       HArrive(r) \/ \E n \in 0..MaxTokens : HFinish(r, n)
  \/ \E k \in Keys : HArriveMCP(k)
  \/ HTick
  \/ HOther

HSpec == HInit /\ [][HNext]_hvars

HFairSpec == HSpec /\ WF_hvars(HTick)

(* Of n that were counted in h units of time, for the limit of a period:   *)
(* a bucket gives its burst and what h units refill, and lets over more    *)
(* go on top; a window gives limit and over in each window that the time   *)
(* can touch.                                                              *)
Within(n, h, strategy, limit, over, period) ==
  IF strategy = "token_bucket"
  THEN n * period <= limit * (period + h) + over * period
  ELSE n <= (limit + over) * (h \div period + 2)

(* Both limits really limit, over every stretch of time: as many requests  *)
(* are let in as RPS grants, and as many tokens are recorded as TPM grants *)
(* and the requests that run together may use on top of the last token.    *)
(* Sweeping an idle bucket, recreating it and reloading the configuration  *)
(* grant nothing more, and forget no debt of that time.                    *)
RateHolds ==
  \A k \in Keys : buckets[k] # NoBucket =>
    LET rule == buckets[k].rule
        last == MaxTokens * Cardinality(Requests) - 1
    IN  \A h \in 0..Horizon :
          /\ Within(admitted[k][h], h, rule.strategy, rule.rps, 0, Second)
          /\ Within(spent[k][h], h, rule.strategy, rule.tpm, last, Minute)
=============================================================================
