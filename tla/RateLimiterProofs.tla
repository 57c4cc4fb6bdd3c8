--------------------------- MODULE RateLimiterProofs ---------------------------
(***************************************************************************)
(* Proofs about RateLimiter and RateHistory, for any requests,             *)
(* administrators, keys, rows, rules, periods and horizon.                 *)
(***************************************************************************)
EXTENDS RateHistory, FiniteSetTheorems, TLAPS

(* TokenDebtBounded is not inductive: what a bucket may still lose depends *)
(* on who has not recorded yet.  With j request goroutines of a key free   *)
(* to be let in, Floor(j) is the deepest debt and Ceiling(tpm, j) the      *)
(* highest count that they can have left behind.                           *)
Floor(j) == Minute * (1 - MaxTokens * j)

Ceiling(tpm, j) == tpm - 1 + MaxTokens * j

Solvent(b, j) ==
  IF b.rule.strategy = "token_bucket" THEN b.tpm.level >= Floor(j)
  ELSE b.tpm.level <= Ceiling(b.rule.tpm, j)

Free(k) == Cardinality(Requests) - Cardinality(Unrecorded(k))

IInv ==
  /\ TypeOK
  /\ \A k \in Keys :
       buckets[k] # NoBucket => Solvent(buckets[k], Free(k))

-----------------------------------------------------------------------------
(* Arithmetic of the two bounds.                                           *)
LEMMA Bounds ==
  ASSUME NEW j \in Nat
  PROVE  /\ Floor(j) \in Int /\ Floor(j) <= Minute
         /\ \A n \in 0..MaxTokens : Floor(j + 1) <= Floor(j) - n * Minute
         /\ \A tpm \in Nat \ {0} :
              /\ Ceiling(tpm, j) \in Int /\ tpm - 1 <= Ceiling(tpm, j)
              /\ \A n \in 0..MaxTokens : Ceiling(tpm, j) + n <= Ceiling(tpm, j + 1)
              /\ tpm * Minute >= Minute /\ tpm * Minute \in Int
  <1> DEFINE x == MaxTokens * j
  <1>1. x \in Nat
    BY LimiterAssumption
  <1>2. MaxTokens * (j + 1) = x + MaxTokens
    BY LimiterAssumption
  <1>3. Minute * (1 - x) = Minute - Minute * x /\ Minute * x \in Nat
    BY <1>1, LimiterAssumption
  <1>4. Minute * (1 - (x + MaxTokens)) = Minute - Minute * x - Minute * MaxTokens
    BY <1>1, LimiterAssumption
  <1>5. ASSUME NEW n \in 0..MaxTokens
        PROVE  n * Minute <= Minute * MaxTokens /\ n * Minute \in Nat
    BY LimiterAssumption
  <1>6. Floor(j) \in Int /\ Floor(j) <= Minute
    BY <1>3, LimiterAssumption DEF Floor
  <1>7. ASSUME NEW n \in 0..MaxTokens
        PROVE  Floor(j + 1) <= Floor(j) - n * Minute
    <2>1. Floor(j) = Minute - Minute * x
      BY <1>3 DEF Floor
    <2>2. Floor(j + 1) = Minute - Minute * x - Minute * MaxTokens
      BY <1>2, <1>4 DEF Floor
    <2>3. Minute * MaxTokens \in Nat /\ Minute \in Nat
      BY LimiterAssumption
    <2> QED
      BY <2>1, <2>2, <2>3, <1>3, <1>5
  <1>8. ASSUME NEW tpm \in Nat \ {0}
        PROVE  /\ Ceiling(tpm, j) \in Int /\ tpm - 1 <= Ceiling(tpm, j)
               /\ \A n \in 0..MaxTokens :
                    Ceiling(tpm, j) + n <= Ceiling(tpm, j + 1)
               /\ tpm * Minute >= Minute /\ tpm * Minute \in Int
    <2>1. tpm * Minute >= Minute /\ tpm * Minute \in Int
      BY LimiterAssumption
    <2> QED
      BY <1>1, <1>2, <2>1, LimiterAssumption DEF Ceiling
  <1> QED
    BY <1>6, <1>7, <1>8

(* A bucket with one field changed.                                        *)
LEMMA Fields ==
  ASSUME NEW b \in Bucket
  PROVE  /\ \A v \in 0..(IdleTTL + 1) :
              /\ [b EXCEPT !.idle = v] \in Bucket
              /\ [b EXCEPT !.idle = v].rule = b.rule
              /\ [b EXCEPT !.idle = v].tpm = b.tpm
         /\ \A v \in [level : Int, age : 0..Second] :
              /\ [b EXCEPT !.rps = v] \in Bucket
              /\ [b EXCEPT !.rps = v].rule = b.rule
              /\ [b EXCEPT !.rps = v].tpm = b.tpm
              /\ [b EXCEPT !.rps = v].idle = b.idle
         /\ \A v \in [level : Int, age : 0..Minute] :
              /\ [b EXCEPT !.tpm = v] \in Bucket
              /\ [b EXCEPT !.tpm = v].rule = b.rule
              /\ [b EXCEPT !.tpm = v].tpm = v
              /\ [b EXCEPT !.tpm = v].rps = b.rps
              /\ [b EXCEPT !.tpm = v].idle = b.idle
  BY DEF Bucket

LEMMA BucketParts ==
  ASSUME NEW b \in Bucket
  PROVE  /\ b.rule \in Rule /\ b.idle \in 0..(IdleTTL + 1)
         /\ b.rps \in [level : Int, age : 0..Second]
         /\ b.tpm \in [level : Int, age : 0..Minute]
         /\ b.rule.rps \in Nat \ {0} /\ b.rule.tpm \in Nat \ {0}
         /\ b.rule.strategy \in Strategies
         /\ b.tpm.level \in Int /\ b.tpm.age \in 0..Minute
  BY DEF Bucket, Rule

-----------------------------------------------------------------------------
(* The operators of Meter, for a period of either length.                  *)
LEMMA MeterTypes ==
  ASSUME NEW period \in Nat \ {0}, NEW limit \in Nat \ {0},
         NEW strategy \in Strategies,
         NEW m \in [level : Int, age : 0..period], NEW n \in Nat
  PROVE  /\ NewMeter(strategy, limit, period) \in [level : Int, age : 0..period]
         /\ Roll(m, strategy, period) \in [level : Int, age : 0..period]
         /\ Use(m, strategy, n, period) \in [level : Int, age : 0..period]
         /\ Older(m, strategy, limit, period) \in [level : Int, age : 0..period]
  <1>1. limit * period \in Int /\ n * period \in Int
    OBVIOUS
  <1>2. /\ m.level \in Int /\ m.age \in 0..period
        /\ 0 \in 0..period /\ period \in 0..period /\ 0 \in Int
    OBVIOUS
  <1>3. /\ \A v \in Int : [m EXCEPT !.level = v] \in [level : Int, age : 0..period]
        /\ \A v \in 0..period :
             [m EXCEPT !.age = v] \in [level : Int, age : 0..period]
    OBVIOUS
  <1>4. NewMeter(strategy, limit, period) \in [level : Int, age : 0..period]
    BY <1>1, <1>2 DEF NewMeter
  <1>5. Roll(m, strategy, period) \in [level : Int, age : 0..period]
    BY <1>2 DEF Roll
  <1>6. Use(m, strategy, n, period) \in [level : Int, age : 0..period]
    BY <1>1, <1>2, <1>3 DEF Use
  <1>7. Older(m, strategy, limit, period) \in [level : Int, age : 0..period]
    <2>1. m.age < period => m.age + 1 \in 0..period
      BY <1>2
    <2>2. m.level + limit \in Int
      BY <1>2
    <2> QED
      BY <1>1, <1>2, <1>3, <2>1, <2>2 DEF Older
  <1> QED
    BY <1>4, <1>5, <1>6, <1>7

(* A window or a bucket that no request has used owes nothing.             *)
LEMMA NewBucketSound ==
  ASSUME NEW rule \in Rule, NEW j \in Nat
  PROVE  NewBucket(rule) \in Bucket /\ Solvent(NewBucket(rule), j)
  <1>1. /\ rule.rps \in Nat \ {0} /\ rule.tpm \in Nat \ {0}
        /\ rule.strategy \in Strategies
    BY DEF Rule
  <1>2. [level |-> 0, age |-> 0] \in [level : Int, age : 0..Second]
    BY LimiterAssumption
  <1>3. [level |-> 0, age |-> 0] \in [level : Int, age : 0..Minute]
    BY LimiterAssumption
  <1>4. /\ NewMeter(rule.strategy, rule.rps, Second) \in [level : Int, age : 0..Second]
        /\ NewMeter(rule.strategy, rule.tpm, Minute) \in [level : Int, age : 0..Minute]
    BY <1>1, <1>2, <1>3, MeterTypes, LimiterAssumption
  <1>5. NewBucket(rule) \in Bucket
    BY <1>4, LimiterAssumption DEF NewBucket, Bucket
  <1>6. /\ Floor(j) \in Int /\ Floor(j) <= Minute /\ rule.tpm * Minute >= Minute
        /\ rule.tpm * Minute \in Int
        /\ Ceiling(rule.tpm, j) \in Int /\ rule.tpm - 1 <= Ceiling(rule.tpm, j)
    BY <1>1, Bounds
  <1>7. /\ NewBucket(rule).rule = rule
        /\ NewBucket(rule).tpm.level =
             IF rule.strategy = "token_bucket" THEN rule.tpm * Minute ELSE 0
    BY DEF NewBucket, NewMeter
  <1>8. Minute \in Nat
    BY LimiterAssumption
  <1> QED
    BY <1>1, <1>5, <1>6, <1>7, <1>8 DEF Solvent

(* With more of the key's requests free, the bounds are wider.             *)
LEMMA SolventGrows ==
  ASSUME NEW b \in Bucket, NEW j \in Nat, NEW m \in Nat, j <= m, Solvent(b, j)
  PROVE  Solvent(b, m)
  <1>1. PICK d \in Nat : m = j + d
    <2>1. m - j \in Nat /\ m = j + (m - j)
      OBVIOUS
    <2> QED
      BY <2>1
  <1> DEFINE x == MaxTokens * j
             y == MaxTokens * d
  <1>2. x \in Nat /\ y \in Nat /\ Minute \in Nat /\ MaxTokens \in Nat
    BY LimiterAssumption
  <1>3. MaxTokens * m = x + y
    BY <1>1, <1>2
  <1>4. Minute * (1 - x) = Minute - Minute * x /\ Minute * x \in Nat
    BY <1>2
  <1>5. Minute * (1 - (x + y)) = Minute - Minute * x - Minute * y
        /\ Minute * y \in Nat
    BY <1>2
  <1>6. Floor(m) <= Floor(j) /\ Floor(m) \in Int /\ Floor(j) \in Int
    BY <1>2, <1>3, <1>4, <1>5 DEF Floor
  <1>7. \A tpm \in Nat \ {0} : /\ Ceiling(tpm, j) <= Ceiling(tpm, m)
                              /\ Ceiling(tpm, j) \in Int /\ Ceiling(tpm, m) \in Int
    BY <1>2, <1>3 DEF Ceiling
  <1> QED
    BY <1>6, <1>7, BucketParts DEF Solvent

(* Touching a bucket keeps it sound.                                       *)
LEMMA RollSound ==
  ASSUME NEW b \in Bucket
  PROVE  /\ RollTpm(b) \in Bucket /\ RollRps(b) \in Bucket
         /\ RollTpm(b).rule = b.rule /\ RollRps(b).rule = b.rule
         /\ RollRps(b).tpm = b.tpm
         /\ RollTpm(b).tpm = Roll(b.tpm, b.rule.strategy, Minute)
         /\ \A j \in Nat : Solvent(b, j) => Solvent(RollTpm(b), j)
         /\ \A j \in Nat : Solvent(b, j) => Solvent(RollRps(b), j)
  <1>1. /\ Roll(b.tpm, b.rule.strategy, Minute) \in [level : Int, age : 0..Minute]
        /\ Roll(b.rps, b.rule.strategy, Second) \in [level : Int, age : 0..Second]
    BY BucketParts, MeterTypes, LimiterAssumption
  <1>2. /\ RollTpm(b) \in Bucket /\ RollRps(b) \in Bucket
        /\ RollTpm(b).rule = b.rule /\ RollRps(b).rule = b.rule
        /\ RollRps(b).tpm = b.tpm
        /\ RollTpm(b).tpm = Roll(b.tpm, b.rule.strategy, Minute)
    BY <1>1, Fields DEF RollTpm, RollRps
  <1>3. ASSUME NEW j \in Nat, Solvent(b, j)
        PROVE  Solvent(RollTpm(b), j)
    <2>1. /\ Ceiling(b.rule.tpm, j) \in Int
          /\ b.rule.tpm - 1 <= Ceiling(b.rule.tpm, j)
          /\ b.rule.tpm \in Nat \ {0} /\ b.tpm.level \in Int
      BY Bounds, BucketParts
    <2>2. \/ RollTpm(b).tpm = b.tpm
          \/ b.rule.strategy = "sliding_window" /\ RollTpm(b).tpm.level = 0
      BY <1>2 DEF Roll
    <2> QED
      BY <1>2, <1>3, <2>1, <2>2 DEF Solvent
  <1>4. ASSUME NEW j \in Nat, Solvent(b, j)
        PROVE  Solvent(RollRps(b), j)
    BY <1>2, <1>4 DEF Solvent
  <1> QED
    BY <1>2, <1>3, <1>4

(* Allow looks at the tokens before it lets a request in: what it lets in  *)
(* owes nothing yet.                                                       *)
LEMMA AllowSound ==
  ASSUME NEW b \in Bucket
  PROVE  /\ AfterAllow(b) \in Bucket /\ AfterAllow(b).rule = b.rule
         /\ \A j \in Nat : Solvent(b, j) => Solvent(AfterAllow(b), j)
         /\ Allows(b) => \A j \in Nat : Solvent(AfterAllow(b), j)
  <1> DEFINE t == RollTpm(b)
             u == RollRps(t)
             v == Use(u.rps, b.rule.strategy, 1, Second)
  <1>1. t \in Bucket /\ t.rule = b.rule
    BY RollSound
  <1>2. u \in Bucket /\ u.rule = b.rule /\ u.tpm = t.tpm
    BY <1>1, RollSound
  <1>3. v \in [level : Int, age : 0..Second]
    <2>1. /\ u.rps \in [level : Int, age : 0..Second]
          /\ b.rule.strategy \in Strategies /\ u.rule.rps \in Nat \ {0}
      BY <1>2, BucketParts
    <2> QED
      BY <2>1, MeterTypes, LimiterAssumption
  <1>4. /\ [u EXCEPT !.rps = v] \in Bucket /\ [u EXCEPT !.rps = v].rule = b.rule
        /\ [u EXCEPT !.rps = v].tpm = t.tpm
    BY <1>2, <1>3, Fields
  <1>5. AfterAllow(b) = IF ~TokensLeft(b) THEN t
                        ELSE IF ~RequestsLeft(b) THEN u
                        ELSE [u EXCEPT !.rps = v]
    BY DEF AfterAllow
  <1> HIDE DEF t, u, v
  <1>6. AfterAllow(b) \in Bucket /\ AfterAllow(b).rule = b.rule
        /\ AfterAllow(b).tpm = t.tpm
    BY <1>1, <1>2, <1>4, <1>5
  <1>7. ASSUME NEW j \in Nat, Solvent(b, j)
        PROVE  Solvent(AfterAllow(b), j)
    <2>1. Solvent(t, j)
      BY <1>7, RollSound DEF t
    <2> QED
      BY <1>1, <1>6, <2>1 DEF Solvent
  <1>8. ASSUME Allows(b), NEW j \in Nat
        PROVE  Solvent(AfterAllow(b), j)
    <2>1. Left(t.tpm, b.rule.strategy, b.rule.tpm, Minute)
      BY <1>8 DEF Allows, TokensLeft, t
    <2>2. /\ Ceiling(b.rule.tpm, j) \in Int /\ Floor(j) \in Int
          /\ b.rule.tpm - 1 <= Ceiling(b.rule.tpm, j) /\ Floor(j) <= Minute
          /\ b.rule.tpm \in Nat \ {0} /\ t.tpm.level \in Int
          /\ Minute \in Nat
      BY <1>1, Bounds, BucketParts, LimiterAssumption
    <2> QED
      BY <1>6, <2>1, <2>2 DEF Solvent, Left
  <1> QED
    BY <1>6, <1>7, <1>8

(* The tokens of one request are what one request fewer may owe.           *)
LEMMA RecordSound ==
  ASSUME NEW b \in Bucket, NEW n \in 0..MaxTokens, NEW j \in Nat, Solvent(b, j)
  PROVE  /\ AfterRecord(b, n) \in Bucket
         /\ Solvent(AfterRecord(b, n), j + 1)
  <1> DEFINE t == RollTpm(b)
             v == Use(t.tpm, b.rule.strategy, n, Minute)
  <1>1. t \in Bucket /\ t.rule = b.rule /\ Solvent(t, j)
    BY RollSound
  <1>2. n \in Nat /\ Minute \in Nat \ {0}
    BY LimiterAssumption
  <1>3. /\ t.tpm \in [level : Int, age : 0..Minute] /\ t.tpm.level \in Int
        /\ b.rule.strategy \in Strategies /\ b.rule.tpm \in Nat \ {0}
    BY <1>1, BucketParts
  <1>4. v \in [level : Int, age : 0..Minute]
    BY <1>2, <1>3, MeterTypes
  <1>5. /\ [b EXCEPT !.tpm = v] \in Bucket /\ [b EXCEPT !.tpm = v].rule = b.rule
        /\ [b EXCEPT !.tpm = v].tpm = v
    BY <1>4, Fields
  <1>6. AfterRecord(b, n) = [b EXCEPT !.tpm = v]
    BY DEF AfterRecord
  <1>7. v.level = IF b.rule.strategy = "token_bucket" THEN t.tpm.level - n * Minute
                  ELSE t.tpm.level + n
    BY <1>3 DEF Use
  <1>8. /\ Floor(j + 1) <= Floor(j) - n * Minute
        /\ Ceiling(b.rule.tpm, j) + n <= Ceiling(b.rule.tpm, j + 1)
        /\ Floor(j) \in Int /\ Ceiling(b.rule.tpm, j) \in Int
    BY <1>3, Bounds
  <1>9. /\ j + 1 \in Nat /\ n * Minute \in Int
    BY <1>2
  <1>10. Floor(j + 1) \in Int /\ Ceiling(b.rule.tpm, j + 1) \in Int
    BY <1>3, <1>9, Bounds
  <1> HIDE DEF t, v
  <1>11. IF b.rule.strategy = "token_bucket" THEN t.tpm.level >= Floor(j)
         ELSE t.tpm.level <= Ceiling(b.rule.tpm, j)
    BY <1>1 DEF Solvent
  <1>12. IF b.rule.strategy = "token_bucket" THEN v.level >= Floor(j + 1)
         ELSE v.level <= Ceiling(b.rule.tpm, j + 1)
    BY <1>2, <1>3, <1>7, <1>8, <1>9, <1>10, <1>11
  <1> QED
    BY <1>5, <1>6, <1>12 DEF Solvent

(* The passage of time only refills.                                       *)
LEMMA OlderSound ==
  ASSUME NEW b \in Bucket, NEW j \in Nat, Solvent(b, j)
  PROVE  OlderBucket(b) \in Bucket /\ Solvent(OlderBucket(b), j)
  <1> DEFINE v == Older(b.rps, b.rule.strategy, b.rule.rps, Second)
             w == Older(b.tpm, b.rule.strategy, b.rule.tpm, Minute)
             i == IF b.idle <= IdleTTL THEN b.idle + 1 ELSE b.idle
             c == [b EXCEPT !.rps = v]
             d == [c EXCEPT !.tpm = w]
             e == [d EXCEPT !.idle = i]
  <1>1. /\ b.rps \in [level : Int, age : 0..Second]
        /\ b.tpm \in [level : Int, age : 0..Minute] /\ b.tpm.level \in Int
        /\ b.rule.rps \in Nat \ {0} /\ b.rule.tpm \in Nat \ {0}
        /\ b.rule.strategy \in Strategies /\ b.idle \in 0..(IdleTTL + 1)
    BY BucketParts
  <1>2. /\ v \in [level : Int, age : 0..Second]
        /\ w \in [level : Int, age : 0..Minute]
    BY <1>1, MeterTypes, LimiterAssumption
  <1>3. i \in 0..(IdleTTL + 1)
    BY <1>1, LimiterAssumption
  <1>4. OlderBucket(b) = e
    BY DEF OlderBucket, Bucket
  <1>5. IF b.rule.strategy = "token_bucket"
        THEN w.level >= b.tpm.level \/ w.level >= Minute
        ELSE w.level = b.tpm.level
    <2>1. b.rule.tpm * Minute >= Minute /\ b.rule.tpm * Minute \in Int
      BY <1>1, Bounds
    <2>2. Minute \in Nat
      BY LimiterAssumption
    <2> DEFINE x == b.rule.tpm * Minute
               y == b.tpm.level + b.rule.tpm
    <2>3. w.level = IF b.rule.strategy = "token_bucket"
                    THEN IF y > x THEN x ELSE y
                    ELSE b.tpm.level
      BY <1>1 DEF Older
    <2>4. y \in Int /\ y >= b.tpm.level
      BY <1>1
    <2> HIDE DEF w, x, y
    <2> QED
      BY <2>1, <2>2, <2>3, <2>4, <1>1 DEF x
  <1>6. /\ Floor(j) \in Int /\ Floor(j) <= Minute
        /\ Ceiling(b.rule.tpm, j) \in Int /\ Minute \in Nat /\ w.level \in Int
    BY <1>1, <1>2, Bounds, LimiterAssumption
  <1> HIDE DEF v, w, i
  <1>7. c \in Bucket /\ c.rule = b.rule
    BY <1>2, Fields
  <1> HIDE DEF c
  <1>8. d \in Bucket /\ d.rule = b.rule /\ d.tpm = w
    BY <1>2, <1>7, Fields
  <1> HIDE DEF d
  <1>9. e \in Bucket /\ e.rule = b.rule /\ e.tpm = w
    BY <1>3, <1>8, Fields
  <1> HIDE DEF e
  <1> QED
    BY <1>1, <1>4, <1>5, <1>6, <1>9 DEF Solvent

-----------------------------------------------------------------------------
(* resolve returns a rule, from whichever scope.                           *)
LEMMA ResolveRule ==
  ASSUME NEW rows \in [RowIds -> Row \cup {NoRow}], NEW k \in Keys
  PROVE  resolve(rows, k) \in Rule
  <1>1. ASSUME NEW s, NEW rule \in Matches(rows, s)
        PROVE  rule \in Rule
    <2>1. PICK i \in RowIds : rows[i] # NoRow /\ rule = rows[i].rule
      BY <1>1 DEF Matches
    <2>2. rows[i] \in Row
      BY <2>1
    <2> QED
      BY <2>1, <2>2, LimiterAssumption DEF Row
  <1>2. Winning(rows, k) \subseteq Rule
    BY <1>1 DEF Winning
  <1>3. Winning(rows, k) # {} =>
          (CHOOSE rule \in Winning(rows, k) : TRUE) \in Winning(rows, k)
    OBVIOUS
  <1> QED
    BY <1>2, <1>3, LimiterAssumption DEF resolve

(* A request of the key free to be let in is counted by a natural number.  *)
LEMMA FreeNat ==
  ASSUME NEW k \in Keys
  PROVE  /\ IsFiniteSet(Unrecorded(k)) /\ Cardinality(Unrecorded(k)) \in Nat
         /\ Cardinality(Requests) \in Nat
         /\ Free(k) \in Nat /\ Free(k) <= Cardinality(Requests)
  <1>1. Unrecorded(k) \subseteq Requests /\ IsFiniteSet(Requests)
    BY LimiterAssumption DEF Unrecorded
  <1>2. /\ IsFiniteSet(Unrecorded(k))
        /\ Cardinality(Unrecorded(k)) <= Cardinality(Requests)
    BY <1>1, FS_Subset
  <1>3. Cardinality(Unrecorded(k)) \in Nat /\ Cardinality(Requests) \in Nat
    BY <1>1, <1>2, FS_CardinalityType
  <1> QED
    BY <1>2, <1>3 DEF Free

(* bucketFor returns a sound bucket, fresh or found.                       *)
LEMMA FoundSound ==
  ASSUME IInv, NEW k \in Keys
  PROVE  bucketFor(k) \in Bucket /\ Solvent(bucketFor(k), Free(k))
  <1>1. resolve(configs, k) \in Rule
    BY ResolveRule DEF IInv, TypeOK
  <1>2. Free(k) \in Nat
    BY FreeNat
  <1>3. CASE Swept(k) = NoBucket
    BY <1>1, <1>2, <1>3, NewBucketSound DEF bucketFor
  <1>4. CASE Swept(k) # NoBucket
    <2>1. bucketFor(k) = buckets[k] /\ buckets[k] # NoBucket
      BY <1>4 DEF bucketFor, Swept
    <2> QED
      BY <2>1 DEF IInv, TypeOK
  <1> QED
    BY <1>3, <1>4

-----------------------------------------------------------------------------
(* A visit that leaves the visited bucket sound keeps every bucket sound,  *)
(* the swept ones with the rest.                                           *)
LEMMA VisitSound ==
  ASSUME IInv, NEW k \in Keys, NEW b \in Bucket, Visit(k, b),
         Solvent(b, Free(k)'), \A q \in Keys \ {k} : Free(q)' = Free(q)
  PROVE  /\ buckets' \in [Keys -> Bucket \cup {NoBucket}]
         /\ visits' \in 0..(VisitLimit - 1)
         /\ \A q \in Keys : buckets'[q] # NoBucket => Solvent(buckets'[q], Free(q)')
  <1> DEFINE e == [b EXCEPT !.idle = 0]
  <1>1. e \in Bucket /\ e.rule = b.rule /\ e.tpm = b.tpm
    BY Fields, LimiterAssumption
  <1>2. \A q \in Keys : Swept(q) = NoBucket \/ Swept(q) = buckets[q]
    BY DEF Swept
  <1>3. \A q \in Keys : Swept(q) \in Bucket \cup {NoBucket}
    BY <1>2 DEF IInv, TypeOK
  <1>4. buckets' = [q \in Keys |-> IF q = k THEN e ELSE Swept(q)]
    BY DEF Visit
  <1>5. visits' \in 0..(VisitLimit - 1)
    BY LimiterAssumption DEF Visit, SweepDue, IInv, TypeOK
  <1>6. Solvent(e, Free(k)')
    BY <1>1 DEF Solvent
  <1> HIDE DEF e
  <1>7. ASSUME NEW q \in Keys, buckets'[q] # NoBucket
        PROVE  Solvent(buckets'[q], Free(q)')
    <2>1. CASE q = k
      BY <1>4, <1>6, <2>1
    <2>2. CASE q # k
      <3>1. buckets'[q] = buckets[q] /\ buckets[q] # NoBucket
        BY <1>2, <1>4, <1>7, <2>2
      <3>2. Free(q)' = Free(q)
        BY <2>2
      <3>3. Solvent(buckets[q], Free(q))
        BY <3>1 DEF IInv
      <3> QED
        BY <3>1, <3>2, <3>3
    <2> QED
      BY <2>1, <2>2
  <1> QED
    BY <1>1, <1>3, <1>4, <1>5, <1>7

(* A request that is let in is one fewer that is free.                     *)
LEMMA Joins ==
  ASSUME IInv, NEW r \in Requests, NEW k \in Keys, pc[r] = "idle",
         pc' = [pc EXCEPT ![r] = "passed"], key' = [key EXCEPT ![r] = k]
  PROVE  /\ Free(k)' = Free(k) - 1
         /\ \A q \in Keys \ {k} : Free(q)' = Free(q)
  <1>1. r \notin Unrecorded(k) /\ Unrecorded(k)' = Unrecorded(k) \cup {r}
    BY DEF Unrecorded, IInv, TypeOK
  <1>2. Cardinality(Unrecorded(k)') = Cardinality(Unrecorded(k)) + 1
    BY <1>1, FreeNat, FS_AddElement
  <1>3. ASSUME NEW q \in Keys \ {k}
        PROVE  Unrecorded(q)' = Unrecorded(q)
    BY DEF Unrecorded, IInv, TypeOK
  <1>4. Cardinality(Unrecorded(k)) \in Nat /\ Cardinality(Requests) \in Nat
    BY FreeNat
  <1>5. Free(k)' = Free(k) - 1
    BY <1>2, <1>4 DEF Free
  <1> QED
    BY <1>3, <1>5 DEF Free

(* One that ends is free again.                                            *)
LEMMA Leaves ==
  ASSUME IInv, NEW r \in Requests, NEW k \in Keys, pc[r] = "running", key[r] = k,
         pc' = [pc EXCEPT ![r] = "idle"], key' = [key EXCEPT ![r] = NoKey]
  PROVE  /\ Free(k)' = Free(k) + 1
         /\ \A q \in Keys \ {k} : Free(q)' = Free(q)
  <1>1. r \in Unrecorded(k) /\ Unrecorded(k)' = Unrecorded(k) \ {r}
    BY LimiterAssumption DEF Unrecorded, IInv, TypeOK
  <1>2. Cardinality(Unrecorded(k)') = Cardinality(Unrecorded(k)) - 1
    BY <1>1, FreeNat, FS_RemoveElement
  <1>3. ASSUME NEW q \in Keys \ {k}
        PROVE  Unrecorded(q)' = Unrecorded(q)
    BY LimiterAssumption DEF Unrecorded, IInv, TypeOK
  <1>4. Cardinality(Unrecorded(k)) \in Nat /\ Cardinality(Requests) \in Nat
    BY FreeNat
  <1> QED
    BY <1>2, <1>3, <1>4 DEF Free

(* A refusal, and Status after a refusal or a pass, changes neither.       *)
LEMMA Stays ==
  ASSUME IInv, \A q \in Keys : Unrecorded(q)' = Unrecorded(q)
  PROVE  \A q \in Keys : Free(q)' = Free(q)
  BY DEF Free

-----------------------------------------------------------------------------
(* Init and the actions, one lemma each.                                   *)
LEMMA InitSound == Init => IInv
  <1> SUFFICES ASSUME Init PROVE IInv
    OBVIOUS
  <1>1. TypeOK
    BY LimiterAssumption DEF Init, TypeOK, NoRows, NoDraft
  <1> QED
    BY <1>1 DEF Init, IInv

LEMMA ArriveSound ==
  ASSUME IInv, NEW r \in Requests, Arrive(r)
  PROVE  IInv'
  <1>1. PICK k \in Keys :
          /\ Visit(k, AfterAllow(bucketFor(k)))
          /\ pc' = [pc EXCEPT ![r] =
                       IF Allows(bucketFor(k)) THEN "passed" ELSE "refused"]
          /\ key' = [key EXCEPT ![r] = k]
    BY DEF Arrive, Allow
  <1>2. pc[r] = "idle" /\ UNCHANGED adminVars
    BY DEF Arrive
  <1>3. PICK b : b = bucketFor(k)
    OBVIOUS
  <1>4. b \in Bucket /\ Solvent(b, Free(k)) /\ Free(k) \in Nat
    BY <1>3, FoundSound, FreeNat
  <1>5. /\ AfterAllow(b) \in Bucket
        /\ Solvent(AfterAllow(b), Free(k))
        /\ Allows(b) => \A j \in Nat : Solvent(AfterAllow(b), j)
    BY <1>4, AllowSound
  <1>6. Solvent(AfterAllow(b), Free(k)') /\ \A q \in Keys \ {k} : Free(q)' = Free(q)
    <2>1. CASE Allows(b)
      <3>1. pc' = [pc EXCEPT ![r] = "passed"]
        BY <1>1, <1>3, <2>1
      <3>2. /\ Unrecorded(k) \subseteq Requests \ {r}
            /\ \A q \in Keys \ {k} : Free(q)' = Free(q)
            /\ Free(k)' = Free(k) - 1
        BY <1>1, <1>2, <3>1, Joins DEF Unrecorded
      <3>3. Free(k)' \in Nat
        <4>1. /\ IsFiniteSet(Requests \ {r})
              /\ Cardinality(Requests \ {r}) = Cardinality(Requests) - 1
          BY LimiterAssumption, FS_RemoveElement
        <4>2. Cardinality(Unrecorded(k)) <= Cardinality(Requests) - 1
          BY <3>2, <4>1, FS_Subset
        <4> QED
          BY <3>2, <4>2, FreeNat DEF Free
      <3> QED
        BY <1>5, <2>1, <3>2, <3>3
    <2>2. CASE ~Allows(b)
      <3>1. pc' = [pc EXCEPT ![r] = "refused"]
        BY <1>1, <1>3, <2>2
      <3>2. \A q \in Keys : Unrecorded(q)' = Unrecorded(q)
        BY <1>1, <1>2, <3>1 DEF Unrecorded, IInv, TypeOK
      <3> QED
        BY <1>5, <3>2, Stays
    <2> QED
      BY <2>1, <2>2
  <1>7. /\ buckets' \in [Keys -> Bucket \cup {NoBucket}]
        /\ visits' \in 0..(VisitLimit - 1)
        /\ \A q \in Keys : buckets'[q] # NoBucket => Solvent(buckets'[q], Free(q)')
    BY <1>1, <1>3, <1>5, <1>6, VisitSound
  <1>8. TypeOK'
    BY <1>1, <1>2, <1>7 DEF IInv, TypeOK, adminVars
  <1> QED
    BY <1>7, <1>8 DEF IInv

LEMMA StatusSound ==
  ASSUME IInv, NEW r \in Requests, Status(r)
  PROVE  IInv'
  <1>1. PICK k \in Keys : k = key[r]
    BY DEF Status, IInv, TypeOK
  <1>2. /\ pc[r] \in {"passed", "refused"}
        /\ Visit(k, RollRps(bucketFor(k)))
        /\ pc' = [pc EXCEPT ![r] = IF pc[r] = "passed" THEN "running" ELSE "idle"]
        /\ key' = [key EXCEPT ![r] = IF pc[r] = "passed" THEN key[r] ELSE NoKey]
        /\ UNCHANGED adminVars
    BY <1>1 DEF Status, IInv, TypeOK
  <1>3. PICK b : b = bucketFor(k)
    OBVIOUS
  <1>4. b \in Bucket /\ Solvent(b, Free(k)) /\ Free(k) \in Nat
    BY <1>3, FoundSound, FreeNat
  <1>5. RollRps(b) \in Bucket /\ Solvent(RollRps(b), Free(k))
    BY <1>4, RollSound
  <1>6. \A q \in Keys : Free(q)' = Free(q)
    <2>1. \A q \in Keys : Unrecorded(q)' = Unrecorded(q)
      BY <1>2, LimiterAssumption DEF Unrecorded, IInv, TypeOK
    <2> QED
      BY <2>1, Stays
  <1>7. /\ buckets' \in [Keys -> Bucket \cup {NoBucket}]
        /\ visits' \in 0..(VisitLimit - 1)
        /\ \A q \in Keys : buckets'[q] # NoBucket => Solvent(buckets'[q], Free(q)')
    BY <1>2, <1>3, <1>5, <1>6, VisitSound
  <1>8. TypeOK'
    BY <1>1, <1>2, <1>7 DEF IInv, TypeOK, adminVars
  <1> QED
    BY <1>7, <1>8 DEF IInv

LEMMA ArriveMCPSound ==
  ASSUME IInv, NEW k \in Keys, ArriveMCP(k)
  PROVE  IInv'
  <1>1. Visit(k, AfterAllow(bucketFor(k))) /\ UNCHANGED <<requestVars, adminVars>>
    BY DEF ArriveMCP, Allow
  <1>2. PICK b : b = bucketFor(k)
    OBVIOUS
  <1>3. AfterAllow(b) \in Bucket /\ Solvent(AfterAllow(b), Free(k))
    BY <1>2, FoundSound, FreeNat, AllowSound
  <1>4. \A q \in Keys : Free(q)' = Free(q)
    <2>1. \A q \in Keys : Unrecorded(q)' = Unrecorded(q)
      BY <1>1 DEF Unrecorded, requestVars
    <2> QED
      BY <2>1, Stays
  <1>5. /\ buckets' \in [Keys -> Bucket \cup {NoBucket}]
        /\ visits' \in 0..(VisitLimit - 1)
        /\ \A q \in Keys : buckets'[q] # NoBucket => Solvent(buckets'[q], Free(q)')
    BY <1>1, <1>2, <1>3, <1>4, VisitSound
  <1>6. TypeOK'
    BY <1>1, <1>5 DEF IInv, TypeOK, requestVars, adminVars
  <1> QED
    BY <1>5, <1>6 DEF IInv

LEMMA FinishSound ==
  ASSUME IInv, NEW r \in Requests, NEW n \in 0..MaxTokens, Finish(r, n)
  PROVE  IInv'
  <1>1. PICK k \in Keys : k = key[r]
    BY DEF Finish, IInv, TypeOK
  <1>2. /\ pc[r] = "running"
        /\ pc' = [pc EXCEPT ![r] = "idle"] /\ key' = [key EXCEPT ![r] = NoKey]
        /\ UNCHANGED adminVars
    BY DEF Finish
  <1>3. Free(k)' = Free(k) + 1 /\ \A q \in Keys \ {k} : Free(q)' = Free(q)
    BY <1>1, <1>2, Leaves
  <1>4. Free(k) \in Nat
    BY FreeNat
  <1>5. /\ buckets' \in [Keys -> Bucket \cup {NoBucket}]
        /\ visits' \in 0..(VisitLimit - 1)
        /\ \A q \in Keys : buckets'[q] # NoBucket => Solvent(buckets'[q], Free(q)')
    <2>1. CASE n > 0
      <3>1. PICK b : b = bucketFor(k)
        OBVIOUS
      <3>2. Visit(k, AfterRecord(b, n))
        BY <1>1, <2>1, <3>1 DEF Finish
      <3>3. b \in Bucket /\ Solvent(b, Free(k))
        BY <3>1, FoundSound
      <3>4. /\ AfterRecord(b, n) \in Bucket
            /\ Solvent(AfterRecord(b, n), Free(k) + 1)
        BY <1>4, <3>3, RecordSound
      <3> QED
        BY <1>3, <3>2, <3>4, VisitSound
    <2>2. CASE ~(n > 0)
      <3>1. UNCHANGED <<buckets, visits>>
        BY <2>2 DEF Finish, limiterVars
      <3>2. ASSUME NEW q \in Keys, buckets[q] # NoBucket
            PROVE  Solvent(buckets[q], Free(q)')
        <4>1. buckets[q] \in Bucket /\ Solvent(buckets[q], Free(q))
          BY <3>2 DEF IInv, TypeOK
        <4>2. Free(q) \in Nat /\ Free(q)' \in Nat /\ Free(q) <= Free(q)'
          BY <1>3, FreeNat
        <4> QED
          BY <4>1, <4>2, SolventGrows
      <3> QED
        BY <3>1, <3>2 DEF IInv, TypeOK
    <2> QED
      BY <2>1, <2>2
  <1>6. TypeOK'
    BY <1>1, <1>2, <1>5 DEF IInv, TypeOK, adminVars
  <1> QED
    BY <1>5, <1>6 DEF IInv

LEMMA AdminSound ==
  ASSUME IInv, NEW a \in Admins,
         \/ Prepare(a) \/ Save(a) \/ Delete(a) \/ List(a) \/ ListFails(a) \/ Swap(a)
  PROVE  IInv'
  <1> DEFINE Rows == [RowIds -> Row \cup {NoRow}]
             Others == /\ stored' \in Rows /\ configs' \in Rows
                       /\ step' \in [Admins -> {"idle", "saving", "listing", "swapping"}]
                       /\ draft' \in [Admins -> [id : RowIds \cup {NoRow},
                                                 row : Row \cup {NoRow}]]
                       /\ \A o \in Admins : step'[o] = "saving" =>
                            draft'[o].id \in RowIds /\ draft'[o].row \in Row
                       /\ listed' \in [Admins -> Rows]
  <1> USE DEF IInv, TypeOK, Goes
  <1>1. NoRows \in Rows /\ NoDraft \in [id : RowIds \cup {NoRow}, row : Row \cup {NoRow}]
    BY DEF NoRows, NoDraft
  <1>2. UNCHANGED <<limiterVars, requestVars>>
    BY DEF Prepare, Save, Delete, List, ListFails, Swap
  <1>3. Others
    <2>1. CASE Prepare(a)
      <3>1. PICK i \in RowIds, row \in Row :
              draft' = [draft EXCEPT ![a] = [id |-> i, row |-> row]]
        BY <2>1 DEF Prepare
      <3> QED
        BY <2>1, <3>1 DEF Prepare
    <2>2. CASE Save(a)
      <3>1. CASE UNCHANGED stored
        BY <1>1, <2>2, <3>1 DEF Save
      <3>2. CASE stored' = [stored EXCEPT ![draft[a].id] = draft[a].row]
        BY <1>1, <2>2, <3>2 DEF Save
      <3> QED
        BY <2>2, <3>1, <3>2 DEF Save
    <2>3. CASE Delete(a)
      BY <2>3 DEF Delete
    <2>4. CASE List(a)
      BY <2>4 DEF List
    <2>5. CASE ListFails(a)
      BY <2>5 DEF ListFails
    <2>6. CASE Swap(a)
      BY <1>1, <2>6 DEF Swap
    <2> QED
      BY <2>1, <2>2, <2>3, <2>4, <2>5, <2>6
  <1>4. \A q \in Keys : Free(q)' = Free(q)
    BY <1>2 DEF Free, Unrecorded, requestVars
  <1> QED
    BY <1>2, <1>3, <1>4 DEF limiterVars, requestVars

LEMMA TickSound ==
  ASSUME IInv, Tick
  PROVE  IInv'
  <1>1. \A q \in Keys : Free(q)' = Free(q)
    BY DEF Tick, Free, Unrecorded, requestVars
  <1>2. ASSUME NEW q \in Keys
        PROVE  /\ buckets'[q] \in Bucket \cup {NoBucket}
               /\ buckets'[q] # NoBucket => Solvent(buckets'[q], Free(q)')
    <2>1. CASE buckets[q] = NoBucket
      BY <2>1 DEF Tick
    <2>2. CASE buckets[q] # NoBucket
      <3>1. buckets[q] \in Bucket /\ Solvent(buckets[q], Free(q)) /\ Free(q) \in Nat
        BY <2>2, FreeNat DEF IInv, TypeOK
      <3>2. buckets'[q] = OlderBucket(buckets[q])
        BY <2>2 DEF Tick
      <3>3. /\ OlderBucket(buckets[q]) \in Bucket
            /\ Solvent(OlderBucket(buckets[q]), Free(q))
        BY <3>1, OlderSound
      <3> QED
        BY <1>1, <3>2, <3>3
    <2> QED
      BY <2>1, <2>2
  <1>3. buckets' \in [Keys -> Bucket \cup {NoBucket}]
    <2>1. buckets' = [k \in Keys |-> IF buckets[k] = NoBucket THEN NoBucket
                                    ELSE OlderBucket(buckets[k])]
      BY DEF Tick
    <2> QED
      BY <1>2, <2>1
  <1>4. TypeOK'
    BY <1>3 DEF Tick, IInv, TypeOK, requestVars, adminVars
  <1> QED
    BY <1>2, <1>4 DEF IInv

-----------------------------------------------------------------------------
(* The invariant is inductive.                                             *)
LEMMA Inductive == IInv /\ [Next]_vars => IInv'
  <1> SUFFICES ASSUME IInv, [Next]_vars PROVE IInv'
    OBVIOUS
  <1>1. CASE UNCHANGED vars
    BY <1>1 DEF vars, IInv, TypeOK, Free, Unrecorded
  <1>2. ASSUME NEW r \in Requests, Arrive(r) PROVE IInv'
    BY <1>2, ArriveSound
  <1>3. ASSUME NEW r \in Requests, Status(r) PROVE IInv'
    BY <1>3, StatusSound
  <1>4. ASSUME NEW r \in Requests, NEW n \in 0..MaxTokens, Finish(r, n) PROVE IInv'
    BY <1>4, FinishSound
  <1>5. ASSUME NEW k \in Keys, ArriveMCP(k) PROVE IInv'
    BY <1>5, ArriveMCPSound
  <1>6. ASSUME NEW a \in Admins,
               \/ Prepare(a) \/ Save(a) \/ Delete(a)
               \/ List(a) \/ ListFails(a) \/ Swap(a)
        PROVE  IInv'
    BY <1>6, AdminSound
  <1>7. CASE Tick
    BY <1>7, TickSound
  <1> QED
    BY <1>1, <1>2, <1>3, <1>4, <1>5, <1>6, <1>7 DEF Next

LEMMA Invariance == Spec => []IInv
  BY InitSound, Inductive, PTL DEF Spec

(* The state is of the type that the model declares; in particular the     *)
(* sweep's counter never reaches its limit, and whoever has been answered  *)
(* by Allow has a key until its request ends (ratelimiter.go, bucketFor;   *)
(* middleware_limit.go).                                                   *)
THEOREM LimiterTypeCorrect == Spec => []TypeOK
  <1>1. IInv => TypeOK
    BY DEF IInv
  <1> QED
    BY Invariance, <1>1, PTL

(* A key's overdraft never exceeds what as many requests as there are      *)
(* goroutines use (limit_bucket.go consume, limit_sliding.go add), for any *)
(* rules, for any number of keys, and through every reload and sweep.      *)
THEOREM DebtIsBounded == Spec => []TokenDebtBounded
  <1>1. IInv => TokenDebtBounded
    <2> SUFFICES ASSUME IInv, NEW k \in Keys, buckets[k] # NoBucket
                 PROVE  Solvent(buckets[k], Cardinality(Requests))
      BY DEF TokenDebtBounded, Solvent, Floor, Ceiling
    <2>1. buckets[k] \in Bucket /\ Solvent(buckets[k], Free(k))
      BY DEF IInv, TypeOK
    <2> QED
      BY <2>1, FreeNat, SolventGrows
  <1> QED
    BY Invariance, <1>1, PTL
(***************************************************************************)
(* RateHolds.  It is not inductive: what a key used in h units of time     *)
(* says nothing of what it may still use.  Pace adds that, for requests    *)
(* and tokens alike: what is still in the bucket was not used by what was  *)
(* counted, and every h units of time end in the open window and at most q *)
(* older ones.  Unheard ties it to the sweep: a bucket that was idle for   *)
(* the horizon may be forgotten, for nothing was counted during it.        *)
(***************************************************************************)
Counts == [0..Horizon -> Nat]

Quiet(c) == \A h \in 0..Horizon : c[h] = 0

Unheard(idle, c) == \A h \in 0..Horizon : h < idle => c[h] = 0

PaceOfBucket(level, limit, period, c) ==
  \A h \in 0..Horizon : period * c[h] + level <= limit * (period + h)

PaceOfWindow(level, age, cap, period, c) ==
  /\ level \in 0..cap
  /\ \A h \in 0..Horizon, q \in Nat :
       h <= age + q * period => c[h] <= level + q * cap

(* A meter that may go over by `over`, and what was counted with it.       *)
Pace(m, strategy, limit, over, period, c) ==
  LET r == Roll(m, strategy, period)
  IN  IF strategy = "token_bucket"
      THEN r.level >= -(over * period) /\ PaceOfBucket(r.level, limit, period, c)
      ELSE PaceOfWindow(r.level, r.age, limit + over, period, c)

Last == MaxTokens * Cardinality(Requests) - 1

BothPaced(b, c, d) ==
  /\ Pace(b.rps, b.rule.strategy, b.rule.rps, 0, Second, c)
  /\ Pace(b.tpm, b.rule.strategy, b.rule.tpm, Last, Minute, d)

InPace(b, c, d) ==
  IF b = NoBucket THEN Quiet(c) /\ Quiet(d)
  ELSE Unheard(b.idle, c) /\ Unheard(b.idle, d) /\ BothPaced(b, c, d)

Paced == \A k \in Keys : InPace(buckets[k], admitted[k], spent[k])

HTypes == admitted \in [Keys -> Counts] /\ spent \in [Keys -> Counts]

HInv == IInv /\ HTypes /\ Paced

LEMMA CountTypes ==
  ASSUME NEW c \in Counts
  PROVE  /\ \A n \in Nat : Plus(c, n) \in Counts
         /\ Later(c) \in Counts
         /\ \A h \in 0..Horizon :
              /\ c[h] \in Nat /\ \A n \in Nat : Plus(c, n)[h] = c[h] + n
              /\ h = 0 => Later(c)[h] = 0
              /\ h > 0 => h - 1 \in 0..Horizon /\ Later(c)[h] = c[h - 1]
  BY HorizonAssumption DEF Counts, Plus, Later

(* Products with a constant, spelled out for the arithmetic prover.        *)
LEMMA Products ==
  ASSUME NEW p \in Nat, NEW x \in Int, NEW y \in Int
  PROVE  /\ p * x \in Int
         /\ p * (x + y) = p * x + p * y
         /\ p * (x - y) = p * x - p * y
         /\ x * p = p * x
         /\ x >= 0 => p * x >= 0
         /\ x <= y => p * x <= p * y
  <1>1. x <= y => p * (y - x) >= 0
    OBVIOUS
  <1> QED  BY <1>1

-----------------------------------------------------------------------------
(* The four things that happen to a token bucket's pace.                   *)
LEMMA BucketPaceNew ==
  ASSUME NEW period \in Nat \ {0}, NEW limit \in Nat \ {0},
         NEW c \in Counts, Quiet(c)
  PROVE  PaceOfBucket(limit * period, limit, period, c)
  <1>1. limit * period >= 0 /\ limit * period \in Int
    OBVIOUS
  <1>2. ASSUME NEW h \in 0..Horizon
        PROVE  period * c[h] + limit * period <= limit * (period + h)
    <2>1. c[h] = 0 /\ h \in Nat
      BY HorizonAssumption, LimiterAssumption DEF Quiet
    <2>2. limit * (period + h) = limit * period + limit * h /\ limit * h >= 0
      BY <1>1, <2>1, Products
    <2> QED  BY <1>1, <2>1, <2>2
  <1> QED  BY <1>1, <1>2 DEF PaceOfBucket

LEMMA BucketPaceUsed ==
  ASSUME NEW period \in Nat \ {0}, NEW limit \in Nat \ {0}, NEW n \in Nat,
         NEW level \in Int, NEW c \in Counts, PaceOfBucket(level, limit, period, c)
  PROVE  PaceOfBucket(level - n * period, limit, period, Plus(c, n))
  <1>1. ASSUME NEW h \in 0..Horizon
        PROVE  period * Plus(c, n)[h] + (level - n * period)
                 <= limit * (period + h)
    <2>1. c[h] \in Nat /\ Plus(c, n)[h] = c[h] + n /\ h \in Nat
      BY CountTypes
    <2>2. period * (c[h] + n) = period * c[h] + period * n
          /\ n * period = period * n /\ period * n \in Int
      BY <2>1, Products
    <2>3. period * c[h] + level <= limit * (period + h)
      BY DEF PaceOfBucket
    <2>4. limit * (period + h) \in Int /\ period * c[h] \in Int
      BY <2>1
    <2> QED  BY <2>1, <2>2, <2>3, <2>4
  <1> QED  BY <1>1 DEF PaceOfBucket

LEMMA BucketPaceLater ==
  ASSUME NEW period \in Nat \ {0}, NEW limit \in Nat \ {0}, NEW level \in Int,
         NEW c \in Counts, PaceOfBucket(level, limit, period, c), NEW next \in Int,
         next <= level + limit, next <= limit * period
  PROVE  PaceOfBucket(next, limit, period, Later(c))
  <1>1. limit * period \in Int
    OBVIOUS
  <1>2. ASSUME NEW h \in 0..Horizon
        PROVE  period * Later(c)[h] + next <= limit * (period + h)
    <2>1. h \in Nat
      OBVIOUS
    <2>2. limit * (period + h) = limit * period + limit * h /\ limit * h >= 0
          /\ limit * h \in Int
      BY <1>1, <2>1, Products
    <2>3. CASE h = 0
      <3>1. period * Later(c)[h] = 0
        BY <2>3, CountTypes
      <3> QED  BY <1>1, <2>2, <3>1
    <2>4. CASE h > 0
      <3>1. h - 1 \in 0..Horizon /\ Later(c)[h] = c[h - 1] /\ c[h - 1] \in Nat
        BY <2>4, CountTypes
      <3>2. period * c[h - 1] + level <= limit * (period + (h - 1))
        BY <3>1 DEF PaceOfBucket
      <3>3. limit * (period + (h - 1)) = limit * period + limit * h - limit
        BY <1>1, <2>1
      <3>4. period * c[h - 1] \in Int
        BY <3>1
      <3> QED  BY <1>1, <2>2, <3>1, <3>2, <3>3, <3>4
    <2> QED  BY <2>1, <2>3, <2>4
  <1> QED  BY <1>2 DEF PaceOfBucket

-----------------------------------------------------------------------------
(* The same for a window; an expired one counts as an empty one of age 0.  *)
LEMMA WindowPaceNew ==
  ASSUME NEW period \in Nat \ {0}, NEW cap \in Nat, NEW c \in Counts, Quiet(c)
  PROVE  PaceOfWindow(0, 0, cap, period, c)
  <1>1. ASSUME NEW q \in Nat
        PROVE  q * cap >= 0 /\ q * cap \in Int
    OBVIOUS
  <1> QED  BY <1>1 DEF PaceOfWindow, Quiet

LEMMA WindowPaceUsed ==
  ASSUME NEW period \in Nat \ {0}, NEW cap \in Nat, NEW n \in Nat,
         NEW level \in Int, NEW age \in Nat, NEW c \in Counts,
         PaceOfWindow(level, age, cap, period, c), level + n <= cap
  PROVE  PaceOfWindow(level + n, age, cap, period, Plus(c, n))
  <1>1. ASSUME NEW h \in 0..Horizon, NEW q \in Nat, h <= age + q * period
        PROVE  Plus(c, n)[h] <= (level + n) + q * cap
    <2>1. c[h] <= level + q * cap
      BY <1>1 DEF PaceOfWindow
    <2>2. q * cap \in Int
      OBVIOUS
    <2>3. c[h] \in Nat /\ Plus(c, n)[h] = c[h] + n
      BY CountTypes
    <2> QED  BY <2>1, <2>2, <2>3
  <1>2. level + n \in 0..cap
    BY DEF PaceOfWindow
  <1> QED  BY <1>1, <1>2 DEF PaceOfWindow

LEMMA WindowPaceOlder ==
  ASSUME NEW period \in Nat \ {0}, NEW cap \in Nat, NEW level \in Int,
         NEW age \in Nat, NEW c \in Counts, PaceOfWindow(level, age, cap, period, c)
  PROVE  PaceOfWindow(level, age + 1, cap, period, Later(c))
  <1>1. ASSUME NEW h \in 0..Horizon, NEW q \in Nat, h <= (age + 1) + q * period
        PROVE  Later(c)[h] <= level + q * cap
    <2>1. q * cap \in Nat /\ q * period \in Nat /\ level \in Nat
      BY DEF PaceOfWindow
    <2>2. CASE h = 0
      <3>1. Later(c)[h] = 0
        BY <2>2, CountTypes
      <3> QED  BY <2>1, <3>1
    <2>3. CASE h > 0
      <3>1. h - 1 \in 0..Horizon /\ Later(c)[h] = c[h - 1]
        BY <2>3, CountTypes
      <3>2. h - 1 <= age + q * period
        BY <1>1, <2>1
      <3> QED  BY <3>1, <3>2 DEF PaceOfWindow
    <2> QED  BY <2>2, <2>3
  <1> QED  BY <1>1 DEF PaceOfWindow

LEMMA WindowPaceEnds ==
  ASSUME NEW period \in Nat \ {0}, NEW cap \in Nat, NEW level \in Int,
         NEW age \in Nat, NEW c \in Counts, PaceOfWindow(level, age, cap, period, c),
         age + 1 = period
  PROVE  PaceOfWindow(0, 0, cap, period, Later(c))
  <1>1. ASSUME NEW h \in 0..Horizon, NEW q \in Nat, h <= 0 + q * period
        PROVE  Later(c)[h] <= 0 + q * cap
    <2>1. q * cap \in Nat
      OBVIOUS
    <2>2. CASE h = 0
      BY <2>1, <2>2, CountTypes
    <2>3. CASE h > 0
      <3>1. h - 1 \in 0..Horizon /\ Later(c)[h] = c[h - 1] /\ c[h - 1] \in Nat
        BY <2>3, CountTypes
      <3>2. q # 0
        BY <1>1, <2>3
      <3>3. q - 1 \in Nat /\ (q - 1) * period = q * period - period
            /\ (q - 1) * cap = q * cap - cap
            /\ q * period \in Nat /\ (q - 1) * cap \in Int
        BY <3>2
      <3>4. h - 1 <= age + (q - 1) * period
        BY <1>1, <3>3
      <3>5. c[h - 1] <= level + (q - 1) * cap
        BY <3>1, <3>3, <3>4 DEF PaceOfWindow
      <3>6. level <= cap
        BY DEF PaceOfWindow
      <3> QED  BY <2>1, <3>1, <3>3, <3>5, <3>6
    <2> QED  BY <2>2, <2>3
  <1> QED  BY <1>1 DEF PaceOfWindow

(* An expired window's pace does not change by waiting further.            *)
LEMMA WindowPaceRests ==
  ASSUME NEW period \in Nat \ {0}, NEW cap \in Nat, NEW c \in Counts,
         PaceOfWindow(0, 0, cap, period, c)
  PROVE  PaceOfWindow(0, 0, cap, period, Later(c))
  <1>1. PaceOfWindow(0, 0 + 1, cap, period, Later(c))
    BY WindowPaceOlder
  <1>2. ASSUME NEW h \in 0..Horizon, NEW q \in Nat, h <= 0 + q * period
        PROVE  h <= (0 + 1) + q * period
    <2>1. q * period \in Int /\ h \in Int
      OBVIOUS
    <2> QED  BY <1>2, <2>1
  <1> QED  BY <1>1, <1>2 DEF PaceOfWindow

-----------------------------------------------------------------------------
(* The pace of a meter is that of the meter rolled.                        *)
LEMMA RolledMeter ==
  ASSUME NEW period \in Nat \ {0}, NEW m \in [level : Int, age : 0..period],
         NEW strategy \in Strategies
  PROVE  LET r == Roll(m, strategy, period)
         IN  /\ r \in [level : Int, age : 0..period]
             /\ Roll(r, strategy, period) = r
             /\ strategy = "token_bucket" => r = m
             /\ strategy # "token_bucket" =>
                  IF m.age = period THEN r.level = 0 /\ r.age = 0
                  ELSE r = m
             /\ strategy # "token_bucket" => r.age < period
  <1>1. m.age \in 0..period /\ [level |-> 0, age |-> 0] \in [level : Int, age : 0..period]
    OBVIOUS
  <1>2. strategy # "token_bucket" => strategy = "sliding_window"
    BY DEF Strategies
  <1> QED  BY <1>1, <1>2 DEF Roll

LEMMA PaceRolled ==
  ASSUME NEW period \in Nat \ {0}, NEW m \in [level : Int, age : 0..period],
         NEW strategy \in Strategies, NEW limit, NEW over, NEW c,
         Pace(m, strategy, limit, over, period, c)
  PROVE  Pace(Roll(m, strategy, period), strategy, limit, over, period, c)
  BY RolledMeter DEF Pace

(* What a meter may go over by is at least -1: its last one.               *)
LEMMA OverTypes ==
  ASSUME NEW period \in Nat \ {0}, NEW limit \in Nat \ {0},
         NEW over \in Int, over >= -1
  PROVE  /\ limit + over \in Nat
         /\ over * period \in Int /\ limit * period \in Int
         /\ -(over * period) <= limit * period
  <1>1. period * limit >= period * 1
    BY Products
  <1>2. period * over >= period * (-1)
    BY Products
  <1> QED  BY <1>1, <1>2, Products

(* A fresh meter grants nothing on top of what a quiet horizon allows.     *)
LEMMA NewPace ==
  ASSUME NEW period \in Nat \ {0}, NEW strategy \in Strategies,
         NEW limit \in Nat \ {0}, NEW over \in Int, over >= -1,
         NEW c \in Counts, Quiet(c)
  PROVE  Pace(NewMeter(strategy, limit, period), strategy, limit, over, period, c)
  <1>1. CASE strategy = "token_bucket"
    <2>1. Roll(NewMeter(strategy, limit, period), strategy, period).level
            = limit * period
      BY <1>1 DEF NewMeter, Roll
    <2>2. limit * period >= -(over * period)
      BY OverTypes
    <2> QED  BY <1>1, <2>1, <2>2, BucketPaceNew DEF Pace
  <1>2. CASE strategy # "token_bucket"
    <2>1. strategy = "sliding_window" /\ period >= period
      BY <1>2 DEF Strategies
    <2>2. Roll(NewMeter(strategy, limit, period), strategy, period)
            = [level |-> 0, age |-> 0]
      BY <1>2, <2>1 DEF NewMeter, Roll
    <2> QED  BY <1>2, <2>2, OverTypes, WindowPaceNew DEF Pace
  <1> QED  BY <1>1, <1>2

(* What is used is paid for by the meter, as long as it goes over by no    *)
(* more than it may.                                                       *)
LEMMA UsedPace ==
  ASSUME NEW period \in Nat \ {0}, NEW m \in [level : Int, age : 0..period],
         NEW strategy \in Strategies, NEW limit \in Nat \ {0},
         NEW over \in Int, over >= -1, NEW c \in Counts, NEW n \in Nat,
         NEW v, v = Use(Roll(m, strategy, period), strategy, n, period),
         Pace(m, strategy, limit, over, period, c),
         IF strategy = "token_bucket" THEN v.level >= -(over * period)
         ELSE v.level <= limit + over
  PROVE  Pace(v, strategy, limit, over, period, Plus(c, n))
  <1>1. PICK u : u = Roll(m, strategy, period)
    OBVIOUS
  <1>2. u \in [level : Int, age : 0..period] /\ u.level \in Int
        /\ u.age \in Nat /\ u.age \in 0..period
    BY <1>1, RolledMeter
  <1>3. v \in [level : Int, age : 0..period]
    BY <1>1, <1>2, MeterTypes
  <1>4. /\ v.age = u.age
        /\ v.level = IF strategy = "token_bucket" THEN u.level - n * period
                     ELSE u.level + n
    BY <1>1, <1>2 DEF Use
  <1>5. CASE strategy = "token_bucket"
    <2>1. PaceOfBucket(u.level, limit, period, c)
      BY <1>1, <1>5 DEF Pace
    <2>2. PaceOfBucket(v.level, limit, period, Plus(c, n))
      BY <1>2, <1>4, <1>5, <2>1, BucketPaceUsed
    <2>3. Roll(v, strategy, period) = v
      BY <1>3, <1>5, RolledMeter
    <2> QED  BY <1>5, <2>2, <2>3 DEF Pace
  <1>6. CASE strategy # "token_bucket"
    <2>1. PaceOfWindow(u.level, u.age, limit + over, period, c)
      BY <1>1, <1>6 DEF Pace
    <2>2. PaceOfWindow(v.level, v.age, limit + over, period, Plus(c, n))
      BY <1>2, <1>4, <1>6, <2>1, OverTypes, WindowPaceUsed
    <2>3. v.age # period
      BY <1>1, <1>2, <1>4, <1>6, RolledMeter
    <2>4. Roll(v, strategy, period) = v
      BY <1>3, <1>6, <2>3, RolledMeter
    <2> QED  BY <1>6, <2>2, <2>4 DEF Pace
  <1> QED  BY <1>5, <1>6

(* Time passes: a token bucket refills, a window ages.                     *)
LEMMA OlderPace ==
  ASSUME NEW period \in Nat \ {0}, NEW m \in [level : Int, age : 0..period],
         NEW strategy \in Strategies, NEW limit \in Nat \ {0},
         NEW over \in Int, over >= -1, NEW c \in Counts,
         Pace(m, strategy, limit, over, period, c)
  PROVE  Pace(Older(m, strategy, limit, period), strategy, limit, over, period,
              Later(c))
  <1>1. PICK v : v = Older(m, strategy, limit, period)
    OBVIOUS
  <1>2. v \in [level : Int, age : 0..period] /\ v.level \in Int
    BY <1>1, MeterTypes
  <1>3. m.age \in 0..period /\ m.level \in Int
    OBVIOUS
  <1>4. CASE strategy = "token_bucket"
    <2>1. PICK x : x = limit * period
      OBVIOUS
    <2>2. v.level = IF m.level + limit > x THEN x ELSE m.level + limit
      BY <1>1, <1>4, <2>1 DEF Older
    <2>3. x \in Int /\ -(over * period) <= x /\ over * period \in Int
      BY <2>1, OverTypes
    <2>4. Roll(m, strategy, period) = m /\ Roll(v, strategy, period) = v
      BY <1>2, <1>4, RolledMeter
    <2>5. PaceOfBucket(m.level, limit, period, c) /\ m.level >= -(over * period)
      BY <1>4, <2>4 DEF Pace
    <2>6. v.level <= m.level + limit /\ v.level <= x /\ v.level >= -(over * period)
      BY <1>2, <1>3, <2>2, <2>3, <2>5
    <2>7. PaceOfBucket(v.level, limit, period, Later(c))
      BY <1>2, <1>3, <2>1, <2>5, <2>6, BucketPaceLater
    <2> QED  BY <1>1, <1>4, <2>4, <2>6, <2>7 DEF Pace
  <1>5. CASE strategy # "token_bucket"
    <2>1. PICK cap \in Nat : cap = limit + over
      BY OverTypes
    <2>2. /\ v.level = m.level
          /\ v.age = IF m.age < period THEN m.age + 1 ELSE m.age
      BY <1>1, <1>5 DEF Older
    <2>3. /\ m.age = period => PaceOfWindow(0, 0, cap, period, c)
          /\ m.age # period => PaceOfWindow(m.level, m.age, cap, period, c)
      BY <1>5, <2>1, RolledMeter DEF Pace
    <2>4. /\ v.age = period => Roll(v, strategy, period).level = 0
                               /\ Roll(v, strategy, period).age = 0
          /\ v.age # period => Roll(v, strategy, period) = v
      BY <1>2, <1>5, RolledMeter
    <2>5. CASE m.age = period
      BY <1>1, <1>5, <2>1, <2>2, <2>3, <2>4, <2>5, WindowPaceRests DEF Pace
    <2>6. CASE m.age + 1 = period
      <3>1. v.age = period /\ m.age # period /\ m.age \in Nat
        BY <1>3, <2>2, <2>6
      <3>2. PaceOfWindow(0, 0, cap, period, Later(c))
        BY <1>3, <2>3, <2>6, <3>1, WindowPaceEnds
      <3> QED  BY <1>1, <1>5, <2>1, <2>4, <3>1, <3>2 DEF Pace
    <2>7. CASE m.age # period /\ m.age + 1 # period
      <3>1. v.age = m.age + 1 /\ v.age # period /\ m.age \in Nat
        BY <1>3, <2>2, <2>7
      <3>2. PaceOfWindow(v.level, v.age, cap, period, Later(c))
        BY <1>3, <2>2, <2>3, <2>7, <3>1, WindowPaceOlder
      <3> QED  BY <1>1, <1>5, <2>1, <2>4, <3>1, <3>2 DEF Pace
    <2> QED  BY <2>5, <2>6, <2>7
  <1> QED  BY <1>4, <1>5

(* What a meter in pace has counted is within its limit.                   *)
LEMMA PaceWithin ==
  ASSUME NEW period \in Nat \ {0}, NEW m \in [level : Int, age : 0..period],
         NEW strategy \in Strategies, NEW limit \in Nat \ {0},
         NEW over \in Int, over >= -1, NEW c \in Counts, NEW h \in 0..Horizon,
         Pace(m, strategy, limit, over, period, c)
  PROVE  Within(c[h], h, strategy, limit, over, period)
  <1>1. PICK r : r = Roll(m, strategy, period)
    OBVIOUS
  <1>2. r.level \in Int /\ r.age \in Nat /\ h \in Nat /\ c[h] \in Nat
    <2>1. r \in [level : Int, age : 0..period]
      BY <1>1, RolledMeter
    <2>2. r.level \in Int /\ r.age \in Nat
      BY <2>1
    <2>3. h \in Nat
      OBVIOUS
    <2>4. c[h] \in Nat
      BY CountTypes
    <2> QED  BY <2>2, <2>3, <2>4
  <1>3. CASE strategy = "token_bucket"
    <2>1. r.level >= -(over * period) /\ period * c[h] + r.level <= limit * (period + h)
      BY <1>1, <1>3 DEF Pace, PaceOfBucket
    <2>2. c[h] * period = period * c[h] /\ period * c[h] \in Int
          /\ limit * (period + h) \in Int /\ over * period \in Int
      BY <1>2
    <2>3. c[h] * period <= limit * (period + h) + over * period
      BY <1>2, <2>1, <2>2
    <2> QED  BY <1>3, <2>3 DEF Within
  <1>4. CASE strategy # "token_bucket"
    <2>1. PICK q : q = h \div period + 1
      OBVIOUS
    <2>2. q \in Nat /\ h <= q * period
      <3>1. /\ h = period * (h \div period) + (h % period)
            /\ h % period \in 0..(period - 1) /\ h \div period \in Nat
        BY <1>2
      <3>2. (h \div period + 1) * period = period * (h \div period) + period
        BY <3>1
      <3>3. period * (h \div period) \in Int
        BY <3>1
      <3> QED  BY <1>2, <2>1, <3>1, <3>2, <3>3
    <2>3. h <= r.age + q * period
      <3>1. q * period \in Int
        BY <2>2
      <3> QED  BY <1>2, <2>2, <3>1
    <2>4. PICK cap \in Nat : cap = limit + over
      BY OverTypes
    <2>5. c[h] <= r.level + q * cap /\ r.level <= cap
      BY <1>1, <1>4, <2>2, <2>3, <2>4 DEF Pace, PaceOfWindow
    <2>6. cap * (h \div period + 2) = q * cap + cap /\ q * cap \in Int
      <3>1. h \div period + 2 = q + 1
        BY <1>2, <2>1
      <3> QED  BY <2>2, <3>1
    <2>7. c[h] <= cap * (h \div period + 2)
      BY <1>2, <2>5, <2>6
    <2> QED  BY <1>4, <2>4, <2>7 DEF Within
  <1> QED  BY <1>3, <1>4

-----------------------------------------------------------------------------
(* Of Last, in terms of the bounds of TokenDebtBounded.                    *)
LEMMA LastOver ==
  /\ Last \in Int /\ Last >= -1
  /\ Second \in Nat \ {0} /\ Minute \in Nat \ {0}
  /\ Floor(Cardinality(Requests)) = -(Last * Minute)
  /\ \A tpm \in Nat : Ceiling(tpm, Cardinality(Requests)) = tpm + Last
  <1>1. Cardinality(Requests) \in Nat
    BY LimiterAssumption, FS_CardinalityType
  <1>2. PICK x \in Nat : x = MaxTokens * Cardinality(Requests)
    BY <1>1, LimiterAssumption
  <1>3. Minute * (1 - x) = -((x - 1) * Minute)
    BY LimiterAssumption
  <1> QED  BY <1>2, <1>3, LimiterAssumption DEF Last, Floor, Ceiling

LEMMA NewPaced ==
  ASSUME NEW rule \in Rule, NEW c \in Counts, NEW d \in Counts,
         Quiet(c), Quiet(d)
  PROVE  BothPaced(NewBucket(rule), c, d)
  <1>1. /\ rule.rps \in Nat \ {0} /\ rule.tpm \in Nat \ {0}
        /\ rule.strategy \in Strategies
    BY DEF Rule
  <1>2. /\ Pace(NewMeter(rule.strategy, rule.rps, Second), rule.strategy,
                rule.rps, 0, Second, c)
        /\ Pace(NewMeter(rule.strategy, rule.tpm, Minute), rule.strategy,
                rule.tpm, Last, Minute, d)
    BY <1>1, LastOver, NewPace
  <1> QED  BY <1>2 DEF BothPaced, NewBucket

(* The bucket after Allow: the tokens' meter is touched, the requests' one *)
(* pays for the request that is let in.                                    *)
LEMMA AllowParts ==
  ASSUME NEW b \in Bucket
  PROVE  LET u == Roll(b.rps, b.rule.strategy, Second)
         IN  /\ AfterAllow(b).tpm = Roll(b.tpm, b.rule.strategy, Minute)
             /\ ~Allows(b) => AfterAllow(b).rps \in {b.rps, u}
             /\ Allows(b) => /\ AfterAllow(b).rps = Use(u, b.rule.strategy, 1, Second)
                             /\ Left(u, b.rule.strategy, b.rule.rps, Second)
  <1> DEFINE t == RollTpm(b)
             u == RollRps(t)
             v == Use(u.rps, b.rule.strategy, 1, Second)
  <1>1. /\ t \in Bucket /\ t.rule = b.rule /\ t.rps = b.rps
        /\ t.tpm = Roll(b.tpm, b.rule.strategy, Minute)
    <2>1. Roll(b.tpm, b.rule.strategy, Minute) \in [level : Int, age : 0..Minute]
      BY BucketParts, MeterTypes, LimiterAssumption
    <2> QED  BY <2>1, Fields DEF RollTpm
  <1>2. /\ u \in Bucket /\ u.rule = b.rule /\ u.tpm = t.tpm
        /\ u.rps = Roll(b.rps, b.rule.strategy, Second)
    <2>1. u \in Bucket /\ u.rule = b.rule /\ u.tpm = t.tpm
      BY <1>1, RollSound
    <2>2. u.rps = Roll(b.rps, b.rule.strategy, Second)
      BY <1>1 DEF RollRps, Bucket
    <2> QED  BY <2>1, <2>2
  <1>3. RollRps(b).rps = u.rps
    BY <1>2 DEF RollRps, Bucket
  <1>4. AfterAllow(b) = IF ~TokensLeft(b) THEN t
                        ELSE IF ~RequestsLeft(b) THEN u
                        ELSE [u EXCEPT !.rps = v]
    BY DEF AfterAllow
  <1>5. RequestsLeft(b) <=> Left(u.rps, b.rule.strategy, b.rule.rps, Second)
    BY <1>3 DEF RequestsLeft
  <1>6. [u EXCEPT !.rps = v].rps = v /\ [u EXCEPT !.rps = v].tpm = u.tpm
    <2>1. v \in [level : Int, age : 0..Second]
      BY <1>2, BucketParts, MeterTypes, LimiterAssumption
    <2> QED  BY <1>2, <2>1 DEF Bucket
  <1> HIDE DEF t, u, v
  <1>7. CASE ~Allows(b)
    <2>1. AfterAllow(b) = t \/ AfterAllow(b) = u
      BY <1>4, <1>7 DEF Allows
    <2> QED  BY <1>1, <1>2, <1>7, <2>1
  <1>8. CASE Allows(b)
    <2>1. AfterAllow(b) = [u EXCEPT !.rps = v] /\ RequestsLeft(b)
      BY <1>4, <1>8 DEF Allows
    <2> QED  BY <1>1, <1>2, <1>5, <1>6, <1>8, <2>1 DEF v
  <1> QED  BY <1>7, <1>8

LEMMA AllowPaces ==
  ASSUME NEW b \in Bucket, NEW c \in Counts, NEW d \in Counts, BothPaced(b, c, d)
  PROVE  BothPaced(AfterAllow(b), IF Allows(b) THEN Plus(c, 1) ELSE c, d)
  <1> DEFINE u == Roll(b.rps, b.rule.strategy, Second)
             e == AfterAllow(b)
  <1>1. e \in Bucket /\ e.rule = b.rule
    BY AllowSound
  <1>2. /\ b.rps \in [level : Int, age : 0..Second]
        /\ b.tpm \in [level : Int, age : 0..Minute]
        /\ b.rule.rps \in Nat \ {0} /\ b.rule.tpm \in Nat \ {0}
        /\ b.rule.strategy \in Strategies
        /\ Second \in Nat \ {0} /\ Minute \in Nat \ {0}
    BY BucketParts, LimiterAssumption
  <1>3. Pace(e.tpm, b.rule.strategy, b.rule.tpm, Last, Minute, d)
    <2>1. Pace(b.tpm, b.rule.strategy, b.rule.tpm, Last, Minute, d)
      BY DEF BothPaced
    <2> QED  BY <1>2, <2>1, AllowParts, PaceRolled
  <1>4. Pace(b.rps, b.rule.strategy, b.rule.rps, 0, Second, c)
    BY DEF BothPaced
  <1>5. CASE ~Allows(b)
    <2>1. e.rps = b.rps \/ e.rps = u
      BY <1>5, AllowParts
    <2>2. Pace(e.rps, b.rule.strategy, b.rule.rps, 0, Second, c)
      BY <1>2, <1>4, <2>1, PaceRolled
    <2> QED  BY <1>1, <1>3, <1>5, <2>2 DEF BothPaced
  <1>6. CASE Allows(b)
    <2>1. PICK v : v = Use(u, b.rule.strategy, 1, Second)
      OBVIOUS
    <2>2. e.rps = v /\ Left(u, b.rule.strategy, b.rule.rps, Second)
      BY <1>6, <2>1, AllowParts
    <2>3. u \in [level : Int, age : 0..Second] /\ u.level \in Int
      BY <1>2, RolledMeter
    <2>4. v.level = IF b.rule.strategy = "token_bucket" THEN u.level - 1 * Second
                    ELSE u.level + 1
      BY <2>1, <2>3 DEF Use
    <2> HIDE DEF u, e
    <2>5. IF b.rule.strategy = "token_bucket" THEN v.level >= -(0 * Second)
          ELSE v.level <= b.rule.rps + 0
      BY <1>2, <2>2, <2>3, <2>4 DEF Left
    <2>6. Pace(v, b.rule.strategy, b.rule.rps, 0, Second, Plus(c, 1))
      BY <1>2, <1>4, <2>1, <2>5, UsedPace DEF u
    <2> QED  BY <1>1, <1>3, <1>6, <2>2, <2>6 DEF BothPaced, e
  <1> QED  BY <1>5, <1>6

(* Tokens are recorded unasked, but Solvent bounds where they lead.        *)
LEMMA RecordPaces ==
  ASSUME NEW b \in Bucket, NEW c \in Counts, NEW d \in Counts, BothPaced(b, c, d),
         NEW n \in 0..MaxTokens, NEW j \in Nat, Solvent(b, j),
         j + 1 <= Cardinality(Requests)
  PROVE  /\ AfterRecord(b, n) \in Bucket
         /\ BothPaced(AfterRecord(b, n), c, Plus(d, n))
  <1>1. PICK e : e = AfterRecord(b, n)
    OBVIOUS
  <1>2. e \in Bucket /\ Solvent(e, j + 1)
    BY <1>1, RecordSound
  <1>3. Solvent(e, Cardinality(Requests))
    <2>1. Cardinality(Requests) \in Nat
      BY LimiterAssumption, FS_CardinalityType
    <2> QED  BY <1>2, <2>1, SolventGrows
  <1>4. /\ b.tpm \in [level : Int, age : 0..Minute]
        /\ b.rule.tpm \in Nat \ {0} /\ b.rule.strategy \in Strategies
        /\ Minute \in Nat \ {0} /\ n \in Nat
    BY BucketParts, LimiterAssumption
  <1>5. /\ e.rps = b.rps /\ e.rule = b.rule
        /\ e.tpm = Use(Roll(b.tpm, b.rule.strategy, Minute), b.rule.strategy, n, Minute)
    BY <1>1, RollSound DEF AfterRecord, Bucket
  <1>6. IF b.rule.strategy = "token_bucket" THEN e.tpm.level >= -(Last * Minute)
        ELSE e.tpm.level <= b.rule.tpm + Last
    BY <1>3, <1>4, <1>5, LastOver DEF Solvent
  <1>7. Pace(e.tpm, b.rule.strategy, b.rule.tpm, Last, Minute, Plus(d, n))
    <2>1. Pace(b.tpm, b.rule.strategy, b.rule.tpm, Last, Minute, d)
      BY DEF BothPaced
    <2> QED  BY <1>4, <1>5, <1>6, <2>1, LastOver, UsedPace
  <1> QED  BY <1>1, <1>2, <1>5, <1>7 DEF BothPaced

-----------------------------------------------------------------------------
(* What bucketFor finds keeps the pace.  A swept bucket was idle for more  *)
(* than IdleTTL, hence for the whole horizon.                              *)
LEMMA SweptQuiet ==
  ASSUME HInv, NEW k \in Keys, Swept(k) = NoBucket
  PROVE  Quiet(admitted[k]) /\ Quiet(spent[k])
  <1>1. InPace(buckets[k], admitted[k], spent[k])
    BY DEF HInv, Paced
  <1>2. CASE buckets[k] = NoBucket
    BY <1>1, <1>2 DEF InPace
  <1>3. CASE buckets[k] # NoBucket
    <2>1. /\ buckets[k].idle > IdleTTL
          /\ Unheard(buckets[k].idle, admitted[k])
          /\ Unheard(buckets[k].idle, spent[k])
      BY <1>1, <1>3 DEF Swept, InPace
    <2>2. buckets[k].idle \in 0..(IdleTTL + 1)
      BY <1>3, BucketParts DEF HInv, IInv, TypeOK
    <2>3. \A h \in 0..Horizon : h < buckets[k].idle
      BY <2>1, <2>2, HorizonAssumption, LimiterAssumption
    <2> QED  BY <2>1, <2>3 DEF Unheard, Quiet
  <1> QED  BY <1>2, <1>3

LEMMA FoundPaced ==
  ASSUME HInv, NEW k \in Keys
  PROVE  /\ bucketFor(k) \in Bucket
         /\ BothPaced(bucketFor(k), admitted[k], spent[k])
         /\ admitted[k] \in Counts /\ spent[k] \in Counts
  <1>1. bucketFor(k) \in Bucket
    BY FoundSound DEF HInv
  <1>2. admitted[k] \in Counts /\ spent[k] \in Counts
    BY DEF HInv, HTypes
  <1>3. CASE Swept(k) = NoBucket
    <2>1. bucketFor(k) = NewBucket(resolve(configs, k))
      BY <1>3 DEF bucketFor
    <2>2. resolve(configs, k) \in Rule
      BY ResolveRule DEF HInv, IInv, TypeOK
    <2> QED  BY <1>1, <1>2, <1>3, <2>1, <2>2, SweptQuiet, NewPaced
  <1>4. CASE Swept(k) # NoBucket
    <2>1. bucketFor(k) = buckets[k] /\ buckets[k] # NoBucket
      BY <1>4 DEF bucketFor, Swept
    <2> QED  BY <1>1, <1>2, <2>1 DEF HInv, Paced, InPace
  <1> QED  BY <1>3, <1>4

(* A visit that leaves a bucket in pace with what was counted.             *)
LEMMA VisitPaced ==
  ASSUME HInv, NEW k \in Keys, NEW b \in Bucket, Visit(k, b),
         BothPaced(b, admitted'[k], spent'[k]),
         \A q \in Keys \ {k} : admitted'[q] = admitted[q] /\ spent'[q] = spent[q]
  PROVE  Paced'
  <1> DEFINE e == [b EXCEPT !.idle = 0]
  <1>1. e \in Bucket /\ e.rule = b.rule /\ e.rps = b.rps /\ e.tpm = b.tpm /\ e.idle = 0
    BY LimiterAssumption DEF Bucket
  <1>2. buckets' = [q \in Keys |-> IF q = k THEN e ELSE Swept(q)]
    BY DEF Visit
  <1> HIDE DEF e
  <1>3. ASSUME NEW q \in Keys
        PROVE  InPace(buckets'[q], admitted'[q], spent'[q])
    <2>1. CASE q = k
      <3>1. buckets'[q] = e /\ e # NoBucket
        BY <1>1, <1>2, <2>1, NoValueAssumption
      <3>2. Unheard(0, admitted'[k]) /\ Unheard(0, spent'[k])
        BY DEF Unheard
      <3>3. BothPaced(e, admitted'[k], spent'[k])
        BY <1>1 DEF BothPaced
      <3> QED  BY <1>1, <2>1, <3>1, <3>2, <3>3 DEF InPace
    <2>2. CASE q # k /\ Swept(q) = NoBucket
      BY <1>2, <2>2, SweptQuiet DEF InPace
    <2>3. CASE q # k /\ Swept(q) # NoBucket
      <3>1. buckets'[q] = buckets[q]
        BY <1>2, <2>3 DEF Swept
      <3>2. admitted'[q] = admitted[q] /\ spent'[q] = spent[q]
        BY <2>3
      <3> QED  BY <3>1, <3>2 DEF HInv, Paced
    <2> QED  BY <2>1, <2>2, <2>3
  <1> QED  BY <1>3 DEF Paced

(* A call of Allow with the history's account of it.                       *)
LEMMA AllowPaced ==
  ASSUME HInv, NEW k \in Keys, Allow(k), Admit(k)
  PROVE  HTypes' /\ Paced'
  <1>1. PICK b : b = bucketFor(k)
    OBVIOUS
  <1>2. /\ b \in Bucket /\ BothPaced(b, admitted[k], spent[k])
        /\ admitted[k] \in Counts /\ spent[k] \in Counts
    BY <1>1, FoundPaced
  <1>3. Plus(admitted[k], 1) \in Counts
    BY <1>2, CountTypes
  <1>4. /\ admitted' = IF Allows(b)
                       THEN [admitted EXCEPT ![k] = Plus(admitted[k], 1)]
                       ELSE admitted
        /\ spent' = spent
    BY <1>1 DEF Admit
  <1>5. /\ HTypes'
        /\ admitted'[k] = IF Allows(b) THEN Plus(admitted[k], 1) ELSE admitted[k]
        /\ \A q \in Keys \ {k} : admitted'[q] = admitted[q] /\ spent'[q] = spent[q]
    BY <1>3, <1>4 DEF HInv, HTypes
  <1>6. AfterAllow(b) \in Bucket /\ BothPaced(AfterAllow(b), admitted'[k], spent'[k])
    BY <1>2, <1>4, <1>5, AllowSound, AllowPaces
  <1>7. Visit(k, AfterAllow(b))
    BY <1>1 DEF Allow
  <1> QED  BY <1>5, <1>6, <1>7, VisitPaced

LEMMA FinishPaced ==
  ASSUME HInv, NEW r \in Requests, NEW n \in 0..MaxTokens, HFinish(r, n)
  PROVE  HTypes' /\ Paced'
  <1>1. PICK k \in Keys : k = key[r]
    BY DEF HFinish, Finish, HInv, IInv, TypeOK
  <1>2. /\ admitted[k] \in Counts /\ spent[k] \in Counts /\ n \in Nat
        /\ Plus(spent[k], n) \in Counts
    <2>1. admitted[k] \in Counts /\ spent[k] \in Counts
      BY DEF HInv, HTypes
    <2>2. n \in Nat
      BY LimiterAssumption
    <2> QED  BY <2>1, <2>2, CountTypes
  <1>3. /\ HTypes' /\ admitted' = admitted
        /\ spent'[k] = Plus(spent[k], n)
        /\ \A q \in Keys \ {k} : spent'[q] = spent[q]
    BY <1>1, <1>2 DEF HFinish, HInv, HTypes
  <1>4. CASE n > 0
    <2>1. PICK b : b = bucketFor(k)
      OBVIOUS
    <2>2. Visit(k, AfterRecord(b, n))
      BY <1>1, <1>4, <2>1 DEF HFinish, Finish
    <2>3. /\ b \in Bucket /\ BothPaced(b, admitted[k], spent[k])
          /\ Solvent(b, Free(k)) /\ Free(k) \in Nat
      BY <2>1, FoundPaced, FoundSound, FreeNat DEF HInv
    <2>4. Free(k) + 1 <= Cardinality(Requests)
      <3>1. r \in Unrecorded(k)
        BY <1>1 DEF HFinish, Finish, Unrecorded
      <3>2. Cardinality(Unrecorded(k)) # 0
        BY <3>1, FreeNat, FS_EmptySet
      <3> QED  BY <3>2, FreeNat DEF Free
    <2>5. /\ AfterRecord(b, n) \in Bucket
          /\ BothPaced(AfterRecord(b, n), admitted[k], Plus(spent[k], n))
      BY <1>2, <2>3, <2>4, RecordPaces
    <2> QED  BY <1>3, <2>2, <2>5, VisitPaced
  <1>5. CASE ~(n > 0)
    <2>1. UNCHANGED buckets
      BY <1>5 DEF HFinish, Finish, limiterVars
    <2>2. Plus(spent[k], n) = spent[k]
      <3>1. n = 0
        BY <1>2, <1>5
      <3>2. \A h \in 0..Horizon : spent[k][h] + 0 = spent[k][h]
        BY <1>2, CountTypes
      <3> QED  BY <1>2, <3>1, <3>2 DEF Plus, Counts
    <2>3. \A q \in Keys : spent'[q] = spent[q]
      BY <1>3, <2>2
    <2> QED  BY <1>3, <2>1, <2>3 DEF HInv, Paced
  <1> QED  BY <1>4, <1>5

LEMMA LaterUnheard ==
  ASSUME NEW c \in Counts, NEW i \in Nat, NEW j \in Nat, j <= i + 1, Unheard(i, c)
  PROVE  Unheard(j, Later(c))
  <1>1. ASSUME NEW h \in 0..Horizon, h < j
        PROVE  Later(c)[h] = 0
    <2>1. CASE h = 0
      BY <2>1, CountTypes
    <2>2. CASE h > 0
      <3>1. h - 1 \in 0..Horizon /\ Later(c)[h] = c[h - 1]
        BY <2>2, CountTypes
      <3>2. h - 1 < i
        BY <1>1
      <3> QED  BY <3>1, <3>2 DEF Unheard
    <2> QED  BY <2>1, <2>2
  <1> QED  BY <1>1 DEF Unheard

LEMMA TickPaced ==
  ASSUME HInv, HTick
  PROVE  HTypes' /\ Paced'
  <1>1. /\ admitted' = [k \in Keys |-> Later(admitted[k])]
        /\ spent' = [k \in Keys |-> Later(spent[k])]
    BY DEF HTick
  <1>2. HTypes'
    BY <1>1, CountTypes DEF HInv, HTypes
  <1>3. ASSUME NEW k \in Keys
        PROVE  InPace(buckets'[k], admitted'[k], spent'[k])
    <2>1. PICK c \in Counts, d \in Counts : c = admitted[k] /\ d = spent[k]
      BY DEF HInv, HTypes
    <2>2. admitted'[k] = Later(c) /\ spent'[k] = Later(d)
      BY <1>1, <2>1
    <2>3. InPace(buckets[k], c, d)
      BY <2>1 DEF HInv, Paced
    <2>4. CASE buckets[k] = NoBucket
      <3>1. buckets'[k] = NoBucket /\ Quiet(c) /\ Quiet(d)
        BY <2>3, <2>4 DEF HTick, Tick, InPace
      <3>2. Quiet(Later(c)) /\ Quiet(Later(d))
        BY <3>1, CountTypes DEF Quiet
      <3> QED  BY <2>2, <3>1, <3>2 DEF InPace
    <2>5. CASE buckets[k] # NoBucket
      <3>1. PICK b : b = buckets[k]
        OBVIOUS
      <3>2. PICK e : e = OlderBucket(b)
        OBVIOUS
      <3>3. /\ b \in Bucket /\ Unheard(b.idle, c) /\ Unheard(b.idle, d)
            /\ BothPaced(b, c, d)
        BY <2>3, <2>5, <3>1 DEF InPace, HInv, IInv, TypeOK
      <3>4. buckets'[k] = e
        BY <2>5, <3>1, <3>2 DEF HTick, Tick
      <3>5. e \in Bucket
        <4>1. Solvent(b, Free(k)) /\ Free(k) \in Nat
          BY <2>5, <3>1, FreeNat DEF HInv, IInv
        <4> QED  BY <3>2, <3>3, <4>1, OlderSound
      <3>6. /\ e.rule = b.rule
            /\ e.rps = Older(b.rps, b.rule.strategy, b.rule.rps, Second)
            /\ e.tpm = Older(b.tpm, b.rule.strategy, b.rule.tpm, Minute)
            /\ e.idle = IF b.idle <= IdleTTL THEN b.idle + 1 ELSE b.idle
        BY <3>2, <3>3 DEF OlderBucket, Bucket
      <3>7. Unheard(e.idle, Later(c)) /\ Unheard(e.idle, Later(d))
        <4>1. b.idle \in Nat /\ e.idle \in Nat /\ e.idle <= b.idle + 1
          BY <3>3, <3>6, BucketParts, LimiterAssumption
        <4> QED  BY <3>3, <4>1, LaterUnheard
      <3>8. BothPaced(e, Later(c), Later(d))
        <4>1. /\ b.rps \in [level : Int, age : 0..Second]
              /\ b.tpm \in [level : Int, age : 0..Minute]
              /\ b.rule.rps \in Nat \ {0} /\ b.rule.tpm \in Nat \ {0}
              /\ b.rule.strategy \in Strategies
          BY <3>3, BucketParts
        <4>2. Pace(e.rps, b.rule.strategy, b.rule.rps, 0, Second, Later(c))
          BY <3>3, <3>6, <4>1, LastOver, OlderPace DEF BothPaced
        <4>3. Pace(e.tpm, b.rule.strategy, b.rule.tpm, Last, Minute, Later(d))
          BY <3>3, <3>6, <4>1, LastOver, OlderPace DEF BothPaced
        <4> QED  BY <3>6, <4>2, <4>3 DEF BothPaced
      <3> QED  BY <2>2, <3>4, <3>5, <3>7, <3>8, NoValueAssumption DEF InPace
    <2> QED  BY <2>4, <2>5
  <1> QED  BY <1>2, <1>3 DEF Paced

LEMMA OtherPaced ==
  ASSUME HInv, HOther
  PROVE  HTypes' /\ Paced'
  <1>1. admitted' = admitted /\ spent' = spent /\ HTypes'
    BY DEF HOther, HInv, HTypes
  <1>2. ASSUME NEW r \in Requests, Status(r) PROVE Paced'
    <2>1. PICK k \in Keys : k = key[r]
      BY <1>2 DEF Status, HInv, IInv, TypeOK
    <2>2. PICK b : b = bucketFor(k)
      OBVIOUS
    <2>3. Visit(k, RollRps(b))
      BY <1>2, <2>1, <2>2 DEF Status
    <2>4. b \in Bucket /\ BothPaced(b, admitted[k], spent[k])
      BY <2>2, FoundPaced
    <2>5. /\ RollRps(b) \in Bucket /\ RollRps(b).rule = b.rule
          /\ RollRps(b).tpm = b.tpm
          /\ RollRps(b).rps = Roll(b.rps, b.rule.strategy, Second)
      BY <2>4, RollSound DEF RollRps, Bucket
    <2>6. BothPaced(RollRps(b), admitted[k], spent[k])
      <3>1. /\ b.rps \in [level : Int, age : 0..Second]
            /\ b.rule.strategy \in Strategies
        BY <2>4, BucketParts
      <3> QED  BY <2>4, <2>5, <3>1, LastOver, PaceRolled DEF BothPaced
    <2> QED  BY <1>1, <2>3, <2>5, <2>6, VisitPaced
  <1>3. ASSUME NEW a \in Admins,
               \/ Prepare(a) \/ Save(a) \/ Delete(a)
               \/ List(a) \/ ListFails(a) \/ Swap(a)
        PROVE  Paced'
    <2>1. UNCHANGED buckets
      BY <1>3 DEF Prepare, Save, Delete, List, ListFails, Swap, limiterVars
    <2> QED  BY <1>1, <2>1 DEF HInv, Paced
  <1> QED  BY <1>1, <1>2, <1>3 DEF HOther

LEMMA InitHInv == HInit => HInv
  <1> SUFFICES ASSUME HInit PROVE HInv
    OBVIOUS
  <1>1. IInv
    BY InitSound DEF HInit
  <1>2. \A k \in Keys : buckets[k] = NoBucket
    BY DEF HInit, Init
  <1>3. Zero \in Counts /\ Quiet(Zero)
    BY HorizonAssumption DEF Zero, Counts, Quiet
  <1>4. HTypes /\ \A k \in Keys : Quiet(admitted[k]) /\ Quiet(spent[k])
    BY <1>3 DEF HInit, HTypes
  <1> QED  BY <1>1, <1>2, <1>4 DEF HInv, Paced, InPace

(* A step of HSpec is a step of Spec.                                      *)
LEMMA HStepIsStep == [HNext]_hvars => [Next]_vars
  BY DEF HNext, HArrive, HArriveMCP, HFinish, HTick, HOther, Next, hvars, vars

LEMMA HInductive == HInv /\ [HNext]_hvars => HInv'
  <1> SUFFICES ASSUME HInv, [HNext]_hvars PROVE HInv'
    OBVIOUS
  <1>1. IInv'
    BY HStepIsStep, Inductive DEF HInv
  <1>2. HTypes' /\ Paced'
    <2>1. ASSUME NEW r \in Requests, HArrive(r)
          PROVE  HTypes' /\ Paced'
      <3>1. PICK k \in Keys : Allow(k) /\ key' = [key EXCEPT ![r] = k]
        BY <2>1 DEF HArrive, Arrive
      <3>2. key'[r] = k
        BY <3>1 DEF HInv, IInv, TypeOK
      <3> QED  BY <2>1, <3>1, <3>2, AllowPaced DEF HArrive
    <2>2. ASSUME NEW r \in Requests, NEW n \in 0..MaxTokens, HFinish(r, n)
          PROVE  HTypes' /\ Paced'
      BY <2>2, FinishPaced
    <2>3. ASSUME NEW k \in Keys, HArriveMCP(k)
          PROVE  HTypes' /\ Paced'
      BY <2>3, AllowPaced DEF HArriveMCP, ArriveMCP
    <2>4. CASE HTick
      BY <2>4, TickPaced
    <2>5. CASE HOther
      BY <2>5, OtherPaced
    <2>6. CASE UNCHANGED hvars
      BY <2>6 DEF hvars, HInv, HTypes, Paced
    <2> QED  BY <2>1, <2>2, <2>3, <2>4, <2>5, <2>6 DEF HNext
  <1> QED  BY <1>1, <1>2 DEF HInv

(* Both limits limit, for every rule and through every sweep and reload:   *)
(* in any h units of time ratelimiter.go lets no more requests in, and no  *)
(* more tokens be recorded, than the burst and what h units refill, or     *)
(* than one limit for each window that the time can touch; of tokens the   *)
(* requests that run together may use some on top.                         *)
THEOREM RateIsLimited == HSpec => []RateHolds
  <1>1. HInv => RateHolds
    <2> SUFFICES ASSUME HInv, NEW k \in Keys, buckets[k] # NoBucket,
                        NEW h \in 0..Horizon
                 PROVE  LET rule == buckets[k].rule
                        IN  /\ Within(admitted[k][h], h, rule.strategy, rule.rps,
                                      0, Second)
                            /\ Within(spent[k][h], h, rule.strategy, rule.tpm,
                                      Last, Minute)
      BY DEF RateHolds, Last
    <2>1. PICK b \in Bucket : b = buckets[k]
      BY DEF HInv, IInv, TypeOK
    <2>2. BothPaced(b, admitted[k], spent[k])
      BY <2>1 DEF HInv, Paced, InPace
    <2>3. /\ b.rps \in [level : Int, age : 0..Second]
          /\ b.tpm \in [level : Int, age : 0..Minute]
          /\ b.rule.rps \in Nat \ {0} /\ b.rule.tpm \in Nat \ {0}
          /\ b.rule.strategy \in Strategies
          /\ admitted[k] \in Counts /\ spent[k] \in Counts
      BY BucketParts DEF HInv, HTypes
    <2>4. Within(admitted[k][h], h, b.rule.strategy, b.rule.rps, 0, Second)
      <3>1. Pace(b.rps, b.rule.strategy, b.rule.rps, 0, Second, admitted[k])
        BY <2>2 DEF BothPaced
      <3>2. 0 \in Int /\ 0 >= -1
        OBVIOUS
      <3> QED  BY <2>3, <3>1, <3>2, LastOver, PaceWithin
    <2>5. Within(spent[k][h], h, b.rule.strategy, b.rule.tpm, Last, Minute)
      BY <2>2, <2>3, LastOver, PaceWithin DEF BothPaced
    <2> QED  BY <2>1, <2>4, <2>5
  <1>2. HSpec => []HInv
    BY InitHInv, HInductive, PTL DEF HSpec
  <1> QED  BY <1>1, <1>2, PTL

=============================================================================
