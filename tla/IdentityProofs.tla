--------------------------- MODULE IdentityProofs ---------------------------
(***************************************************************************)
(* What the runs of MCIdentity check of each component, for every value of *)
(* the constants.  A component has an inductive invariant of its own; the  *)
(* steps of the others leave its variables alone.                          *)
(***************************************************************************)
EXTENDS MCIdentity, FiniteSetTheorems, TLAPS

-----------------------------------------------------------------------------
(* LoginLimit *)

LogTypes ==
  /\ attempts \in [Log!Store -> Nat] /\ slips \in [Log!Store -> Nat]
  /\ DOMAIN login = Login

LEMMA LogCardinality == \A S : Log!Cardinality(S) = Cardinality(S)
  BY Zenon DEF Log!Cardinality, Cardinality, IsFiniteSet

LogInv == LogTypes /\ Log!FailuresAreBounded

\* Logins that compare are logins; one that ends is one fewer.
LEMMA ComparingBound ==
  ASSUME NEW s
  PROVE  IsFiniteSet(Log!Comparing(s)) /\ Cardinality(Log!Comparing(s)) \in Nat
         /\ Cardinality(Login) \in Nat /\ Cardinality(Log!Comparing(s)) <= Cardinality(Login)
<1>1. Log!Comparing(s) \in SUBSET Login
  BY DEF Log!Comparing
<1> QED
  BY <1>1, IdentityAssumption, FS_Subset, FS_CardinalityType

LEMMA LogInvInit == AllInit => LogInv
<1> SUFFICES ASSUME AllInit PROVE LogInv
  OBVIOUS
<1>1. Log!Init
  BY DEF AllInit
<1>2. LogTypes
  BY <1>1 DEF Log!Init, LogTypes
<1>3. ASSUME NEW s \in Log!Store PROVE Log!Comparing(s) = {}
  BY <1>1 DEF Log!Init, Log!NoLogin, Log!Comparing
<1>4. Log!FailuresAreBounded
  <2> SUFFICES ASSUME NEW s \in Log!Store
               PROVE  attempts[s] + Cardinality(Log!Comparing(s))
                        <= MaxAttempts - 1 + Cardinality(Login) + slips[s]
    BY LogCardinality DEF Log!FailuresAreBounded
  <2>1. Cardinality(Log!Comparing(s)) = 0
    BY <1>3, FS_EmptySet
  <2> QED
    BY <1>1, <2>1, ComparingBound, IdentityAssumption DEF Log!Init
<1> QED
  BY <1>2, <1>4 DEF LogInv

\* A login ends: it no longer compares in the store that had let it pass.
LEMMA ComparisonEnds ==
  ASSUME LogTypes, NEW q \in Login, login[q].at = "compares",
         login' = [login EXCEPT ![q] = Log!NoLogin], NEW s
  PROVE  Cardinality(Log!Comparing(s)') =
           Cardinality(Log!Comparing(s)) - (IF login[q].by = s THEN 1 ELSE 0)
<1>1. Log!Comparing(s)' = Log!Comparing(s) \ {q}
  BY DEF LogTypes, Log!Comparing, Log!NoLogin
<1>2. q \in Log!Comparing(s) <=> login[q].by = s
  BY DEF Log!Comparing
<1> QED
  <2>1. Cardinality(Log!Comparing(s) \ {q}) = IF q \in Log!Comparing(s)
          THEN Cardinality(Log!Comparing(s)) - 1 ELSE Cardinality(Log!Comparing(s))
    BY ComparingBound, FS_RemoveElement
  <2> QED
    BY <2>1, <1>1, <1>2, ComparingBound

LEMMA LogInvStep == LogInv /\ [Log!Next]_(Log!vars) => LogInv'
<1> SUFFICES ASSUME LogInv, [Log!Next]_(Log!vars) PROVE LogInv'
  OBVIOUS
<1> DEFINE Bound(s) == attempts[s] + Cardinality(Log!Comparing(s))
                         <= MaxAttempts - 1 + Cardinality(Login) + slips[s]
<1> USE IdentityAssumption
<1>1. \A s \in Log!Store : Bound(s) /\ attempts[s] \in Nat /\ slips[s] \in Nat
  BY LogCardinality DEF LogInv, LogTypes, Log!FailuresAreBounded
<1>2. \A s : /\ Cardinality(Log!Comparing(s)) \in Nat /\ Cardinality(Login) \in Nat
             /\ Cardinality(Log!Comparing(s)) <= Cardinality(Login)
  BY ComparingBound
<1>3. \A s : /\ Cardinality(Log!Comparing(s)') \in Nat
             /\ Cardinality(Log!Comparing(s)') <= Cardinality(Login)
  <2> SUFFICES ASSUME NEW s
               PROVE  /\ Cardinality(Log!Comparing(s)') \in Nat
                      /\ Cardinality(Log!Comparing(s)') <= Cardinality(Login)
    OBVIOUS
  <2>1. Log!Comparing(s)' \in SUBSET Login
    BY DEF Log!Comparing
  <2> QED
    BY <2>1, FS_Subset, FS_CardinalityType
<1>4. SUFFICES LogTypes' /\ \A s \in Log!Store : Bound(s)'
  BY LogCardinality DEF LogInv, Log!FailuresAreBounded
<1>5. ASSUME NEW q \in Login, NEW server \in Server, NEW s \in Log!Store,
             Log!CheckRateLimit(q, server, s)
      PROVE  LogTypes' /\ \A t \in Log!Store : Bound(t)'
  <2>1. attempts[s] < MaxAttempts
    BY <1>1, <1>5 DEF Log!CheckRateLimit, Log!IsLimited
  <2>2. LogTypes'
    BY <1>5 DEF LogInv, LogTypes, Log!CheckRateLimit
  <2>3. ASSUME NEW t \in Log!Store, t # s PROVE Log!Comparing(t)' = Log!Comparing(t)
    BY <1>5, <2>3 DEF LogInv, LogTypes, Log!Comparing, Log!CheckRateLimit
  <2>4. attempts' = attempts /\ slips' = slips
    BY <1>5 DEF Log!CheckRateLimit
  <2>5. Bound(s)'
    BY <2>1, <2>4, <1>1, <1>2, <1>3
  <2>6. ASSUME NEW t \in Log!Store, t # s PROVE Bound(t)'
    BY <2>3, <2>4, <2>6, <1>1
  <2> QED
    BY <2>2, <2>5, <2>6
<1>6. ASSUME NEW q \in Login, NEW s \in Log!Store, Log!RecordFailedAttempt(q, s)
      PROVE  LogTypes' /\ \A t \in Log!Store : Bound(t)'
  <2>1. LogTypes'
    BY <1>6 DEF LogInv, LogTypes, Log!RecordFailedAttempt
  <2>2. \A t : Cardinality(Log!Comparing(t)') =
                 Cardinality(Log!Comparing(t)) - (IF login[q].by = t THEN 1 ELSE 0)
    BY <1>6, ComparisonEnds DEF LogInv, Log!RecordFailedAttempt
  <2>3. ASSUME NEW t \in Log!Store PROVE Bound(t)'
    <3>1. attempts'[t] = IF t = s THEN attempts[t] + 1 ELSE attempts[t]
      BY <1>6 DEF LogInv, LogTypes, Log!RecordFailedAttempt
    <3>2. slips'[t] = IF t = s /\ login[q].by # t THEN slips[t] + 1 ELSE slips[t]
      BY <1>6 DEF LogInv, LogTypes, Log!RecordFailedAttempt
    <3> QED
      BY <3>1, <3>2, <2>2, <1>1, <1>2, <1>3
  <2> QED
    BY <2>1, <2>3
<1>7. ASSUME NEW q \in Login, NEW s \in Log!Store, Log!ClearFailedAttempts(q, s)
      PROVE  LogTypes' /\ \A t \in Log!Store : Bound(t)'
  <2>1. LogTypes'
    BY <1>7 DEF LogInv, LogTypes, Log!ClearFailedAttempts
  <2>2. \A t : Cardinality(Log!Comparing(t)') =
                 Cardinality(Log!Comparing(t)) - (IF login[q].by = t THEN 1 ELSE 0)
    BY <1>7, ComparisonEnds DEF LogInv, Log!ClearFailedAttempts
  <2>3. ASSUME NEW t \in Log!Store PROVE Bound(t)'
    <3>1. /\ attempts'[t] = IF t = s THEN 0 ELSE attempts[t]
          /\ slips'[t] = IF t = s THEN 0 ELSE slips[t]
      BY <1>7 DEF LogInv, LogTypes, Log!ClearFailedAttempts
    <3> QED
      BY <3>1, <2>2, <1>1, <1>2, <1>3
  <2> QED
    BY <2>1, <2>3
<1>8. ASSUME NEW s \in Log!Store, Log!AttemptExpires(s)
      PROVE  LogTypes' /\ \A t \in Log!Store : Bound(t)'
  <2>1. LogTypes'
    BY <1>8 DEF LogInv, LogTypes, Log!AttemptExpires
  <2>2. \A t : Log!Comparing(t)' = Log!Comparing(t)
    BY <1>8 DEF Log!Comparing, Log!AttemptExpires
  <2>3. ASSUME NEW t \in Log!Store PROVE Bound(t)'
    <3>1. /\ attempts[s] > 0
          /\ attempts'[t] = IF t = s THEN attempts[t] - 1 ELSE attempts[t]
          /\ slips'[t] = IF t = s /\ attempts[t] = 1 THEN 0 ELSE slips[t]
      BY <1>8 DEF LogInv, LogTypes, Log!AttemptExpires
    <3> QED
      BY <3>1, <2>2, <1>1, <1>2
  <2> QED
    BY <2>1, <2>3
<1>9. ASSUME UNCHANGED <<attempts, login, slips>>
      PROVE  LogTypes' /\ \A t \in Log!Store : Bound(t)'
  BY <1>9, <1>1 DEF LogInv, LogTypes, Log!Comparing
<1> QED
  BY <1>5, <1>6, <1>7, <1>8, <1>9
     DEF Log!Next, Log!LoginStep, Log!Refuse, Log!vars

-----------------------------------------------------------------------------
(* RequestLimit *)

Holding == {q \in Login : call[q] # 0}
HoldingReplaced == {q \in Login : call[q] \notin {0, limiter}}
Available == IF limiter = 0 THEN BurstSize ELSE tokens[limiter]

RateTypes ==
  /\ limiter \in Rate!Bucket \cup {0}
  /\ tokens \in [Rate!Bucket -> 0 .. BurstSize]
  /\ call \in [Login -> Rate!Bucket \cup {0}]
  /\ sweep \in [at : {"sleeps", "found", "checks", "deletes"}, bucket : Rate!Bucket \cup {0}]
  /\ spent \in Nat

(* A request holds a bucket or not; what is let pass comes from the bucket  *)
(* of the map, or is one of those that hold a replaced bucket.  While the   *)
(* map is locked, what the sweep forgets was taken by requests that held a  *)
(* bucket when it was found full.                                           *)
RateInv ==
  /\ RateTypes
  /\ spent + Available + Cardinality(HoldingReplaced) <= BurstSize + Cardinality(Login)
  /\ sweep.at = "deletes" =>
       /\ limiter # 0
       /\ BurstSize - tokens[limiter] + Cardinality(Holding) <= Cardinality(Login)

LEMMA RateCardinality == \A S : Rate!Cardinality(S) = Cardinality(S)
  BY Zenon DEF Rate!Cardinality, Cardinality, IsFiniteSet

LEMMA CallersBound ==
  ASSUME NEW S \in SUBSET Login
  PROVE  /\ IsFiniteSet(S) /\ Cardinality(S) \in Nat /\ Cardinality(Login) \in Nat
         /\ Cardinality(S) <= Cardinality(Login)
         /\ \A q \in S : Cardinality(S \ {q}) = Cardinality(S) - 1
  BY IdentityAssumption, FS_Subset, FS_CardinalityType, FS_RemoveElement

\* A request without a bucket, and no bucket in the map: some bucket is free.
LEMMA BucketIsFree ==
  ASSUME RateTypes, limiter = 0, NEW q \in Login, call[q] = 0
  PROVE  \E b \in Rate!Bucket : b \notin Rate!InUse
<1> DEFINE Taken == {call[p] : p \in Login}
<1>1. call \in Surjection(Login, Taken)
  BY DEF RateTypes, Surjection
<1>2. IsFiniteSet(Taken) /\ Cardinality(Taken) <= Cardinality(Login)
  BY <1>1, IdentityAssumption, FS_Surjection
<1>3. Rate!InUse = Taken \cup {sweep.bucket}
  BY DEF Rate!InUse
<1> HIDE DEF Taken
<1>4. /\ IsFiniteSet(Rate!InUse)
      /\ Cardinality(Rate!InUse) \in Nat
      /\ Cardinality(Rate!InUse) <= Cardinality(Login) + 1
  <2>1. Cardinality(Taken) \in Nat /\ Cardinality(Login) \in Nat
    BY <1>2, IdentityAssumption, FS_CardinalityType
  <2>2. /\ IsFiniteSet(Taken \cup {sweep.bucket})
        /\ Cardinality(Taken \cup {sweep.bucket}) =
             IF sweep.bucket \in Taken THEN Cardinality(Taken) ELSE Cardinality(Taken) + 1
    BY <1>2, FS_AddElement
  <2> QED
    BY <1>2, <1>3, <2>1, <2>2
<1>5. Cardinality(Rate!Bucket) = Cardinality(Login) + 2
  <2>1. Cardinality(Login) \in Nat
    BY IdentityAssumption, FS_CardinalityType
  <2>2. Cardinality(1 .. Cardinality(Login) + 2) = Cardinality(Login) + 2
    BY <2>1, FS_Interval
  <2> QED
    BY <2>2, RateCardinality DEF Rate!Bucket
<1>6. SUFFICES ASSUME Rate!Bucket \subseteq Rate!InUse PROVE FALSE
  OBVIOUS
<1>7. Cardinality(Rate!Bucket) <= Cardinality(Rate!InUse)
  BY <1>4, <1>6, FS_Subset
<1> QED
  BY <1>4, <1>5, <1>7, IdentityAssumption, FS_CardinalityType

LEMMA RateInvInit == AllInit => RateInv
<1> SUFFICES ASSUME AllInit PROVE RateInv
  OBVIOUS
<1>1. Rate!Init
  BY DEF AllInit
<1>2. RateTypes
  BY <1>1, IdentityAssumption DEF Rate!Init, RateTypes
<1>3. HoldingReplaced = {}
  BY <1>1 DEF Rate!Init, HoldingReplaced
<1>4. Cardinality(HoldingReplaced) = 0
  BY <1>3, FS_EmptySet
<1> QED
  BY <1>1, <1>2, <1>4, IdentityAssumption, FS_CardinalityType
     DEF Rate!Init, RateInv, Available

LEMMA RateInvStep == RateInv /\ [Rate!Next]_(Rate!vars) => RateInv'
<1> SUFFICES ASSUME RateInv, [Rate!Next]_(Rate!vars) PROVE RateInv'
  OBVIOUS
<1> USE IdentityAssumption
<1>1. /\ Holding \in SUBSET Login /\ HoldingReplaced \in SUBSET Login
      /\ Holding' \in SUBSET Login /\ HoldingReplaced' \in SUBSET Login
  BY DEF Holding, HoldingReplaced
<1>2. /\ Cardinality(Login) \in Nat
      /\ \A S \in SUBSET Login : /\ Cardinality(S) \in Nat
                                 /\ Cardinality(S) <= Cardinality(Login)
                                 /\ \A q \in S : Cardinality(S \ {q}) = Cardinality(S) - 1
  <2>1. Login \in SUBSET Login
    OBVIOUS
  <2> QED
    BY <2>1, CallersBound
<1>3. RateTypes
  BY DEF RateInv
<1>4. ASSUME NEW q \in Login, Rate!GetLimiter(q) PROVE RateInv'
  <2>1. call[q] = 0 /\ sweep' = sweep /\ spent' = spent /\ sweep.at # "deletes"
    BY <1>4 DEF Rate!GetLimiter, Rate!MapIsLocked
  <2>2. CASE limiter # 0
    <3>1. /\ call' = [call EXCEPT ![q] = limiter]
          /\ limiter' = limiter /\ tokens' = tokens
      BY <1>4, <2>2 DEF Rate!GetLimiter
    <3>2. RateTypes'
      BY <2>1, <3>1, <1>3 DEF RateTypes
    <3>3. HoldingReplaced' = HoldingReplaced
      BY <2>1, <3>1, <1>3 DEF RateTypes, HoldingReplaced
    <3> QED
      BY <2>1, <3>1, <3>2, <3>3 DEF RateInv, Available
  <2>3. CASE limiter = 0
    <3> DEFINE b == CHOOSE b \in Rate!Bucket : b \notin Rate!InUse
    <3>1. b \in Rate!Bucket /\ b \notin Rate!InUse
      BY <2>1, <2>3, <1>3, BucketIsFree
    <3>2. /\ limiter' = b
          /\ call' = [call EXCEPT ![q] = b]
          /\ tokens' = [tokens EXCEPT ![b] = BurstSize]
      BY <1>4, <2>3 DEF Rate!GetLimiter
    <3> HIDE DEF b
    <3>3. b # 0 /\ \A p \in Login : call[p] # b
      BY <3>1, <2>3 DEF Rate!InUse
    <3>4. RateTypes'
      BY <2>1, <3>1, <3>2, <1>3 DEF RateTypes
    <3>5. HoldingReplaced' = HoldingReplaced
      BY <2>1, <2>3, <3>2, <3>3, <1>3 DEF RateTypes, HoldingReplaced
    <3>6. Available' = BurstSize /\ Available = BurstSize
      BY <2>3, <3>1, <3>2, <3>3, <1>3 DEF RateTypes, Available
    <3> QED
      BY <2>1, <3>4, <3>5, <3>6 DEF RateInv
  <2> QED
    BY <2>2, <2>3
<1>5. ASSUME NEW q \in Login, Rate!Allow(q) PROVE RateInv'
  <2>1. /\ call[q] # 0 /\ tokens[call[q]] > 0
        /\ tokens' = [tokens EXCEPT ![call[q]] = @ - 1]
        /\ spent' = spent + 1
        /\ call' = [call EXCEPT ![q] = 0]
        /\ limiter' = limiter /\ sweep' = sweep
    BY <1>5 DEF Rate!Allow
  <2>2. call[q] \in Rate!Bucket
    BY <2>1, <1>3 DEF RateTypes
  <2>3. RateTypes'
    BY <2>1, <2>2, <1>3 DEF RateTypes
  <2>4. Holding' = Holding \ {q} /\ q \in Holding
    BY <2>1, <1>3 DEF RateTypes, Holding
  <2>5. HoldingReplaced' = HoldingReplaced \ {q}
    BY <2>1, <1>3 DEF RateTypes, HoldingReplaced
  <2>6. Cardinality(Holding') = Cardinality(Holding) - 1
    BY <2>4, <1>1, <1>2
  <2>7. limiter # 0 => /\ tokens[limiter] \in Nat
                       /\ tokens'[limiter] = IF call[q] = limiter THEN tokens[limiter] - 1
                                                                 ELSE tokens[limiter]
    BY <2>1, <2>2, <1>3 DEF RateTypes
  <2>8. spent' + Available' + Cardinality(HoldingReplaced')
          <= BurstSize + Cardinality(Login)
    <3>1. spent + Available + Cardinality(HoldingReplaced) <= BurstSize + Cardinality(Login)
      BY DEF RateInv
    <3>2. CASE call[q] = limiter
      <4>1. q \notin HoldingReplaced
        BY <3>2 DEF HoldingReplaced
      <4>2. Cardinality(HoldingReplaced') = Cardinality(HoldingReplaced)
        BY <4>1, <2>5
      <4> QED
        BY <3>1, <3>2, <4>2, <2>1, <2>7, <1>1, <1>2, <1>3 DEF Available, RateTypes
    <3>3. CASE call[q] # limiter
      <4>1. q \in HoldingReplaced
        BY <2>1, <3>3 DEF HoldingReplaced
      <4>2. Cardinality(HoldingReplaced') = Cardinality(HoldingReplaced) - 1
        BY <4>1, <2>5, <1>1, <1>2
      <4> QED
        BY <3>1, <3>3, <4>2, <2>1, <2>7, <1>1, <1>2, <1>3 DEF Available, RateTypes
    <3> QED
      BY <3>2, <3>3
  <2>9. sweep'.at = "deletes" =>
          /\ limiter' # 0
          /\ BurstSize - tokens'[limiter'] + Cardinality(Holding') <= Cardinality(Login)
    BY <2>1, <2>6, <2>7, <1>1, <1>2 DEF RateInv
  <2> QED
    BY <2>3, <2>8, <2>9 DEF RateInv
<1>6. ASSUME NEW q \in Login, Rate!TooManyRequests(q) PROVE RateInv'
  <2>1. /\ call[q] # 0 /\ call' = [call EXCEPT ![q] = 0]
        /\ UNCHANGED <<limiter, tokens, sweep, spent>>
    BY <1>6 DEF Rate!TooManyRequests
  <2>2. RateTypes' /\ Available' = Available
    BY <2>1, <1>3 DEF RateTypes, Available
  <2>3. Holding' = Holding \ {q} /\ HoldingReplaced' = HoldingReplaced \ {q}
    BY <2>1, <1>3 DEF RateTypes, Holding, HoldingReplaced
  <2>4. /\ Cardinality(Holding') <= Cardinality(Holding)
        /\ Cardinality(HoldingReplaced') <= Cardinality(HoldingReplaced)
    <3>1. \A S \in SUBSET Login : Cardinality(S \ {q}) <= Cardinality(S)
      <4> SUFFICES ASSUME NEW S \in SUBSET Login PROVE Cardinality(S \ {q}) <= Cardinality(S)
        OBVIOUS
      <4> HIDE IdentityAssumption
      <4>1. Cardinality(S) \in Nat
        BY <1>2
      <4>2. CASE q \notin S
        <5>1. S \ {q} = S
          BY <4>2
        <5> QED
          BY <4>1, <5>1
      <4>3. CASE q \in S
        <5>1. Cardinality(S \ {q}) = Cardinality(S) - 1
          BY <4>3, <1>2
        <5> QED
          BY <4>1, <5>1
      <4> QED
        BY <4>2, <4>3
    <3> QED
      BY <2>3, <3>1, <1>1
  <2>5. limiter # 0 => tokens[limiter] \in Nat
    BY <1>3 DEF RateTypes
  <2> QED
    BY <2>1, <2>2, <2>4, <2>5, <1>1, <1>2, <1>3 DEF RateInv, RateTypes, Available
<1>7. ASSUME Rate!SweepStarts \/ Rate!SweepLocks \/ Rate!SweepRechecks PROVE RateInv'
  <2>1. UNCHANGED <<limiter, tokens, call, spent>>
    BY <1>7 DEF Rate!SweepStarts, Rate!SweepLocks, Rate!SweepRechecks
  <2>2. sweep'.at = "deletes" => limiter # 0 /\ tokens[limiter] = BurstSize
    BY <1>7, <1>3 DEF RateTypes, Rate!SweepStarts, Rate!SweepLocks, Rate!SweepRechecks
  <2>3. RateTypes'
    BY <1>7, <1>3 DEF RateTypes, Rate!SweepStarts, Rate!SweepLocks, Rate!SweepRechecks
  <2> QED
    BY <2>1, <2>2, <2>3, <1>1, <1>2
       DEF RateInv, RateTypes, Available, Holding, HoldingReplaced
<1>8. ASSUME Rate!SweepDeletes PROVE RateInv'
  <2>1. /\ sweep.at = "deletes" /\ limiter' = 0
        /\ spent' = BurstSize - tokens[limiter]
        /\ sweep' = [at |-> "sleeps", bucket |-> 0] /\ UNCHANGED <<tokens, call>>
    BY <1>8 DEF Rate!SweepDeletes
  <2>2. limiter # 0 /\ BurstSize - tokens[limiter] + Cardinality(Holding) <= Cardinality(Login)
    BY <2>1 DEF RateInv
  <2>3. HoldingReplaced' = Holding /\ Available' = BurstSize
    BY <2>1 DEF Holding, HoldingReplaced, Available
  <2>4. tokens[limiter] \in 0 .. BurstSize
    BY <2>2, <1>3 DEF RateTypes
  <2>5. RateTypes'
    BY <2>1, <2>4, <1>3 DEF RateTypes
  <2> QED
    BY <2>1, <2>2, <2>3, <2>4, <2>5, <1>1, <1>2 DEF RateInv
<1>9. ASSUME Rate!Refill PROVE RateInv'
  <2>1. /\ tokens' = [b \in Rate!Bucket |-> IF tokens[b] < BurstSize THEN tokens[b] + 1
                                                                   ELSE BurstSize]
        /\ spent' = IF spent > 0 THEN spent - 1 ELSE 0
        /\ UNCHANGED <<limiter, call, sweep>>
    BY <1>9 DEF Rate!Refill
  <2>2. RateTypes'
    BY <2>1, <1>3 DEF RateTypes
  <2>3. Holding' = Holding /\ HoldingReplaced' = HoldingReplaced
    BY <2>1 DEF Holding, HoldingReplaced
  <2>4. limiter # 0 => /\ tokens[limiter] \in 0 .. BurstSize
                       /\ tokens'[limiter] = IF tokens[limiter] < BurstSize
                                             THEN tokens[limiter] + 1 ELSE BurstSize
    BY <2>1, <1>3 DEF RateTypes
  <2>5. spent' + Available' + Cardinality(HoldingReplaced) <= BurstSize + Cardinality(Login)
    <3>1. /\ Available \in 0 .. BurstSize /\ Available' \in 0 .. BurstSize
          /\ Available' <= Available + 1
      BY <2>1, <2>4 DEF Available
    <3> QED
      BY <2>1, <3>1, <1>1, <1>2, <1>3 DEF RateInv, RateTypes
  <2>6. sweep.at = "deletes" => limiter # 0 /\ BurstSize - tokens'[limiter] + Cardinality(Holding)
                                             <= Cardinality(Login)
    BY <2>4, <1>1, <1>2 DEF RateInv
  <2> QED
    BY <2>1, <2>2, <2>3, <2>5, <2>6 DEF RateInv
<1>10. CASE UNCHANGED Rate!vars
  BY <1>10 DEF Rate!vars, RateInv, RateTypes, Available, Holding, HoldingReplaced
<1> QED
  BY <1>4, <1>5, <1>6, <1>7, <1>8, <1>9, <1>10 DEF Rate!Next

(* A window holds no more failures than the limit, but for logins that were *)
(* compared at once and failures another store had let pass; a user spends  *)
(* no more than the burst, but for requests that hold a replaced bucket.    *)
THEOREM LimitsAlwaysHold == AllSpec => []LimitsHold
<1>1. AllInit => LogInv /\ RateInv
  BY LogInvInit, RateInvInit
<1>2. LogInv /\ RateInv /\ [AllNext]_allVars => LogInv' /\ RateInv'
  <2>1. [AllNext]_allVars => [Log!Next]_(Log!vars) /\ [Rate!Next]_(Rate!vars)
    BY DEF AllNext, allVars, loginsVars, ratesVars, Log!vars, Rate!vars
  <2> QED
    BY <2>1, LogInvStep, RateInvStep
<1>3. LogInv /\ RateInv => LimitsHold
  <2> SUFFICES ASSUME LogInv, RateInv PROVE LimitsHold
    OBVIOUS
  <2>1. Cardinality(HoldingReplaced) \in Nat /\ Cardinality(Login) \in Nat
    BY CallersBound DEF HoldingReplaced
  <2>2. Available \in Nat
    BY IdentityAssumption DEF Available, RateInv, RateTypes
  <2>3. spent <= BurstSize + Cardinality(Login)
    BY <2>1, <2>2, IdentityAssumption DEF RateInv, RateTypes
  <2> QED
    BY <2>3, RateCardinality DEF LimitsHold, LogInv, Rate!BurstIsBounded
<1> QED
  BY <1>1, <1>2, <1>3, PTL DEF AllSpec

-----------------------------------------------------------------------------
(* Accounts *)

Generated == Replica \cup {"none"}
Presence == {"absent", "on", "off"}
ReplicaState ==
  [at : {"down", "mint", "key", "make", "generate", "set", "update", "load", "fill", "up"},
   boot : BOOLEAN, pw : Generated, key : Generated, ver : Nat,
   list : [Account -> Presence], mtime : Nat, loaded : Nat, setAt : Nat]

AccTypes ==
  /\ listed \in [Account -> Presence] /\ initial \in Generated
  /\ secret \in [made : BOOLEAN, key : Generated, pw : Generated, mtime : Nat, ver : Nat]
  /\ rep \in [Replica -> ReplicaState] /\ clock \in Nat
  /\ issued \in [Account -> Nat]

(* Who has a key has the one that is stored; who is about to store one      *)
(* stores it only if there still is none.                                   *)
KeyKept ==
  /\ secret.key # "none" => secret.made
  /\ \A r \in Replica :
       /\ rep[r].at \in {"set", "update", "load", "fill", "up"} =>
            secret.key # "none" /\ rep[r].key = secret.key
       /\ rep[r].at = "generate" =>
            /\ secret.made /\ rep[r].ver <= secret.ver
            /\ rep[r].ver = secret.ver => secret.key = "none"

(* Until it has set the password, a replica that starts has the one that    *)
(* the administrator can read.                                              *)
PasswordKept ==
  /\ Acc!SamePassword
  /\ \A r \in Replica :
       rep[r].at \in {"key", "make", "generate", "set", "update"} =>
         initial # "none" /\ rep[r].pw = initial

(* The stored time of the change only grows. *)
TimesKept ==
  /\ secret.mtime <= clock
  /\ \A r \in Replica : /\ rep[r].setAt <= secret.mtime
                        /\ rep[r].at = "up" => rep[r].setAt <= rep[r].mtime

AccInv == AccTypes /\ KeyKept /\ PasswordKept /\ TimesKept

LEMMA AccInvInit == AllInit => AccInv
<1> SUFFICES ASSUME Acc!Init PROVE AccInv
  BY DEF AllInit
<1>1. Acc!NoAccounts \in [Account -> Presence]
  BY DEF Acc!NoAccounts, Presence
<1>2. AccTypes
  BY <1>1 DEF Acc!Init, Acc!Down, AccTypes, ReplicaState, Generated
<1> QED
  BY <1>2 DEF Acc!Init, Acc!Down, AccInv, KeyKept, PasswordKept, TimesKept, Acc!SamePassword

\* A step of a replica is taken by it alone.
LEMMA AccReplicaStep ==
  ASSUME AccInv, NEW r \in Replica, Acc!StartStep(r)
  PROVE  AccInv'
<1> USE IdentityAssumption DEF AccInv
<1>1. /\ Acc!Down \in ReplicaState /\ Acc!Down.at = "down" /\ Acc!Down.setAt = 0
      /\ Acc!Down.pw = "none"
  BY DEF Acc!Down, Acc!NoAccounts, ReplicaState, Generated, Presence
<1>2. ASSUME Acc!Boot(r) PROVE AccInv'
  <2>1. AccTypes'
    BY <1>2, <1>1 DEF Acc!Boot, Acc!Calm, Acc!cluster, AccTypes, ReplicaState, Generated, Presence
  <2>2. KeyKept'
    BY <1>2, <1>1 DEF Acc!Boot, Acc!Calm, Acc!cluster, AccTypes, ReplicaState, KeyKept
  <2>3. PasswordKept'
    BY <1>2, <1>1 DEF Acc!Boot, Acc!Calm, Acc!cluster, AccTypes, ReplicaState, PasswordKept, Acc!SamePassword
  <2>4. TimesKept'
    BY <1>2, <1>1 DEF Acc!Boot, Acc!Calm, Acc!cluster, AccTypes, ReplicaState, TimesKept
  <2> QED
    BY <2>1, <2>2, <2>3, <2>4
<1>3. ASSUME Acc!CreateInitial(r) PROVE AccInv'
  <2>1. AccTypes'
    BY <1>3, <1>1 DEF Acc!CreateInitial, Acc!Exit, Acc!Calm, Acc!cluster, AccTypes, ReplicaState, Generated, Presence
  <2>2. secret' = secret /\ clock' = clock
    BY <1>3 DEF Acc!CreateInitial, Acc!Calm
  <2>3. \A p \in Replica :
          \/ rep'[p] = rep[p]
          \/ rep'[p].at = "down" /\ rep'[p].setAt = 0
          \/ /\ rep'[p].at = "key" /\ rep'[p].setAt = rep[p].setAt
             /\ rep'[p].pw = p /\ initial' = p
    BY <1>3, <1>1 DEF Acc!CreateInitial, Acc!Exit, AccTypes, ReplicaState
  <2>4. initial # "none" => initial' = initial
    BY <1>3 DEF Acc!CreateInitial
  <2>5. initial # "none" => \A p \in Replica : rep'[p] = rep[p] \/ rep'[p].at = "down"
    BY <1>3, <1>1 DEF Acc!CreateInitial, Acc!Exit, AccTypes
  <2>6. KeyKept'
    BY <2>2, <2>3 DEF KeyKept
  <2>7. PasswordKept'
    BY <2>2, <2>3, <2>4, <2>5 DEF PasswordKept, Acc!SamePassword
  <2>8. TimesKept'
    BY <2>2, <2>3 DEF TimesKept, AccTypes
  <2> QED
    BY <2>1, <2>6, <2>7, <2>8
<1>4. ASSUME Acc!ReadKey(r) PROVE AccInv'
  <2>1. AccTypes'
    BY <1>4, <1>1 DEF Acc!ReadKey, Acc!Calm, Acc!cluster, AccTypes, ReplicaState, Generated, Presence
  <2>2. KeyKept'
    BY <1>4, <1>1 DEF Acc!ReadKey, Acc!Calm, Acc!cluster, AccTypes, ReplicaState, KeyKept
  <2>3. PasswordKept'
    BY <1>4, <1>1 DEF Acc!ReadKey, Acc!Calm, Acc!cluster, AccTypes, ReplicaState, PasswordKept, Acc!SamePassword
  <2>4. TimesKept'
    BY <1>4, <1>1 DEF Acc!ReadKey, Acc!Calm, Acc!cluster, AccTypes, ReplicaState, TimesKept
  <2> QED
    BY <2>1, <2>2, <2>3, <2>4
<1>5. ASSUME Acc!CreateSecret(r) PROVE AccInv'
  <2>1. AccTypes'
    <3>1. secret' \in [made : BOOLEAN, key : Generated, pw : Generated, mtime : Nat, ver : Nat]
      BY <1>5 DEF Acc!CreateSecret, AccTypes, Generated
    <3>2. rep' \in [Replica -> ReplicaState]
      BY <1>5 DEF Acc!CreateSecret, Acc!Goes, AccTypes, ReplicaState
    <3> QED
      BY <3>1, <3>2, <1>5 DEF Acc!CreateSecret, Acc!Calm, AccTypes
  <2>2. KeyKept'
    BY <1>5, <1>1 DEF Acc!CreateSecret, Acc!Goes, Acc!Calm, Acc!cluster, AccTypes, ReplicaState, KeyKept
  <2>3. PasswordKept'
    BY <1>5, <1>1 DEF Acc!CreateSecret, Acc!Goes, Acc!Calm, Acc!cluster, AccTypes, ReplicaState, PasswordKept, Acc!SamePassword
  <2>4. TimesKept'
    BY <1>5, <1>1 DEF Acc!CreateSecret, Acc!Goes, Acc!Calm, Acc!cluster, AccTypes, ReplicaState, TimesKept
  <2> QED
    BY <2>1, <2>2, <2>3, <2>4
<1>6. ASSUME Acc!GenerateKey(r) PROVE AccInv'
  <2>1. AccTypes'
    BY <1>6, <1>1 DEF Acc!GenerateKey, Acc!Exit, Acc!Calm, Acc!cluster, AccTypes, ReplicaState, Generated, Presence
  <2>2. KeyKept'
    <3>1. CASE secret.ver = rep[r].ver
      <4>1. /\ rep[r].at = "generate"
            /\ secret' = [secret EXCEPT !.key = r, !.ver = @ + 1]
            /\ rep' = [rep EXCEPT ![r].key = r, ![r].ver = 0, ![r].at = "set"]
        BY <1>6, <3>1 DEF Acc!GenerateKey
      <4>2. secret.made /\ secret.key = "none" /\ r # "none"
        BY <4>1, <3>1 DEF KeyKept
      <4>3. secret'.made /\ secret'.key = r /\ secret'.ver = secret.ver + 1
        BY <4>1, <4>2 DEF AccTypes
      <4>4. \A p \in Replica : p # r => rep'[p] = rep[p]
        BY <4>1 DEF AccTypes
      <4>5. rep'[r].at = "set" /\ rep'[r].key = r
        BY <4>1 DEF AccTypes, ReplicaState
      <4>6. \A p \in Replica : rep[p].ver \in Nat /\ secret.ver \in Nat
        BY DEF AccTypes, ReplicaState
      <4> QED
        BY <4>2, <4>3, <4>4, <4>5, <4>6 DEF KeyKept
    <3>2. CASE secret.ver # rep[r].ver
      BY <1>6, <1>1, <3>2 DEF Acc!GenerateKey, Acc!Exit, AccTypes, KeyKept
    <3> QED
      BY <3>1, <3>2
  <2>3. PasswordKept'
    <3>1. secret'.pw = secret.pw /\ initial' = initial
      BY <1>6 DEF Acc!GenerateKey, AccTypes
    <3>2. \A p \in Replica :
            \/ rep'[p] = rep[p]
            \/ rep'[p].at = "down"
            \/ rep[p].at = "generate" /\ rep'[p].pw = rep[p].pw
      BY <1>6, <1>1 DEF Acc!GenerateKey, Acc!Exit, AccTypes, ReplicaState
    <3> QED
      BY <3>1, <3>2 DEF PasswordKept, Acc!SamePassword
  <2>4. TimesKept'
    <3>1. secret'.mtime = secret.mtime /\ clock' = clock
      BY <1>6 DEF Acc!GenerateKey, Acc!Calm, AccTypes
    <3>2. \A p \in Replica : \/ rep'[p] = rep[p]
                             \/ rep'[p].at # "up" /\ rep'[p].setAt \in {rep[p].setAt, 0}
      BY <1>6, <1>1 DEF Acc!GenerateKey, Acc!Exit, AccTypes, ReplicaState
    <3> QED
      BY <3>1, <3>2 DEF TimesKept, AccTypes
  <2> QED
    BY <2>1, <2>2, <2>3, <2>4
<1>7. ASSUME Acc!ReadForPassword(r) PROVE AccInv'
  <2>1. AccTypes'
    BY <1>7, <1>1 DEF Acc!ReadForPassword, Acc!Calm, Acc!cluster, AccTypes, ReplicaState, Generated, Presence
  <2>2. KeyKept'
    BY <1>7, <1>1 DEF Acc!ReadForPassword, Acc!Calm, Acc!cluster, AccTypes, ReplicaState, KeyKept
  <2>3. PasswordKept'
    BY <1>7, <1>1 DEF Acc!ReadForPassword, Acc!Calm, Acc!cluster, AccTypes, ReplicaState, PasswordKept, Acc!SamePassword
  <2>4. TimesKept'
    BY <1>7, <1>1 DEF Acc!ReadForPassword, Acc!Calm, Acc!cluster, AccTypes, ReplicaState, TimesKept
  <2> QED
    BY <2>1, <2>2, <2>3, <2>4
<1>8. ASSUME Acc!SetPassword(r) PROVE AccInv'
  <2>1. AccTypes'
    <3>1. secret' \in [made : BOOLEAN, key : Generated, pw : Generated, mtime : Nat, ver : Nat]
      <4>1. rep[r].pw \in Generated
        BY DEF AccTypes, ReplicaState
      <4>2. secret' = [secret EXCEPT !.pw = rep[r].pw, !.mtime = clock, !.ver = @ + 1]
        BY <1>8 DEF Acc!SetPassword
      <4>3. /\ secret'.made = secret.made /\ secret'.key = secret.key
            /\ secret'.pw = rep[r].pw /\ secret'.mtime = clock
            /\ secret'.ver = secret.ver + 1
            /\ secret' = [made |-> secret'.made, key |-> secret'.key, pw |-> secret'.pw,
                          mtime |-> secret'.mtime, ver |-> secret'.ver]
        BY <4>2 DEF AccTypes
      <4>4. /\ secret.made \in BOOLEAN /\ secret.key \in Generated /\ secret.ver + 1 \in Nat
            /\ clock \in Nat
        BY DEF AccTypes
      <4> QED
        BY <4>1, <4>3, <4>4
    <3>2. [rep[r] EXCEPT !.at = "load", !.ver = 0, !.setAt = clock] \in ReplicaState
      <4>1. rep[r] \in ReplicaState /\ clock \in Nat
        BY DEF AccTypes
      <4> QED
        BY <4>1 DEF ReplicaState
    <3>3. rep' = [rep EXCEPT ![r] = [rep[r] EXCEPT !.at = "load", !.ver = 0, !.setAt = clock]]
      BY <1>8 DEF Acc!SetPassword, AccTypes, ReplicaState
    <3>4. rep' \in [Replica -> ReplicaState]
      BY <3>2, <3>3 DEF AccTypes
    <3> QED
      BY <3>1, <3>4, <1>8 DEF Acc!SetPassword, Acc!Calm, Acc!cluster, AccTypes
  <2>2. KeyKept'
    BY <1>8, <1>1 DEF Acc!SetPassword, Acc!Calm, Acc!cluster, AccTypes, ReplicaState, KeyKept
  <2>3. PasswordKept'
    BY <1>8, <1>1 DEF Acc!SetPassword, Acc!Calm, Acc!cluster, AccTypes, ReplicaState, PasswordKept, Acc!SamePassword
  <2>4. TimesKept'
    BY <1>8, <1>1 DEF Acc!SetPassword, Acc!Calm, Acc!cluster, AccTypes, ReplicaState, TimesKept
  <2> QED
    BY <2>1, <2>2, <2>3, <2>4
<1>9. ASSUME Acc!SetPasswordFails(r) PROVE AccInv'
  <2>1. AccTypes'
    BY <1>9, <1>1 DEF Acc!SetPasswordFails, Acc!Goes, Acc!Calm, Acc!cluster, AccTypes, ReplicaState, Generated, Presence
  <2>2. KeyKept'
    BY <1>9, <1>1 DEF Acc!SetPasswordFails, Acc!Goes, Acc!Calm, Acc!cluster, AccTypes, ReplicaState, KeyKept
  <2>3. PasswordKept'
    BY <1>9, <1>1 DEF Acc!SetPasswordFails, Acc!Goes, Acc!Calm, Acc!cluster, AccTypes, ReplicaState, PasswordKept, Acc!SamePassword
  <2>4. TimesKept'
    BY <1>9, <1>1 DEF Acc!SetPasswordFails, Acc!Goes, Acc!Calm, Acc!cluster, AccTypes, ReplicaState, TimesKept
  <2> QED
    BY <2>1, <2>2, <2>3, <2>4
<1>10. ASSUME Acc!ReadList(r) PROVE AccInv'
  <2>1. AccTypes'
    <3>1. listed' \in [Account -> Presence]
      BY <1>10 DEF Acc!ReadList, AccTypes, Presence
    <3>2. [rep[r] EXCEPT !.at = "fill", !.list = listed'] \in ReplicaState
      <4>1. rep[r] \in ReplicaState /\ clock \in Nat
        BY DEF AccTypes
      <4> QED
        BY <4>1, <3>1 DEF ReplicaState
    <3>3. rep' = [rep EXCEPT ![r] = [rep[r] EXCEPT !.at = "fill", !.list = listed']]
      BY <1>10 DEF Acc!ReadList, AccTypes, ReplicaState
    <3>4. rep' \in [Replica -> ReplicaState]
      BY <3>2, <3>3 DEF AccTypes
    <3> QED
      BY <3>1, <3>4, <1>10 DEF Acc!ReadList, Acc!Calm, Acc!cluster, AccTypes
  <2>2. KeyKept'
    BY <1>10, <1>1 DEF Acc!ReadList, Acc!Calm, Acc!cluster, AccTypes, ReplicaState, KeyKept
  <2>3. PasswordKept'
    BY <1>10, <1>1 DEF Acc!ReadList, Acc!Calm, Acc!cluster, AccTypes, ReplicaState, PasswordKept, Acc!SamePassword
  <2>4. TimesKept'
    BY <1>10, <1>1 DEF Acc!ReadList, Acc!Calm, Acc!cluster, AccTypes, ReplicaState, TimesKept
  <2> QED
    BY <2>1, <2>2, <2>3, <2>4
<1>11. ASSUME Acc!Fill(r) PROVE AccInv'
  <2>1. AccTypes'
    <3>1. secret.pw \in Generated /\ secret.mtime \in Nat
      BY DEF AccTypes
    <3>2. [rep[r] EXCEPT !.at = "up", !.boot = FALSE, !.pw = secret.pw,
                         !.mtime = secret.mtime, !.loaded = clock] \in ReplicaState
      <4>1. rep[r] \in ReplicaState /\ clock \in Nat
        BY DEF AccTypes
      <4> QED
        BY <4>1, <3>1 DEF ReplicaState
    <3>3. rep' = [rep EXCEPT ![r] = [rep[r] EXCEPT !.at = "up", !.boot = FALSE, !.pw = secret.pw,
                                       !.mtime = secret.mtime, !.loaded = clock]]
      BY <1>11 DEF Acc!Fill, AccTypes, ReplicaState
    <3>4. rep' \in [Replica -> ReplicaState]
      BY <3>2, <3>3 DEF AccTypes
    <3> QED
      BY <3>1, <3>4, <1>11 DEF Acc!Fill, Acc!Calm, Acc!cluster, AccTypes
  <2>2. KeyKept'
    BY <1>11, <1>1 DEF Acc!Fill, Acc!Calm, Acc!cluster, AccTypes, ReplicaState, KeyKept
  <2>3. PasswordKept'
    BY <1>11, <1>1 DEF Acc!Fill, Acc!Calm, Acc!cluster, AccTypes, ReplicaState, PasswordKept, Acc!SamePassword
  <2>4. TimesKept'
    BY <1>11, <1>1 DEF Acc!Fill, Acc!Calm, Acc!cluster, AccTypes, ReplicaState, TimesKept
  <2> QED
    BY <2>1, <2>2, <2>3, <2>4
<1>12. ASSUME Acc!LoadFails(r) PROVE AccInv'
  <2>1. AccTypes'
    BY <1>12, <1>1 DEF Acc!LoadFails, Acc!Exit, Acc!Calm, Acc!cluster, AccTypes, ReplicaState, Generated, Presence
  <2>2. KeyKept'
    BY <1>12, <1>1 DEF Acc!LoadFails, Acc!Exit, Acc!Calm, Acc!cluster, AccTypes, ReplicaState, KeyKept
  <2>3. PasswordKept'
    BY <1>12, <1>1 DEF Acc!LoadFails, Acc!Exit, Acc!Calm, Acc!cluster, AccTypes, ReplicaState, PasswordKept, Acc!SamePassword
  <2>4. TimesKept'
    BY <1>12, <1>1 DEF Acc!LoadFails, Acc!Exit, Acc!Calm, Acc!cluster, AccTypes, ReplicaState, TimesKept
  <2> QED
    BY <2>1, <2>2, <2>3, <2>4
<1>13. ASSUME Acc!Crash(r) PROVE AccInv'
  <2>1. AccTypes'
    BY <1>13, <1>1 DEF Acc!Crash, Acc!Exit, Acc!Calm, Acc!cluster, AccTypes, ReplicaState, Generated, Presence
  <2>2. KeyKept'
    BY <1>13, <1>1 DEF Acc!Crash, Acc!Exit, Acc!Calm, Acc!cluster, AccTypes, ReplicaState, KeyKept
  <2>3. PasswordKept'
    BY <1>13, <1>1 DEF Acc!Crash, Acc!Exit, Acc!Calm, Acc!cluster, AccTypes, ReplicaState, PasswordKept, Acc!SamePassword
  <2>4. TimesKept'
    BY <1>13, <1>1 DEF Acc!Crash, Acc!Exit, Acc!Calm, Acc!cluster, AccTypes, ReplicaState, TimesKept
  <2> QED
    BY <2>1, <2>2, <2>3, <2>4
<1> QED
  BY <1>2, <1>3, <1>4, <1>5, <1>6, <1>7, <1>8, <1>9, <1>10, <1>11, <1>12, <1>13 DEF Acc!StartStep


LEMMA AccInvStep == AccInv /\ [Acc!Next]_(Acc!vars) => AccInv'
<1> SUFFICES ASSUME AccInv, [Acc!Next]_(Acc!vars) PROVE AccInv'
  OBVIOUS
<1>1. ASSUME UNCHANGED <<secret, initial, clock>>,
             listed' \in [Account -> Presence], issued' \in [Account -> Nat],
             \/ rep' = rep
             \/ \E r \in Replica : Acc!Goes(r, "up", "load")
      PROVE  AccInv'
  <2>1. /\ rep' \in [Replica -> ReplicaState]
        /\ \A r \in Replica : \/ rep'[r] = rep[r]
                              \/ /\ rep[r].at = "up" /\ rep'[r].at = "load"
                                 /\ rep'[r].key = rep[r].key /\ rep'[r].setAt = rep[r].setAt
    <3>1. ASSUME NEW r \in Replica, Acc!Goes(r, "up", "load")
          PROVE  /\ rep' \in [Replica -> ReplicaState]
                 /\ rep[r].at = "up" /\ rep'[r].at = "load"
                 /\ rep'[r].key = rep[r].key /\ rep'[r].setAt = rep[r].setAt
                 /\ \A p \in Replica : p # r => rep'[p] = rep[p]
      BY <3>1 DEF AccInv, AccTypes, ReplicaState, Acc!Goes
    <3> QED
      BY <1>1, <3>1 DEF AccInv, AccTypes
  <2> QED
    BY <1>1, <2>1
       DEF AccInv, AccTypes, KeyKept, PasswordKept, TimesKept, Acc!SamePassword
<1>2. ASSUME NEW r \in Replica, NEW n \in Account,
             Acc!MissesAccount(r, n) \/ Acc!AuthenticateLocal(r, n)
      PROVE  AccInv'
  BY <1>1, <1>2
     DEF AccInv, AccTypes, Acc!MissesAccount, Acc!AuthenticateLocal, Acc!Calm, Acc!cluster
<1>3. ASSUME NEW n, NEW to \in Presence, Acc!EditAccount(n, to) PROVE AccInv'
  BY <1>1, <1>3 DEF AccInv, AccTypes, Acc!EditAccount
<1>4. ASSUME Acc!Tick PROVE AccInv'
  BY <1>4 DEF AccInv, AccTypes, KeyKept, PasswordKept, TimesKept, Acc!SamePassword,
     Acc!Tick, Acc!cluster
<1>5. CASE UNCHANGED Acc!vars
  BY <1>1, <1>5 DEF AccInv, AccTypes, Acc!vars
<1> QED
  BY <1>2, <1>3, <1>4, <1>5, AccReplicaStep DEF Acc!Next, Presence

(* The signing key of replicas that are up is the stored one, the password  *)
(* in force is the one the administrator can read, and a replica that set   *)
(* it accepts no token issued before.                                       *)
THEOREM ReplicasAlwaysAgree == AllSpec => []ReplicasAgree
<1>1. AllInit => AccInv
  BY AccInvInit
<1>2. AccInv /\ [AllNext]_allVars => AccInv'
  <2>1. [AllNext]_allVars => [Acc!Next]_(Acc!vars)
    BY DEF AllNext, allVars, accountsVars, Acc!vars
  <2> QED
    BY <2>1, AccInvStep
<1>3. AccInv => ReplicasAgree
  <2> SUFFICES ASSUME AccInv
               PROVE  Acc!SameKey /\ Acc!SamePassword /\ Acc!OwnChangeRejects
    BY DEF ReplicasAgree
  <2>1. Acc!SameKey
    BY DEF AccInv, KeyKept, Acc!SameKey
  <2>2. Acc!SamePassword
    BY DEF AccInv, PasswordKept
  <2>3. ASSUME NEW r \in Replica, NEW iat \in {issued[adm]} \ {0},
               Acc!IsTokenValid(r, adm, iat)
        PROVE  iat >= rep[r].setAt
    <3>0. iat \in Nat
      BY IdentityAssumption DEF AccInv, AccTypes
    <3>1. rep[r].setAt <= rep[r].mtime /\ iat >= rep[r].mtime
      BY <2>3 DEF AccInv, TimesKept, Acc!IsTokenValid
    <3> QED
      BY <3>0, <3>1 DEF AccInv, AccTypes, ReplicaState
  <2> QED
    BY <2>1, <2>2, <2>3 DEF Acc!OwnChangeRejects
<1> QED
  BY <1>1, <1>2, <1>3, PTL DEF AllSpec

-----------------------------------------------------------------------------
(* Compliance *)

CompTypes ==
  /\ confirmations \in [Comp!Token -> Constraint \cup {None}] /\ last \in 0 .. MaxConfirmations
  /\ change \in [Login -> Comp!Calls \cup {None}]
  /\ uses \in [Comp!Token -> Nat]

(* A request that is past its reading of the constraint escalates only with *)
(* a token, and the token it read is for its constraint, or spent.          *)
ChangesKept ==
  \A q \in Login : change[q] # None =>
    /\ change[q].token <= last
    /\ change[q].at # "list" => change[q].of \in Constraint
    /\ change[q].at \in {"confirm", "consume"} => change[q].to = "deny"
    /\ change[q].at \in {"confirm", "consume", "write"} /\ change[q].to = "deny" =>
         change[q].token # 0
    /\ change[q].at = "consume" => confirmations[change[q].token] \in {change[q].of, None}

Confirmed(q, t) == /\ change[q] # None /\ change[q].at = "write"
                   /\ change[q].to = "deny" /\ change[q].token = t
HasRead(q, t) == change[q] # None /\ change[q].at = "consume" /\ change[q].token = t

(* A token that confirmed a change is gone; unless two requests had read    *)
(* it, one change is confirmed by it, and who has read it is the first.     *)
TokenSpent(t) ==
  /\ uses[t] # 0 => t <= last
  /\ uses[t] # 0 \/ (\E q \in Login : Confirmed(q, t)) => confirmations[t] = None
  /\ t \notin doubted =>
       /\ uses[t] <= 1
       /\ \A q \in Login : Confirmed(q, t) =>
            uses[t] = 0 /\ \A r \in Login \ {q} : ~Confirmed(r, t)
       /\ \A q \in Login : HasRead(q, t) => uses[t] = 0 /\ \A r \in Login : ~Confirmed(r, t)

CompInv ==
  /\ CompTypes /\ ChangesKept
  /\ \A t \in Comp!Token : TokenSpent(t)
  /\ ~unconfirmed /\ ~leaked

LEMMA CompInvInit == AllInit => CompInv
<1> SUFFICES ASSUME Comp!Init PROVE CompInv
  BY DEF AllInit
<1>1. CompTypes
  BY IdentityAssumption DEF Comp!Init, CompTypes
<1>2. \A q \in Login : change[q] = None
  BY DEF Comp!Init
<1>3. \A t \in Comp!Token : uses[t] = 0
  BY DEF Comp!Init
<1> QED
  BY <1>1, <1>2, <1>3 DEF CompInv, ChangesKept, TokenSpent, Confirmed, HasRead, Comp!Init

\* A request moves on and gives out or uses up no token: it had none to use.
LEMMA PlainChange ==
  ASSUME CompInv, NEW q \in Login, NEW c \in Comp!Calls \cup {None},
         change' = [change EXCEPT ![q] = c],
         UNCHANGED <<confirmations, last, uses, doubted>>,
         c # None => /\ c.token <= last
                     /\ c.at # "list" => c.of \in Constraint
                     /\ c.at \in {"confirm", "consume"} => c.to = "deny"
                     /\ c.at \in {"confirm", "consume", "write"} /\ c.to = "deny" => c.token # 0
                     /\ c.at = "consume" => confirmations[c.token] = c.of
                     /\ c.at # "write" \/ c.to # "deny"
  PROVE  CompTypes' /\ ChangesKept' /\ \A t \in Comp!Token : TokenSpent(t)'
<1> USE IdentityAssumption DEF CompInv
<1>1. CompTypes'
  BY DEF CompTypes
<1>2. change'[q] = c /\ \A p \in Login \ {q} : change'[p] = change[p]
  BY DEF CompTypes
<1>3. ChangesKept'
  BY <1>2 DEF ChangesKept
<1>4. ASSUME NEW t \in Comp!Token PROVE TokenSpent(t)'
  <2>1. \A p \in Login : Confirmed(p, t)' => Confirmed(p, t)
    BY <1>2 DEF Confirmed
  <2>2. \A p \in Login : HasRead(p, t)' => HasRead(p, t) \/ confirmations[t] \in Constraint
    BY <1>2 DEF HasRead
  <2>3. TokenSpent(t)
    BY <1>4
  <2> QED
    BY <2>1, <2>2, <2>3 DEF TokenSpent
<1> QED
  BY <1>1, <1>3, <1>4

LEMMA CompStepOf ==
  ASSUME CompInv, NEW q \in Login, NEW c, c = change[q],
         \/ Comp!BeginUpdate(q) \/ Comp!BeginCreate(q) \/ Comp!ReadConstraint(q)
         \/ Comp!ReadToken(q) \/ Comp!ConsumeToken(q) \/ Comp!WriteEnforcement(q)
         \/ Comp!CreateConstraint(q) \/ Comp!BeginList(q) \/ Comp!ListViolations(q)
         \/ Comp!Fail(q)
  PROVE  CompInv'
<1> USE IdentityAssumption DEF CompInv
<1>0. c # None => c \in Comp!Calls
  BY DEF CompTypes
<1>1. CASE Comp!BeginUpdate(q)
  <2>1. PICK k \in Constraint, a \in Comp!Action, t \in {0} \cup 1 .. last :
          Comp!Stay(q, [at |-> "get", of |-> k, to |-> a, token |-> t,
                        licensed |-> license = "valid"])
    BY <1>1 DEF Comp!BeginUpdate
  <2>2. UNCHANGED <<confirmations, last, uses, doubted, unconfirmed, leaked>>
    BY <1>1 DEF Comp!BeginUpdate, Comp!ghosts
  <2>3. t <= last /\ t \in 0 .. MaxConfirmations
    BY DEF CompTypes
  <2>4. [at |-> "get", of |-> k, to |-> a, token |-> t, licensed |-> license = "valid"] \in Comp!Calls
    BY <2>3 DEF Comp!Calls
  <2> QED
    BY <2>1, <2>2, <2>3, <2>4, PlainChange DEF Comp!Stay
<1>2. CASE Comp!BeginCreate(q)
  <2>1. PICK k \in Constraint, a \in Comp!Action :
          Comp!Stay(q, [at |-> "create", of |-> k, to |-> a, token |-> 0,
                        licensed |-> license = "valid"])
    BY <1>2 DEF Comp!BeginCreate
  <2>2. UNCHANGED <<confirmations, last, uses, doubted, unconfirmed, leaked>>
    BY <1>2 DEF Comp!BeginCreate, Comp!ghosts
  <2>3. 0 <= last
    BY DEF CompTypes
  <2>4. [at |-> "create", of |-> k, to |-> a, token |-> 0, licensed |-> license = "valid"] \in Comp!Calls
    BY DEF Comp!Calls
  <2> QED
    BY <2>1, <2>2, <2>3, <2>4, PlainChange DEF Comp!Stay
<1>3. CASE Comp!ReadConstraint(q)
  <2>1. /\ c \in Comp!Calls /\ c # None /\ c.at = "get"
        /\ UNCHANGED <<uses, doubted, unconfirmed, leaked>>
    BY <1>0, <1>3 DEF Comp!ReadConstraint, Comp!ghosts
  <2>2. c.token <= last /\ c.of \in Constraint /\ c.token \in Nat
    BY <2>1 DEF ChangesKept, Comp!Calls
  <2>3. CASE Comp!Finish(q) /\ UNCHANGED <<confirmations, last>>
    BY <2>1, <2>3, PlainChange DEF Comp!Finish, Comp!Stay
  <2>4. CASE /\ Comp!Stay(q, [c EXCEPT !.at = "write"]) /\ UNCHANGED <<confirmations, last>>
             /\ c.to # "deny"
    <3>1. [c EXCEPT !.at = "write"] \in Comp!Calls
      BY <2>1 DEF Comp!Calls
    <3> QED
      BY <2>1, <2>2, <2>4, <3>1, PlainChange DEF Comp!Stay, Comp!Calls
  <2>5. CASE /\ last < MaxConfirmations /\ last' = last + 1
             /\ confirmations' = [confirmations EXCEPT ![last + 1] = c.of] /\ Comp!Finish(q)
    <3>1. last + 1 \in Comp!Token /\ last + 1 > last
      BY <2>5 DEF CompTypes, Comp!Token
    <3>2. CompTypes'
      <4>1. confirmations' \in [Comp!Token -> Constraint \cup {None}]
        BY <2>2, <2>5 DEF CompTypes
      <4>2. last' \in 0 .. MaxConfirmations
        BY <2>5 DEF CompTypes
      <4>3. change' \in [Login -> Comp!Calls \cup {None}]
        BY <2>5 DEF CompTypes, Comp!Finish, Comp!Stay
      <4> QED
        BY <2>1, <4>1, <4>2, <4>3 DEF CompTypes
    <3>3. change'[q] = None /\ \A p \in Login \ {q} : change'[p] = change[p]
      BY <2>5 DEF CompTypes, Comp!Finish, Comp!Stay
    <3>4. \A t \in Comp!Token : t # last + 1 => confirmations'[t] = confirmations[t]
      BY <2>5 DEF CompTypes
    <3>5. \A p \in Login : change[p] # None => /\ change[p].token \in Nat
                                               /\ change[p].token <= last
                                               /\ change[p].token <= last'
      BY <2>5 DEF CompTypes, ChangesKept, Comp!Calls
    <3>6. ChangesKept'
      <4> SUFFICES ASSUME NEW p \in Login, change'[p] # None
                   PROVE  /\ change[p] # None /\ change'[p] = change[p]
                          /\ change[p].token <= last'
                          /\ change[p].at = "consume" =>
                               confirmations'[change[p].token] \in {change[p].of, None}
        BY DEF ChangesKept
      <4>1. change[p] # None /\ change'[p] = change[p]
        BY <3>3
      <4>2. change[p].at = "consume" => change[p].token \in Comp!Token /\ change[p].token # last + 1
        BY <4>1, <3>5 DEF ChangesKept, CompTypes, Comp!Calls, Comp!Token
      <4> QED
        BY <4>1, <4>2, <3>4, <3>5 DEF ChangesKept
    <3>7. ASSUME NEW t \in Comp!Token PROVE TokenSpent(t)'
      <4>1. \A p \in Login : /\ Confirmed(p, t)' => Confirmed(p, t) /\ t <= last
                             /\ HasRead(p, t)' => HasRead(p, t)
        BY <3>3, <3>5 DEF Confirmed, HasRead
      <4>2. uses[t] # 0 => t <= last
        BY DEF TokenSpent
      <4>3. t <= last => t # last + 1 /\ t <= last'
        BY <2>5 DEF CompTypes, Comp!Token
      <4> QED
        BY <2>1, <3>4, <4>1, <4>2, <4>3 DEF TokenSpent
    <3> QED
      BY <2>1, <3>2, <3>6, <3>7
  <2>6. CASE /\ c.to = "deny" /\ c.token # 0
             /\ Comp!Stay(q, [c EXCEPT !.at = "confirm"]) /\ UNCHANGED <<confirmations, last>>
    <3>1. [c EXCEPT !.at = "confirm"] \in Comp!Calls
      BY <2>1 DEF Comp!Calls
    <3> QED
      BY <2>1, <2>2, <2>6, <3>1, PlainChange DEF Comp!Stay, Comp!Calls
  <2> QED
    BY <1>3, <2>3, <2>4, <2>5, <2>6 DEF Comp!ReadConstraint, Comp!IsEscalation
<1>4. CASE Comp!ReadToken(q)
  <2>1. /\ c \in Comp!Calls /\ c # None /\ c.at = "confirm"
        /\ UNCHANGED <<confirmations, last, uses, doubted, unconfirmed, leaked>>
    BY <1>0, <1>4 DEF Comp!ReadToken, Comp!ghosts
  <2>2. CASE Comp!Finish(q)
    BY <2>1, <2>2, PlainChange DEF Comp!Finish, Comp!Stay
  <2>3. CASE confirmations[c.token] = c.of /\ Comp!Stay(q, [c EXCEPT !.at = "consume"])
    <3>1. [c EXCEPT !.at = "consume"] \in Comp!Calls
      BY <2>1 DEF Comp!Calls
    <3>2. c.token <= last /\ c.of \in Constraint /\ c.to = "deny" /\ c.token # 0
      BY <2>1 DEF ChangesKept
    <3> QED
      BY <2>1, <2>3, <3>1, <3>2, PlainChange DEF Comp!Stay, Comp!Calls
  <2> QED
    BY <1>4, <2>2, <2>3 DEF Comp!ReadToken
<1>5. CASE Comp!ConsumeToken(q)
  <2> DEFINE t == c.token
  <2>1. /\ c \in Comp!Calls /\ c # None /\ c.at = "consume"
        /\ UNCHANGED <<last, uses, unconfirmed, leaked>>
        /\ confirmations' = [confirmations EXCEPT ![t] = None]
        /\ doubted' = IF \E r \in Login \ {q} : HasRead(r, t) THEN doubted \cup {t} ELSE doubted
        /\ change' = [change EXCEPT ![q] = [c EXCEPT !.at = "write"]]
    BY <1>0, <1>5 DEF Comp!ConsumeToken, Comp!Stay, HasRead
  <2>2. /\ t <= last /\ c.of \in Constraint /\ c.to = "deny" /\ t # 0 /\ t \in Comp!Token
    BY <2>1 DEF ChangesKept, Comp!Calls, Comp!Token
  <2>3. /\ [c EXCEPT !.at = "write"] \in Comp!Calls
        /\ [c EXCEPT !.at = "write"].token = t /\ [c EXCEPT !.at = "write"].of = c.of
        /\ [c EXCEPT !.at = "write"].to = "deny" /\ [c EXCEPT !.at = "write"].at = "write"
    BY <2>1, <2>2 DEF Comp!Calls
  <2>4. CompTypes'
    BY <2>1, <2>3 DEF CompTypes
  <2>5. change'[q] = [c EXCEPT !.at = "write"] /\ \A p \in Login \ {q} : change'[p] = change[p]
    BY <2>1 DEF CompTypes
  <2>6. \A s \in Comp!Token : confirmations'[s] = IF s = t THEN None ELSE confirmations[s]
    BY <2>1 DEF CompTypes
  <2>7. ChangesKept'
    <3> SUFFICES ASSUME NEW p \in Login \ {q}, change[p] # None, change[p].at = "consume"
                 PROVE  confirmations'[change[p].token] \in {change[p].of, None}
      BY <2>1, <2>2, <2>3, <2>5 DEF ChangesKept
    <3>1. change[p].token \in Comp!Token
      BY DEF ChangesKept, CompTypes, Comp!Calls, Comp!Token
    <3> QED
      BY <2>6, <3>1 DEF ChangesKept
  <2>8. ASSUME NEW s \in Comp!Token PROVE TokenSpent(s)'
    <3> HIDE DEF t
    <3>1. \A p \in Login \ {q} : Confirmed(p, s)' = Confirmed(p, s) /\ HasRead(p, s)' = HasRead(p, s)
      BY <2>5 DEF Confirmed, HasRead
    <3>2. ~HasRead(q, s)' /\ ~Confirmed(q, s) /\ (Confirmed(q, s)' => s = t)
      BY <2>1, <2>3, <2>5 DEF Confirmed, HasRead, t
    <3>3. HasRead(q, t)
      BY <2>1 DEF HasRead, t
    <3>4. TokenSpent(s) /\ s \in Nat /\ t \in Nat
      BY <2>2 DEF Comp!Token
    <3>5. CASE s = t
      <4>1. s <= last /\ confirmations'[s] = None /\ uses' = uses /\ last' = last
        BY <2>1, <2>2, <2>6, <3>5 DEF t
      <4>2. ASSUME s \notin doubted'
            PROVE  /\ uses[s] = 0 /\ s \notin doubted
                   /\ \A r \in Login \ {q} : ~HasRead(r, s) /\ ~Confirmed(r, s)
        BY <2>1, <3>3, <3>4, <3>5, <4>2 DEF TokenSpent, t
      <4> QED
        BY <3>1, <3>2, <4>1, <4>2 DEF TokenSpent
    <3>6. CASE s # t
      <4>1. confirmations'[s] = confirmations[s] /\ (s \in doubted' <=> s \in doubted)
        BY <2>1, <2>6, <3>6 DEF t
      <4>2. \A p \in Login : (Confirmed(p, s)' => Confirmed(p, s)) /\ (HasRead(p, s)' => HasRead(p, s))
        BY <3>1, <3>2, <3>6
      <4> QED
        BY <2>1, <3>4, <4>1, <4>2 DEF TokenSpent
    <3> QED
      BY <3>5, <3>6
  <2> QED
    BY <2>1, <2>4, <2>7, <2>8
<1>6. CASE Comp!WriteEnforcement(q)
  <2>1. /\ c \in Comp!Calls /\ c # None /\ c.at = "write"
        /\ change' = [change EXCEPT ![q] = None]
        /\ UNCHANGED <<confirmations, last, doubted, leaked>>
        /\ \/ UNCHANGED <<uses, unconfirmed>>
           \/ /\ uses' = IF c.token = 0 \/ c.to # "deny" THEN uses
                         ELSE [uses EXCEPT ![c.token] = @ + 1]
              /\ unconfirmed' = (unconfirmed \/ (c.to = "deny" /\ c.token = 0))
    BY <1>0, <1>6 DEF Comp!WriteEnforcement, Comp!Finish, Comp!Stay, Comp!ghosts
  <2>2. c.to = "deny" => c.token # 0 /\ c.token \in Comp!Token /\ c.token <= last
    BY <2>1 DEF ChangesKept, Comp!Calls, Comp!Token
  <2>3. ~unconfirmed'
    BY <2>1, <2>2
  <2>4. CASE uses' = uses
    BY <2>1, <2>3, <2>4, PlainChange
  <2>5. CASE c.to = "deny" /\ uses' = [uses EXCEPT ![c.token] = @ + 1]
    <3>1. CompTypes'
      BY <2>1, <2>2, <2>5 DEF CompTypes
    <3>2. change'[q] = None /\ \A p \in Login \ {q} : change'[p] = change[p]
      BY <2>1 DEF CompTypes
    <3>3. ChangesKept'
      BY <2>1, <3>2 DEF ChangesKept
    <3>4. ASSUME NEW s \in Comp!Token PROVE TokenSpent(s)'
      <4>1. \A p \in Login \ {q} : Confirmed(p, s)' = Confirmed(p, s) /\ HasRead(p, s)' = HasRead(p, s)
        BY <3>2 DEF Confirmed, HasRead
      <4>2. ~Confirmed(q, s)' /\ ~HasRead(q, s)'
        BY <3>2 DEF Confirmed, HasRead
      <4>3. uses'[s] = IF s = c.token THEN uses[s] + 1 ELSE uses[s]
        BY <2>5 DEF CompTypes
      <4>4. s = c.token => Confirmed(q, s)
        BY <2>1, <2>5 DEF Confirmed
      <4>5. TokenSpent(s) /\ uses[s] \in Nat
        BY DEF CompTypes
      <4> QED
        BY <2>1, <2>2, <2>5, <4>1, <4>2, <4>3, <4>4, <4>5 DEF TokenSpent
    <3> QED
      BY <2>1, <2>3, <3>1, <3>3, <3>4
  <2> QED
    BY <2>1, <2>4, <2>5
<1>7. CASE \/ Comp!CreateConstraint(q) \/ Comp!ListViolations(q) \/ Comp!Fail(q)
  <2>1. /\ change' = [change EXCEPT ![q] = None]
        /\ UNCHANGED <<confirmations, last, uses, doubted, unconfirmed>>
    BY <1>7 DEF Comp!CreateConstraint, Comp!ListViolations, Comp!Fail, Comp!Finish,
       Comp!Stay, Comp!ghosts
  <2>2. ~leaked'
    BY <1>7 DEF Comp!CreateConstraint, Comp!ListViolations, Comp!Fail, Comp!ghosts, Comp!Shown
  <2> QED
    BY <2>1, <2>2, PlainChange
<1>8. CASE Comp!BeginList(q)
  <2>1. [at |-> "list", of |-> None, to |-> None, token |-> 0, licensed |-> TRUE] \in Comp!Calls
    BY DEF Comp!Calls
  <2>2. 0 <= last
    BY DEF CompTypes
  <2> QED
    BY <1>8, <2>1, <2>2, PlainChange DEF Comp!BeginList, Comp!Stay, Comp!ghosts
<1> QED
  BY <1>1, <1>2, <1>3, <1>4, <1>5, <1>6, <1>7, <1>8

LEMMA CompInvStep == CompInv /\ [Comp!Next]_(Comp!vars) => CompInv'
<1> SUFFICES ASSUME CompInv, [Comp!Next]_(Comp!vars) PROVE CompInv'
  OBVIOUS
<1>1. ASSUME UNCHANGED <<last, change, uses, doubted, unconfirmed, leaked>>,
             confirmations' \in [Comp!Token -> Constraint \cup {None}],
             \A t \in Comp!Token : confirmations'[t] \in {confirmations[t], None}
      PROVE  CompInv'
  <2>1. CompTypes'
    BY <1>1 DEF CompInv, CompTypes
  <2>2. ChangesKept'
    <3>1. \A q \in Login : change[q] # None /\ change[q].at = "consume" =>
            change[q].token \in Comp!Token
      BY DEF CompInv, ChangesKept, CompTypes, Comp!Calls, Comp!Token
    <3> QED
      BY <1>1, <3>1 DEF CompInv, ChangesKept
  <2>3. ASSUME NEW t \in Comp!Token PROVE TokenSpent(t)'
    BY <1>1, <2>3 DEF CompInv, TokenSpent, Confirmed, HasRead
  <2> QED
    BY <1>1, <2>1, <2>2, <2>3 DEF CompInv
<1>2. CASE Comp!Expire
  BY <1>1, <1>2 DEF CompInv, CompTypes, Comp!Expire, Comp!ghosts
<1>3. CASE Comp!Change \/ UNCHANGED Comp!vars
  BY <1>1, <1>3 DEF CompInv, CompTypes, Comp!Change, Comp!ghosts, Comp!vars
<1> QED
  BY <1>2, <1>3, CompStepOf DEF Comp!Next

(* Every update to deny was confirmed by a token for it, that only requests *)
(* which read it together use twice; who lost the permission sees the own   *)
(* namespaces only.                                                         *)
THEOREM DenialsStayConfirmed == AllSpec => []DenialsAreConfirmed
<1>1. AllInit => CompInv
  BY CompInvInit
<1>2. CompInv /\ [AllNext]_allVars => CompInv'
  <2>1. [AllNext]_allVars => [Comp!Next]_(Comp!vars)
    BY DEF AllNext, allVars, complianceVars, Comp!vars, Comp!ghosts
  <2> QED
    BY <2>1, CompInvStep
<1>3. CompInv => DenialsAreConfirmed
  BY DEF CompInv, CompTypes, ChangesKept, TokenSpent, DenialsAreConfirmed, Comp!DenyIsConfirmed,
     Comp!TokensAreSingleUse, Comp!TokenFitsChange, Comp!ShowsOwnNamespaces
<1> QED
  BY <1>1, <1>2, <1>3, PTL DEF AllSpec

-----------------------------------------------------------------------------
(* SsoProviders *)

Operation ==
  [at : {"writes", "drops", "credits", "undoes", "failed"}, kind : {"create", "update", "delete"},
   name : Name, cred : Store!Credentials, read : [Name -> Store!Conf], list : [Name -> Store!Conf]]

StoreTypes ==
  /\ configs \in [Name -> Store!Conf] /\ keys \in [Name -> SUBSET {"id", "secret"}]
  /\ op \in [Editor -> Operation \cup {Store!NoOp}]

\* Credentials of providers of the list only, and no secret of a public client.
Fits(cs, ks) ==
  \A n \in Name : /\ cs[n] = "absent" => ks[n] = {}
                  /\ cs[n] = "public" => "secret" \notin ks[n]

(* An operation that meets no other: what it has read is what it will put   *)
(* back, the credentials fit that until the last step, and the list that it *)
(* writes differs in its provider only.                                     *)
OperationKept(o, cs, ks) ==
  /\ Fits(o.read, ks)
  /\ \A n \in Name : n # o.name => o.list[n] = o.read[n]
  /\ o.kind = "delete" <=> o.list[o.name] = "absent"
  /\ o.kind = "create" => o.read[o.name] = "absent"
  /\ o.kind = "update" => o.read[o.name] # "absent"
  /\ o.at \in {"writes", "failed"} => cs = o.read
  /\ o.at \in {"drops", "credits", "undoes"} => cs = o.list
  /\ o.at = "drops" => o.kind = "update"
  /\ o.at = "credits" /\ o.list[o.name] = "public" => "secret" \notin ks[o.name]

StoreInv ==
  /\ StoreTypes
  /\ ~tangled =>
       /\ \A a \in Editor : op[a].at # "idle" =>
            /\ \A b \in Editor \ {a} : op[b].at = "idle"
            /\ OperationKept(op[a], configs, keys)
       /\ (\A a \in Editor : op[a].at = "idle") => Fits(configs, keys)

LEMMA StoreInvInit == AllInit => StoreInv
<1> SUFFICES ASSUME Store!Init PROVE StoreInv
  BY DEF AllInit
<1>1. PICK here \in SUBSET Name :
        /\ configs = [n \in Name |-> IF n \in here THEN "basic" ELSE "absent"]
        /\ keys = [n \in Name |-> IF n \in here THEN {"id", "secret"} ELSE {}]
  BY DEF Store!Init
<1>2. StoreTypes
  BY <1>1, IdentityAssumption DEF Store!Init, StoreTypes, Store!Conf
<1>3. Fits(configs, keys)
  BY <1>1 DEF Fits
<1> QED
  BY <1>2, <1>3 DEF Store!Init, Store!NoOp, StoreInv

\* An administrator ends or moves on: the others are as they were.
LEMMA StoreMoves ==
  ASSUME StoreInv, NEW a \in Editor, NEW o \in Operation \cup {Store!NoOp},
         op' = [op EXCEPT ![a] = o],
         configs' \in [Name -> Store!Conf], keys' \in [Name -> SUBSET {"id", "secret"}],
         ~tangled' => /\ ~tangled
                      /\ \A b \in Editor \ {a} : op[b].at = "idle"
                      /\ IF o = Store!NoOp THEN Fits(configs', keys') ELSE OperationKept(o, configs', keys')
  PROVE  StoreInv'
<1>1. StoreTypes'
  BY DEF StoreInv, StoreTypes
<1>2. op'[a] = o /\ \A b \in Editor \ {a} : op'[b] = op[b]
  BY DEF StoreInv, StoreTypes
<1>3. o # Store!NoOp => o.at # "idle"
  BY DEF Operation
<1>4. Store!NoOp.at = "idle"
  BY DEF Store!NoOp
<1> QED
  BY <1>1, <1>2, <1>3, <1>4 DEF StoreInv

LEMMA StoreInvStep == StoreInv /\ [Store!Next]_(Store!vars) => StoreInv'
<1> SUFFICES ASSUME StoreInv, [Store!Next]_(Store!vars) PROVE StoreInv'
  OBVIOUS
<1> USE IdentityAssumption
<1>1. ASSUME NEW a \in Editor, NEW kind \in {"create", "update", "delete"}, NEW n \in Name,
             NEW m \in Store!Conf, NEW cred \in Store!Credentials, Store!Begin(a, kind, n, m, cred),
             kind = "delete" <=> m = "absent",
             kind = "create" => configs[n] = "absent",
             kind # "create" => configs[n] # "absent"
      PROVE  StoreInv'
  <2> DEFINE o == [at |-> "writes", kind |-> kind, name |-> n, cred |-> cred,
                   read |-> configs, list |-> [configs EXCEPT ![n] = m]]
  <2>1. /\ op[a].at = "idle" /\ op' = [op EXCEPT ![a] = o]
        /\ tangled' = (tangled \/ Store!Busy # {})
        /\ configs' = configs /\ keys' = keys
    BY <1>1 DEF Store!Begin, Store!store
  <2>2. o \in Operation /\ o # Store!NoOp
    BY <1>1 DEF StoreInv, StoreTypes, Operation, Store!NoOp, Store!Conf
  <2>3. ~tangled' => ~tangled /\ \A b \in Editor : op[b].at = "idle"
    BY <2>1 DEF Store!Busy
  <2>4. ~tangled' => Fits(configs, keys)
    BY <2>3 DEF StoreInv
  <2>5. ~tangled' => OperationKept(o, configs', keys')
    BY <1>1, <2>1, <2>4 DEF OperationKept, StoreInv, StoreTypes, Fits
  <2>6. configs' \in [Name -> Store!Conf] /\ keys' \in [Name -> SUBSET {"id", "secret"}]
    BY <2>1 DEF StoreInv, StoreTypes
  <2> HIDE DEF o
  <2> QED
    BY <2>1, <2>2, <2>3, <2>5, <2>6, StoreMoves
<1>2. ASSUME NEW a \in Editor, op[a].at # "idle"
      PROVE  /\ op[a] \in Operation
             /\ ~tangled => /\ \A b \in Editor \ {a} : op[b].at = "idle"
                            /\ OperationKept(op[a], configs, keys)
  BY <1>2 DEF StoreInv, StoreTypes, Store!NoOp
<1>3. ASSUME NEW a \in Editor, Store!WriteConfigs(a) PROVE StoreInv'
  <2> DEFINE o == [op[a] EXCEPT !.at = IF op[a].kind = "update" /\ op[a].list[op[a].name] = "public"
                                       THEN "drops" ELSE "credits"]
  <2>1. /\ op[a].at = "writes" /\ configs' = op[a].list
        /\ op' = [op EXCEPT ![a] = o] /\ UNCHANGED <<keys, tangled>>
    BY <1>3 DEF Store!WriteConfigs
  <2>2. op[a] \in Operation
    BY <1>2, <2>1
  <2>3. o \in Operation /\ o # Store!NoOp
    BY <2>2 DEF Operation, Store!NoOp
  <2>4. ~tangled => OperationKept(o, configs', keys')
    <3> SUFFICES ASSUME ~tangled PROVE OperationKept(o, configs', keys')
      OBVIOUS
    <3>1. OperationKept(op[a], configs, keys)
      BY <1>2, <2>1
    <3>2. /\ o.kind = op[a].kind /\ o.name = op[a].name /\ o.list = op[a].list
          /\ o.read = op[a].read /\ o.name \in Name
          /\ o.at = IF o.kind = "update" /\ o.list[o.name] = "public" THEN "drops" ELSE "credits"
      BY <2>2 DEF Operation
    <3> HIDE DEF o
    <3>3. o.at = "credits" /\ o.list[o.name] = "public" => o.read[o.name] = "absent"
      BY <2>2, <3>1, <3>2 DEF OperationKept, Operation
    <3> QED
      BY <2>1, <3>1, <3>2, <3>3 DEF OperationKept, Fits
  <2>5. configs' \in [Name -> Store!Conf] /\ keys' \in [Name -> SUBSET {"id", "secret"}]
    BY <2>1, <2>2 DEF Operation, StoreInv, StoreTypes
  <2> HIDE DEF o
  <2> QED
    BY <1>2, <2>1, <2>3, <2>4, <2>5, StoreMoves
<1>4. ASSUME NEW a \in Editor, Store!DropSecretKey(a) PROVE StoreInv'
  <2> DEFINE o == [op[a] EXCEPT !.at = "credits"]
  <2>1. /\ op[a].at = "drops" /\ keys' = [keys EXCEPT ![op[a].name] = @ \ {"secret"}]
        /\ op' = [op EXCEPT ![a] = o] /\ UNCHANGED <<configs, tangled>>
    BY <1>4 DEF Store!DropSecretKey
  <2>2. op[a] \in Operation
    BY <1>2, <2>1
  <2>3. o \in Operation /\ o # Store!NoOp
    BY <2>2 DEF Operation, Store!NoOp
  <2>4. /\ o.kind = op[a].kind /\ o.name = op[a].name /\ o.list = op[a].list
        /\ o.read = op[a].read /\ o.name \in Name /\ o.at = "credits"
    BY <2>2 DEF Operation
  <2> HIDE DEF o
  <2>5. \A n \in Name : keys'[n] = IF n = o.name THEN keys[n] \ {"secret"} ELSE keys[n]
    BY <2>1, <2>4 DEF StoreInv, StoreTypes
  <2>6. ~tangled => OperationKept(o, configs', keys')
    <3> SUFFICES ASSUME ~tangled PROVE OperationKept(o, configs', keys')
      OBVIOUS
    <3>1. OperationKept(op[a], configs, keys)
      BY <1>2, <2>1
    <3>2. \A n \in Name : /\ keys[n] = {} => keys'[n] = {}
                          /\ "secret" \notin keys[n] => "secret" \notin keys'[n]
      BY <2>5
    <3>3. Fits(o.read, keys')
      BY <2>4, <3>1, <3>2 DEF OperationKept, Fits
    <3>4. "secret" \notin keys'[o.name]
      BY <2>4, <2>5
    <3> QED
      BY <2>1, <2>4, <3>1, <3>3, <3>4 DEF OperationKept
  <2>7. configs' \in [Name -> Store!Conf] /\ keys' \in [Name -> SUBSET {"id", "secret"}]
    BY <2>1 DEF StoreInv, StoreTypes
  <2> QED
    BY <1>2, <2>1, <2>3, <2>6, <2>7, StoreMoves
<1>5. ASSUME NEW a \in Editor, Store!Credit(a) PROVE StoreInv'
  <2> DEFINE o == op[a]
  <2>1. /\ o.at = "credits" /\ op' = [op EXCEPT ![a] = Store!NoOp]
        /\ UNCHANGED <<configs, tangled>>
        /\ \/ keys' = keys /\ o.kind # "delete"
           \/ keys' = [keys EXCEPT ![o.name] =
                         IF o.kind = "delete" THEN {} ELSE @ \cup Store!Given(a)]
    BY <1>5 DEF Store!Credit
  <2>2. o \in Operation
    BY <1>2, <2>1
  <2>3. /\ Store!Given(a) \in SUBSET {"id", "secret"}
        /\ o.list[o.name] = "public" => "secret" \notin Store!Given(a)
    BY <2>2 DEF Operation, Store!Given, Store!Credentials
  <2>4. o.name \in Name
    BY <2>2 DEF Operation
  <2>5. keys' \in [Name -> SUBSET {"id", "secret"}]
    BY <2>1, <2>3, <2>4 DEF StoreInv, StoreTypes
  <2>6. \A n \in Name : n # o.name => keys'[n] = keys[n]
    BY <2>1 DEF StoreInv, StoreTypes
  <2>7. /\ o.kind = "delete" => keys'[o.name] = {}
        /\ o.kind # "delete" => keys'[o.name] = keys[o.name] \/ keys'[o.name] = keys[o.name] \cup Store!Given(a)
    BY <2>1, <2>4 DEF StoreInv, StoreTypes
  <2>8. ~tangled => OperationKept(o, configs, keys) /\ \A b \in Editor \ {a} : op[b].at = "idle"
    BY <1>2, <2>1
  <2> HIDE DEF o
  <2>9. ~tangled => Fits(configs', keys')
    BY <2>1, <2>3, <2>4, <2>6, <2>7, <2>8 DEF OperationKept, Fits
  <2>10. configs' \in [Name -> Store!Conf]
    BY <2>1 DEF StoreInv, StoreTypes
  <2> QED
    BY <2>1, <2>5, <2>8, <2>9, <2>10, StoreMoves
<1>6. ASSUME NEW a \in Editor, NEW to \in {"undoes", "failed"},
             op[a].at # "idle", op' = [op EXCEPT ![a].at = to], keys' = keys,
             configs' \in {configs, op[a].read},
             tangled' = tangled \/ tangled' = TRUE,
             to = "failed" /\ ~tangled' => configs' = op[a].read,
             to = "undoes" => op[a].at \in {"drops", "credits"} /\ configs' = configs
      PROVE  StoreInv'
  <2> DEFINE o == [op[a] EXCEPT !.at = to]
  <2>1. op[a] \in Operation /\ op' = [op EXCEPT ![a] = o]
    BY <1>2, <1>6
  <2>2. o \in Operation /\ o # Store!NoOp
    BY <2>1 DEF Operation, Store!NoOp
  <2>3. /\ o.kind = op[a].kind /\ o.name = op[a].name /\ o.list = op[a].list
        /\ o.read = op[a].read /\ o.at = to
    BY <2>1 DEF Operation
  <2>4. ~tangled' => ~tangled /\ \A b \in Editor \ {a} : op[b].at = "idle"
    BY <1>2, <1>6
  <2>5. ~tangled' => OperationKept(op[a], configs, keys)
    BY <1>2, <1>6
  <2>6. ~tangled' => OperationKept(o, configs', keys')
    <3> HIDE DEF o
    <3> QED
      BY <1>6, <2>3, <2>5 DEF OperationKept, Fits
  <2>7. configs' \in [Name -> Store!Conf] /\ keys' \in [Name -> SUBSET {"id", "secret"}]
    BY <1>6, <2>1 DEF Operation, StoreInv, StoreTypes
  <2> HIDE DEF o
  <2> QED
    BY <2>1, <2>2, <2>4, <2>6, <2>7, StoreMoves
<1>7. ASSUME NEW a \in Editor, Store!AnswerFailure(a) PROVE StoreInv'
  <2>1. /\ op[a].at = "failed" /\ op' = [op EXCEPT ![a] = Store!NoOp]
        /\ UNCHANGED <<configs, keys, tangled>>
    BY <1>7 DEF Store!AnswerFailure, Store!store
  <2>2. ~tangled => /\ Fits(configs', keys') /\ \A b \in Editor \ {a} : op[b].at = "idle"
    BY <1>2, <2>1 DEF OperationKept, Fits
  <2> QED
    BY <2>1, <2>2, StoreMoves DEF StoreInv, StoreTypes
<1>8. ASSUME NEW a \in Editor,
             Store!WriteConfigsFails(a) \/ Store!SecretFails(a) \/ Store!RollBack(a) \/ Store!RollBackFails(a)
      PROVE  StoreInv'
  <2>1. CASE Store!WriteConfigsFails(a)
    <3>1. ~tangled => configs = op[a].read
      BY <1>2, <2>1 DEF Store!WriteConfigsFails, OperationKept
    <3> QED
      BY <1>6, <2>1, <3>1 DEF Store!WriteConfigsFails, Store!store
  <2>2. CASE Store!SecretFails(a)
    BY <1>6, <2>2 DEF Store!SecretFails, Store!store
  <2>3. CASE Store!RollBack(a)
    BY <1>6, <2>3 DEF Store!RollBack
  <2>4. CASE Store!RollBackFails(a)
    BY <1>6, <2>4 DEF Store!RollBackFails, Store!store
  <2> QED
    BY <1>8, <2>1, <2>2, <2>3, <2>4
<1>9. ASSUME NEW a \in Editor, NEW n \in Name, NEW m \in Method, NEW cred \in Store!Credentials,
             Store!CreateProvider(a, n, m, cred) \/ Store!UpdateProvider(a, n, m, cred)
      PROVE  StoreInv'
  <2>1. m \in Store!Conf /\ m # "absent"
    BY DEF Store!Conf
  <2> QED
    BY <1>1, <1>9, <2>1 DEF Store!CreateProvider, Store!UpdateProvider
<1>10. ASSUME NEW a \in Editor, NEW n \in Name, Store!DeleteProvider(a, n) PROVE StoreInv'
  <2>1. "absent" \in Store!Conf /\ {} \in Store!Credentials
    BY DEF Store!Conf, Store!Credentials
  <2> QED
    BY <1>1, <1>10, <2>1 DEF Store!DeleteProvider
<1>11. CASE UNCHANGED Store!vars
  BY <1>11 DEF Store!vars, StoreInv, StoreTypes, OperationKept, Fits
<1> QED
  BY <1>3, <1>4, <1>5, <1>7, <1>8, <1>9, <1>10, <1>11 DEF Store!Next, Store!AdminStep

LEMMA StoreIsUndone == StoreInv => Store!FailureIsUndone /\ Store!NoLeftoverCredentials
<1> SUFFICES ASSUME StoreInv PROVE Store!FailureIsUndone /\ Store!NoLeftoverCredentials
  OBVIOUS
<1>1. Store!FailureIsUndone
  BY DEF StoreInv, OperationKept, Store!FailureIsUndone
<1>2. Store!NoLeftoverCredentials
  BY DEF StoreInv, Fits, Store!Busy, Store!NoLeftoverCredentials
<1> QED
  BY <1>1, <1>2

-----------------------------------------------------------------------------
(* SsoWatcher *)

Described == Watcher!Merge(cmap, creds)
Works(i) == task[i].at # "idle"
HasReading(i) == task[i].at \in {"store", "reload"}
Watches == phase = "watching"
Unheard == pending["ConfigMap"] \/ pending["Secret"]

\* What a task is made of at each of its steps.
TaskShape(t) ==
  \/ t = Watcher!NoTask
  \/ t.at = "secret" /\ t = [at |-> "secret", cm |-> t.cm, lone |-> t.lone, fault |-> t.fault]
  \/ /\ t.at \in {"store", "reload"}
     /\ t = [at |-> t.at, got |-> t.got, lone |-> t.lone, fault |-> t.fault]

WatchTypes ==
  /\ phase \in {"wired", "watching", "stopped"}
  /\ pending \in [Watcher!Informer -> BOOLEAN]
  /\ DOMAIN task = Watcher!Informer
  /\ \A i \in Watcher!Informer :
       TaskShape(task[i]) /\ (Works(i) => task[i].lone \in BOOLEAN /\ task[i].fault \in BOOLEAN)

(* A task that runs alone works on what the objects describe now, or an     *)
(* event waits; one that does not, or whose reading failed, has a reason on *)
(* record that only a task that runs alone takes back.                      *)
TaskKept(i) ==
  /\ Works(i) /\ task[i].lone => \A j \in Watcher!Informer \ {i} : ~Works(j)
  /\ Works(i) /\ ~task[i].lone => why # {}
  /\ HasReading(i) /\ task[i].fault => why # {}
  /\ Watches /\ task[i].at = "secret" /\ task[i].lone =>
       task[i].cm = cmap \/ pending["ConfigMap"]
  /\ Watches /\ HasReading(i) /\ task[i].lone /\ ~task[i].fault =>
       task[i].got = Described \/ Unheard
  /\ task[i].at = "reload" /\ task[i].lone => lastValid = task[i].got

(* Without a reason on record, the providers in use are those of the last   *)
(* reading unless a task is about to load them, and the last reading is     *)
(* what the objects describe unless there is something to hear or to do.    *)
ReadingKept ==
  /\ phase # "watching" => ~Unheard
  /\ phase = "wired" => /\ \A i \in Watcher!Informer : ~Works(i)
                        /\ why = {} => loaded = Watcher!Accepted(Described)
  /\ Watches /\ why = {} /\ (\A i \in Watcher!Informer : task[i].at # "reload") =>
       loaded = Watcher!Accepted(lastValid)
  /\ Watches /\ why = {} /\ (\A i \in Watcher!Informer : ~Works(i)) /\ ~Unheard =>
       lastValid = Described

WatchInv ==
  /\ WatchTypes
  /\ \A i \in Watcher!Informer : TaskKept(i)
  /\ ReadingKept

LEMMA ShapesOfTasks ==
  /\ TaskShape(Watcher!NoTask) /\ Watcher!NoTask.at = "idle"
  /\ \A x, l, f : /\ TaskShape([at |-> "secret", cm |-> x, lone |-> l, fault |-> f])
                  /\ TaskShape([at |-> "store", got |-> x, lone |-> l, fault |-> f])
                  /\ TaskShape([at |-> "reload", got |-> x, lone |-> l, fault |-> f])
<1>1. TaskShape(Watcher!NoTask) /\ Watcher!NoTask.at = "idle"
  BY DEF TaskShape, Watcher!NoTask
<1>2. ASSUME NEW x, NEW l, NEW f
      PROVE  TaskShape([at |-> "secret", cm |-> x, lone |-> l, fault |-> f])
  BY DEF TaskShape
<1>3. ASSUME NEW x, NEW l, NEW f
      PROVE  /\ TaskShape([at |-> "store", got |-> x, lone |-> l, fault |-> f])
             /\ TaskShape([at |-> "reload", got |-> x, lone |-> l, fault |-> f])
  BY DEF TaskShape
<1> QED
  BY <1>1, <1>2, <1>3

LEMMA OverlapsMeans ==
  ASSUME NEW i \in Watcher!Informer
  PROVE  Watcher!Overlaps(i) <=> \E j \in Watcher!Informer \ {i} : Works(j)
<1>1. Watcher!Other(i) \in Watcher!Informer \ {i}
  BY DEF Watcher!Other, Watcher!Informer
<1>2. \A j \in Watcher!Informer \ {i} : j = Watcher!Other(i)
  BY <1>1 DEF Watcher!Informer
<1> QED
  BY <1>1, <1>2 DEF Watcher!Overlaps, Works

LEMMA WatchInvInit == AllInit => WatchInv
<1> SUFFICES ASSUME Watcher!Init PROVE WatchInv
  BY DEF AllInit
<1>1. /\ phase = "wired" /\ why = {} /\ pending = [i \in Watcher!Informer |-> FALSE]
      /\ task = [i \in Watcher!Informer |-> Watcher!NoTask]
      /\ loaded = Watcher!Accepted(Watcher!Merge(cmap, creds))
  BY DEF Watcher!Init
<1>2. \A i \in Watcher!Informer : task[i] = Watcher!NoTask /\ ~Works(i)
  BY <1>1 DEF Works, Watcher!NoTask
<1>3. ~Unheard
  BY <1>1 DEF Unheard, Watcher!Informer
<1> QED
  BY <1>1, <1>2, <1>3
     DEF WatchInv, WatchTypes, TaskShape, TaskKept, ReadingKept, Works, HasReading, Watches,
         Described, Watcher!NoTask

\* The objects change, or Start and Stop change what is heard.
LEMMA WatchOutside ==
  ASSUME WatchInv,
         \/ \E n, c : Watcher!EditConfigMap(n, c)
         \/ \E n, k : Watcher!EditSecret(n, k)
         \/ Watcher!DeleteConfigMap \/ Watcher!Start \/ Watcher!Stop
  PROVE  WatchInv'
<1> USE DEF WatchInv
<1>1. ASSUME NEW i \in Watcher!Informer, Watcher!Hear(i),
             UNCHANGED <<phase, task, lastValid, loaded>>,
             i = "Secret" => cmap' = cmap
      PROVE  WatchInv'
  <2>1. /\ pending' \in [Watcher!Informer -> BOOLEAN]
        /\ Watches => pending'[i] /\ \A j \in Watcher!Informer : pending[j] => pending'[j]
        /\ ~Watches => \A j \in Watcher!Informer : pending'[j] => pending[j]
        /\ why' = IF phase = "wired" THEN why \cup {"startup"} ELSE why
    BY <1>1 DEF Watcher!Hear, WatchTypes, Watches
  <2>2. /\ Watches => Unheard' /\ (Unheard => Unheard')
        /\ Watches /\ pending["ConfigMap"] => pending'["ConfigMap"]
        /\ ~Watches => (Unheard' => Unheard)
        /\ Watches /\ cmap' # cmap => pending'["ConfigMap"]
    BY <1>1, <2>1 DEF Unheard, Watcher!Informer
  <2>3. WatchTypes'
    BY <1>1, <2>1 DEF WatchTypes, Works
  <2>4. /\ why # {} => why' # {}
        /\ phase = "wired" => why' # {}
        /\ phase # "wired" => why' = why
    BY <2>1
  <2>5. ASSUME NEW j \in Watcher!Informer PROVE TaskKept(j)'
    BY <1>1, <2>2, <2>4, <2>5 DEF TaskKept, Works, HasReading, Watches
  <2>6. ReadingKept'
    BY <1>1, <2>2, <2>4 DEF ReadingKept, Works, Watches
  <2> QED
    BY <2>3, <2>5, <2>6
<1>2. CASE \E n, c : Watcher!EditConfigMap(n, c)
  BY <1>1, <1>2 DEF Watcher!EditConfigMap, Watcher!Informer
<1>3. CASE \E n, k : Watcher!EditSecret(n, k)
  BY <1>1, <1>3 DEF Watcher!EditSecret, Watcher!Informer
<1>4. CASE Watcher!DeleteConfigMap
  <2>1. /\ why' # {} /\ UNCHANGED <<phase, pending, lastValid, loaded>>
        /\ task' = [i \in Watcher!Informer |-> IF task[i].at = "idle" THEN Watcher!NoTask
                                               ELSE [task[i] EXCEPT !.lone = FALSE]]
    BY <1>4 DEF Watcher!DeleteConfigMap
  <2>2. ASSUME NEW i \in Watcher!Informer
        PROVE  /\ TaskShape(task'[i]) /\ task'[i].at = task[i].at
               /\ Works(i) => task'[i].lone = FALSE /\ task'[i].fault = task[i].fault
    <3>1. CASE ~Works(i)
      BY <2>1, <3>1, ShapesOfTasks DEF Works
    <3>2. CASE Works(i)
      <4>1. task'[i] = [task[i] EXCEPT !.lone = FALSE] /\ TaskShape(task[i])
        BY <2>1, <3>2 DEF Works, WatchTypes
      <4>2. task[i].at # "idle"
        BY <3>2 DEF Works
      <4>3. CASE task[i].at = "secret"
        <5>1. task[i] = [at |-> "secret", cm |-> task[i].cm, lone |-> task[i].lone,
                         fault |-> task[i].fault]
          BY <4>1, <4>3, ShapesOfTasks DEF TaskShape
        <5>2. task'[i] = [at |-> "secret", cm |-> task[i].cm, lone |-> FALSE,
                          fault |-> task[i].fault]
          <6> DEFINE c == task[i].cm
                     l == task[i].lone
                     f == task[i].fault
          <6>1. task'[i] = [[at |-> "secret", cm |-> c, lone |-> l, fault |-> f] EXCEPT !.lone = FALSE]
            BY <4>1, <5>1
          <6> HIDE DEF c, l, f
          <6>2. task'[i] = [at |-> "secret", cm |-> c, lone |-> FALSE, fault |-> f]
            BY <6>1
          <6> QED
            BY <6>2 DEF c, l, f
        <5>3. TaskShape(task'[i])
          BY <5>2, Zenon, ShapesOfTasks
        <5> QED
          BY <4>3, <5>2, <5>3
      <4>4. CASE task[i].at \in {"store", "reload"}
        <5>1. task[i] = [at |-> task[i].at, got |-> task[i].got, lone |-> task[i].lone,
                         fault |-> task[i].fault]
          BY <4>1, <4>4, ShapesOfTasks DEF TaskShape
        <5>2. task'[i] = [at |-> task[i].at, got |-> task[i].got, lone |-> FALSE,
                          fault |-> task[i].fault]
          BY <4>1, <5>1
        <5>3. TaskShape(task'[i])
          BY <4>4, <5>2, ShapesOfTasks
        <5> QED
          BY <4>4, <5>2, <5>3
      <4> QED
        BY <4>1, <4>2, <4>3, <4>4, ShapesOfTasks DEF TaskShape
    <3> QED
      BY <3>1, <3>2
  <2>3. WatchTypes'
    BY <2>1, <2>2 DEF WatchTypes, Works
  <2>4. ASSUME NEW i \in Watcher!Informer PROVE TaskKept(i)'
    BY <2>1, <2>2, <2>4 DEF TaskKept, Works, HasReading
  <2>5. ReadingKept'
    BY <2>1, <2>2 DEF ReadingKept, Works, Unheard
  <2> QED
    BY <2>3, <2>4, <2>5
<1>5. CASE Watcher!Start
  <2>1. /\ phase = "wired" /\ phase' = "watching" /\ lastValid' = Described
        /\ pending' = [i \in Watcher!Informer |-> TRUE]
        /\ UNCHANGED <<cmap, creds, task, loaded, why>>
    BY <1>5 DEF Watcher!Start, Watcher!store, Described
  <2>2. Unheard'
    BY <2>1 DEF Unheard, Watcher!Informer
  <2>3. Described' = Described
    BY <2>1 DEF Described
  <2> QED
    BY <2>1, <2>2, <2>3
       DEF WatchTypes, TaskKept, ReadingKept, Works, HasReading, Watches
<1>6. CASE Watcher!Stop
  <2>1. /\ phase' = "stopped" /\ pending' = [i \in Watcher!Informer |-> FALSE]
        /\ UNCHANGED <<cmap, creds, task, lastValid, loaded, why>>
    BY <1>6 DEF Watcher!Stop, Watcher!store
  <2>2. ~Unheard'
    BY <2>1 DEF Unheard, Watcher!Informer
  <2> QED
    BY <2>1, <2>2 DEF WatchTypes, TaskKept, ReadingKept, Works, HasReading, Watches
<1> QED
  BY <1>2, <1>3, <1>4, <1>5, <1>6

\* A task begins: it takes its event, and a task that runs already is no longer alone.
LEMMA WatchBegins ==
  ASSUME WatchInv, NEW i \in Watcher!Informer,
         Watcher!ReadConfigMap(i) \/ Watcher!ReadConfigMapFails(i)
  PROVE  WatchInv'
<1> USE DEF WatchInv
<1> DEFINE Alone == \A j \in Watcher!Informer \ {i} : ~Works(j)
<1>1. Watcher!Overlaps(i) <=> ~Alone
  BY OverlapsMeans
<1>2. /\ pending[i] /\ ~Works(i) /\ pending' = [pending EXCEPT ![i] = FALSE]
      /\ UNCHANGED <<cmap, creds, phase, lastValid, loaded>>
  BY DEF Watcher!ReadConfigMap, Watcher!ReadConfigMapFails, Watcher!TakeEvent, Watcher!store, Works
<1>3. Watches
  BY <1>2 DEF ReadingKept, Watches, Unheard, Watcher!Informer
<1>4. /\ why # {} => why' # {}
      /\ ~Alone => why' # {}
      /\ Watcher!ReadConfigMapFails(i) => why' # {}
  BY <1>1 DEF Watcher!ReadConfigMap, Watcher!ReadConfigMapFails
<1>5. ASSUME NEW j \in Watcher!Informer \ {i}
      PROVE  /\ TaskShape(task'[j]) /\ task'[j].at = task[j].at
             /\ Alone => task'[j] = task[j]
             /\ Works(j) => ~Alone /\ task'[j].lone = FALSE /\ task'[j].fault = task[j].fault
  BY <1>1, <1>5 DEF Watcher!ReadConfigMap, Watcher!ReadConfigMapFails, WatchTypes, TaskShape, Works,
     Watcher!NoTask
<1>6. \/ task'[i] = [at |-> "secret", cm |-> cmap, lone |-> Alone, fault |-> FALSE]
      \/ /\ task'[i] = [at |-> "store", got |-> lastValid, lone |-> Alone, fault |-> TRUE]
         /\ Watcher!ReadConfigMapFails(i)
  BY <1>1 DEF Watcher!ReadConfigMap, Watcher!ReadConfigMapFails
<1>7. /\ TaskShape(task'[i]) /\ task'[i].at \in {"secret", "store"}
      /\ task'[i].lone = Alone /\ task'[i].fault \in BOOLEAN
      /\ task'[i].fault => why' # {}
      /\ task'[i].at = "secret" => task'[i].cm = cmap
      /\ task'[i].at = "store" => task'[i].fault
  <2>1. CASE task'[i] = [at |-> "secret", cm |-> cmap, lone |-> Alone, fault |-> FALSE]
    <3> HIDE DEF Alone
    <3>1. TaskShape(task'[i])
      BY <2>1, Zenon, ShapesOfTasks
    <3> QED
      BY <2>1, <3>1
  <2>2. CASE /\ task'[i] = [at |-> "store", got |-> lastValid, lone |-> Alone, fault |-> TRUE]
             /\ Watcher!ReadConfigMapFails(i)
    <3> HIDE DEF Alone
    <3>1. TaskShape(task'[i])
      BY <2>2, Zenon, ShapesOfTasks
    <3> QED
      BY <1>4, <2>2, <3>1
  <2> QED
    BY <1>6, <2>1, <2>2
<1>8. DOMAIN task' = Watcher!Informer
  BY DEF Watcher!ReadConfigMap, Watcher!ReadConfigMapFails
<1>9. WatchTypes'
  BY <1>2, <1>5, <1>7, <1>8 DEF WatchTypes, Works
<1>10. TaskKept(i)'
  BY <1>2, <1>4, <1>5, <1>7 DEF TaskKept, Works, HasReading
<1>11. ASSUME NEW j \in Watcher!Informer \ {i} PROVE TaskKept(j)'
  BY <1>4, <1>5, <1>11 DEF TaskKept, Works, HasReading
<1>12. ReadingKept'
  <2>1. Watches' /\ Works(i)' /\ phase' # "wired"
    BY <1>2, <1>3, <1>7 DEF Watches, Works
  <2>2. Watches /\ why = {} /\ (\A j \in Watcher!Informer : task[j].at # "reload") =>
          loaded = Watcher!Accepted(lastValid)
    BY DEF ReadingKept
  <2>3. \A j \in Watcher!Informer : task'[j].at # "reload" => task[j].at # "reload"
    BY <1>2, <1>5 DEF Works
  <2> QED
    BY <1>2, <1>3, <1>4, <2>1, <2>2, <2>3 DEF ReadingKept, Watches
<1> QED
  BY <1>9, <1>10, <1>11, <1>12

\* A task goes on: nothing else changes but what it reads, stores or loads.
LEMMA WatchGoesOn ==
  ASSUME WatchInv, NEW i \in Watcher!Informer,
         \/ Watcher!ReadSecret(i) \/ Watcher!ReadSecretFails(i)
         \/ Watcher!StoreReading(i) \/ Watcher!ReloadProviders(i)
  PROVE  WatchInv'
<1> USE DEF WatchInv
<1> DEFINE t == task[i]
<1>1. /\ Works(i) /\ TaskShape(t) /\ t.lone \in BOOLEAN /\ t.fault \in BOOLEAN /\ TaskKept(i)
      /\ UNCHANGED <<cmap, creds, phase, pending>>
  BY DEF Watcher!ReadSecret, Watcher!ReadSecretFails, Watcher!StoreReading,
     Watcher!ReloadProviders, Works, WatchTypes, Watcher!store
<1>2. /\ DOMAIN task' = Watcher!Informer
      /\ \A j \in Watcher!Informer \ {i} : task'[j] = task[j]
  BY DEF Watcher!ReadSecret, Watcher!ReadSecretFails, Watcher!StoreReading,
     Watcher!ReloadProviders, WatchTypes
<1>3. Described' = Described /\ Unheard' = Unheard /\ Watches' = Watches /\ phase # "wired"
  BY <1>1 DEF Described, Unheard, Watches, ReadingKept
<1>4. ASSUME NEW j \in Watcher!Informer \ {i}, Works(j)
      PROVE  why # {} /\ ~task[j].lone /\ ~t.lone
  BY <1>1, <1>4 DEF TaskKept, WatchTypes
<1>5. t.lone /\ Watches /\ ~Works(i)' => \A j \in Watcher!Informer : ~Works(j)'
  BY <1>2, <1>4 DEF Works
<1>6. ASSUME Watcher!ReadSecret(i) \/ Watcher!ReadSecretFails(i) PROVE WatchInv'
  <2>1. /\ t.at = "secret"
        /\ why # {} => why' # {}
        /\ UNCHANGED <<lastValid, loaded>>
    BY <1>6 DEF Watcher!ReadSecret, Watcher!ReadSecretFails
  <2>2. /\ task'[i].at = "store" /\ task'[i].lone = t.lone /\ TaskShape(task'[i])
        /\ task'[i].fault \in BOOLEAN
        /\ task'[i].fault => why' # {}
        /\ ~task'[i].fault => task'[i].got = Watcher!Merge(t.cm, creds) /\ why' = why
    <3>1. CASE Watcher!ReadSecret(i)
      <4>1. /\ task'[i] = [at |-> "store", got |-> Watcher!Merge(t.cm, creds), lone |-> t.lone,
                           fault |-> FALSE]
            /\ why' = why
        BY <3>1 DEF Watcher!ReadSecret, WatchTypes
      <4>2. TaskShape(task'[i])
        BY <4>1, Zenon, ShapesOfTasks
      <4> QED
        BY <4>1, <4>2
    <3>2. CASE Watcher!ReadSecretFails(i)
      <4>1. /\ task'[i] = [at |-> "store", got |-> Watcher!Merge(t.cm, [n \in Watched |-> {}]),
                           lone |-> t.lone, fault |-> TRUE]
            /\ why' # {}
        BY <3>2 DEF Watcher!ReadSecretFails, WatchTypes
      <4>2. TaskShape(task'[i])
        BY <4>1, Zenon, ShapesOfTasks
      <4> QED
        BY <4>1, <4>2
    <3> QED
      BY <1>6, <3>1, <3>2
  <2>3. WatchTypes'
    BY <1>1, <1>2, <2>2 DEF WatchTypes, Works
  <2>4. TaskKept(i)'
    BY <1>1, <1>2, <1>3, <2>1, <2>2 DEF TaskKept, Works, HasReading, Watches, Unheard, Described
  <2>5. ASSUME NEW j \in Watcher!Informer \ {i} PROVE TaskKept(j)'
    <3>1. TaskKept(j) /\ Works(j)' = Works(j) /\ task'[j] = task[j]
      BY <1>2, <2>5 DEF Works
    <3> QED
      BY <1>1, <1>3, <1>4, <2>1, <2>5, <3>1 DEF TaskKept, HasReading, Works
  <2>6. ReadingKept'
    <3>1. task[i].at # "reload" /\ Works(i)'
      BY <2>1, <2>2 DEF Works
    <3>2. why' = {} => why = {}
      BY <2>1
    <3> QED
      BY <1>1, <1>2, <1>3, <2>1, <2>2, <3>1, <3>2 DEF ReadingKept
  <2> QED
    BY <2>3, <2>4, <2>5, <2>6
<1>7. ASSUME Watcher!StoreReading(i) PROVE WatchInv'
  <2>1. /\ t.at = "store" /\ lastValid' = t.got /\ UNCHANGED <<loaded, why>>
        /\ \/ t.got = lastValid /\ task'[i] = Watcher!NoTask
           \/ task'[i] = [t EXCEPT !.at = "reload"]
    BY <1>7 DEF Watcher!StoreReading, WatchTypes
  <2>2. \/ t.got = lastValid /\ task'[i] = Watcher!NoTask /\ ~Works(i)'
        \/ /\ task'[i].at = "reload" /\ task'[i].lone = t.lone /\ task'[i].fault = t.fault
           /\ task'[i].got = t.got /\ TaskShape(task'[i]) /\ Works(i)'
    BY <1>1, <2>1 DEF TaskShape, Works, Watcher!NoTask
  <2>3. WatchTypes'
    BY <1>1, <1>2, <2>2 DEF WatchTypes, Works, TaskShape
  <2>4. TaskKept(i)'
    BY <1>1, <1>2, <1>3, <2>1, <2>2 DEF TaskKept, Works, HasReading
  <2>5. ASSUME NEW j \in Watcher!Informer \ {i} PROVE TaskKept(j)'
    <3>1. TaskKept(j) /\ Works(j)' = Works(j) /\ task'[j] = task[j]
      BY <1>2, <2>5 DEF Works
    <3> QED
      BY <1>1, <1>3, <1>4, <2>1, <2>5, <3>1 DEF TaskKept, HasReading, Works
  <2>6. why = {} => /\ t.lone /\ ~t.fault
                    /\ \A j \in Watcher!Informer \ {i} : ~Works(j)
    BY <1>1, <1>4, <2>1 DEF TaskKept, HasReading
  <2>7. ReadingKept'
    <3>1. Watches /\ why = {} /\ ~Works(i)' => loaded = Watcher!Accepted(lastValid')
      <4>1. why = {} => \A j \in Watcher!Informer : task[j].at # "reload"
        BY <2>1, <2>6 DEF Works
      <4> QED
        BY <2>1, <2>2, <4>1 DEF ReadingKept
    <3>2. Watches /\ why = {} /\ ~Unheard => lastValid' = Described
      BY <1>1, <2>1, <2>6 DEF TaskKept, HasReading
    <3>3. task'[i].at # "reload" => ~Works(i)'
      BY <2>2
    <3> QED
      BY <1>1, <1>3, <2>1, <3>1, <3>2, <3>3 DEF ReadingKept, Watches
  <2> QED
    BY <2>3, <2>4, <2>5, <2>7
<1>8. ASSUME Watcher!ReloadProviders(i) PROVE WatchInv'
  <2>1. PICK down \in SUBSET {n \in Watched : Watcher!Usable(t.got[n])} :
          /\ loaded' = [n \in Watched |-> IF n \in down THEN {} ELSE Watcher!Accepted(t.got)[n]]
          /\ why' = (IF t.lone THEN {} ELSE why)
                      \cup (IF down # {} \/ t.fault THEN {"fault"} ELSE {})
    BY <1>8 DEF Watcher!ReloadProviders
  <2>2. /\ t.at = "reload" /\ task'[i] = Watcher!NoTask /\ lastValid' = lastValid
    BY <1>8 DEF Watcher!ReloadProviders, WatchTypes
  <2>3. ~Works(i)' /\ TaskShape(task'[i]) /\ ~HasReading(i)'
    BY <2>2 DEF Works, TaskShape, HasReading, Watcher!NoTask
  <2>4. WatchTypes'
    BY <1>1, <1>2, <2>3 DEF WatchTypes, Works
  <2>5. TaskKept(i)'
    BY <2>3 DEF TaskKept, Works, HasReading
  <2>6. ~t.lone => why # {} /\ why' # {}
    BY <1>1, <2>1 DEF TaskKept
  <2>7. ASSUME NEW j \in Watcher!Informer \ {i} PROVE TaskKept(j)'
    <3>1. TaskKept(j) /\ Works(j)' = Works(j) /\ task'[j] = task[j]
      BY <1>2, <2>7 DEF Works
    <3>2. HasReading(j) => Works(j)
      BY DEF HasReading, Works
    <3> QED
      BY <1>1, <1>3, <1>4, <2>2, <2>6, <2>7, <3>1, <3>2 DEF TaskKept, HasReading, Works
  <2>8. why' = {} => t.lone /\ ~t.fault /\ down = {}
    BY <2>1, <2>6
  <2>9. why' = {} => loaded' = Watcher!Accepted(lastValid)
    <3>1. t.lone => lastValid = t.got
      BY <1>1, <2>2 DEF TaskKept
    <3> QED
      BY <2>1, <2>8, <3>1 DEF Watcher!Accepted
  <2>10. Watches /\ why' = {} /\ ~Unheard => lastValid = Described
    BY <1>1, <2>2, <2>8 DEF TaskKept, HasReading
  <2> QED
    BY <1>1, <1>3, <2>2, <2>4, <2>5, <2>7, <2>9, <2>10 DEF ReadingKept, Watches
<1> QED
  BY <1>6, <1>7, <1>8

LEMMA WatchInvStep == WatchInv /\ [Watcher!Next]_(Watcher!vars) => WatchInv'
<1> SUFFICES ASSUME WatchInv, [Watcher!Next]_(Watcher!vars) PROVE WatchInv'
  OBVIOUS
<1>1. CASE UNCHANGED Watcher!vars
  BY <1>1 DEF Watcher!vars, WatchInv, WatchTypes, TaskKept, ReadingKept, Works, HasReading,
     Watches, Unheard, Described
<1> QED
  BY <1>1, WatchOutside, WatchBegins, WatchGoesOn DEF Watcher!Next, Watcher!WatcherStep

LEMMA WatchIsExplained == WatchInv => Watcher!StaleProvidersExplained
  BY DEF WatchInv, WatchTypes, ReadingKept, Watcher!StaleProvidersExplained, Watcher!Quiet,
     Watcher!Current, Works, Unheard, Watches, Described, Watcher!Informer

(* An operation on the providers that is refused leaves the list as it was, *)
(* no credentials stay without a provider, and logins use the providers     *)
(* that are stored unless a reason is known.                                *)
THEOREM SettingsStayUndone == AllSpec => []SettingsAreUndone
<1>1. AllInit => StoreInv /\ WatchInv
  BY StoreInvInit, WatchInvInit
<1>2. StoreInv /\ WatchInv /\ [AllNext]_allVars => StoreInv' /\ WatchInv'
  <2>1. [AllNext]_allVars => [Store!Next]_(Store!vars) /\ [Watcher!Next]_(Watcher!vars)
    BY DEF AllNext, allVars, storeVars, watcherVars, Store!vars, Watcher!vars
  <2> QED
    BY <2>1, StoreInvStep, WatchInvStep
<1>3. StoreInv /\ WatchInv => SettingsAreUndone
  BY StoreIsUndone, WatchIsExplained DEF SettingsAreUndone
<1> QED
  BY <1>1, <1>2, <1>3, PTL DEF AllSpec
(* InstanceAccess *)

Destination == Namespace \cup {Access!Anywhere}
Instance == [ns : Namespace \cup {Access!Cluster}, project : Project]
Item == [at : Access!Index, is : Instance]
View == [op : {"list", "count", "get", "create"},
         at : {"begin", "collect", "legacy", "read", "filter", "permit", "create"},
         todo : SUBSET Project, ns : SUBSET Destination, items : SUBSET Item, all : SUBSET Item,
         project : Project \cup {None}, target : Namespace \cup {None},
         dests : {None} \cup SUBSET Destination]

AccessTypes ==
  /\ projects \in [Project -> {None} \cup SUBSET Destination]
  /\ readable \in SUBSET Project /\ creatable \in SUBSET Project /\ grouped \in SUBSET Project
  /\ instances \in [Access!Index -> {None} \cup Instance]
  /\ view # None => view \in View

\* A creation and the others have steps of their own.
PathKept ==
  view # None =>
    IF view.op = "create"
    THEN /\ view.at \in {"begin", "permit", "create"}
         /\ view.project \in Project /\ view.target \in Namespace
    ELSE view.at \in {"begin", "collect", "legacy", "read", "filter"}

\* What the request has collected it had at some time since it began, and all that
\* it could collect now is among that.
RightsKept ==
  view # None /\ view.op # "create" =>
    /\ Access!Readable \subseteq owned
    /\ Access!DestsOf(owned) \subseteq granted /\ Access!DestsOf(grouped) \subseteq granted
    /\ view.todo \subseteq owned /\ view.ns \subseteq granted

AccessInv == ~exposed /\ AccessTypes /\ PathKept /\ RightsKept

LEMMA DestsMember ==
  ASSUME NEW ps, NEW d
  PROVE  d \in Access!DestsOf(ps) <=> \E p \in ps : projects[p] # None /\ d \in projects[p]
  BY DEF Access!DestsOf

LEMMA DestsOfMore ==
  ASSUME NEW ps, NEW qs, ps \subseteq qs
  PROVE  Access!DestsOf(ps) \subseteq Access!DestsOf(qs)
  BY DestsMember

LEMMA DestsOfBoth ==
  ASSUME NEW ps, NEW qs
  PROVE  Access!DestsOf(ps \cup qs) = Access!DestsOf(ps) \cup Access!DestsOf(qs)
<1>1. \A d : d \in Access!DestsOf(ps \cup qs)
               <=> d \in Access!DestsOf(ps) \cup Access!DestsOf(qs)
  <2> TAKE d
  <2> QED
    BY DestsMember
<1> QED
  BY <1>1

LEMMA DestsAreDestinations ==
  ASSUME AccessTypes, NEW ps \in SUBSET Project
  PROVE  Access!DestsOf(ps) \in SUBSET Destination
<1>1. \A d : d \in Access!DestsOf(ps) => d \in Destination
  BY DestsMember DEF AccessTypes
<1> QED
  BY <1>1

LEMMA AccessInvInit == AllInit => AccessInv
<1> SUFFICES ASSUME Access!Init PROVE AccessInv
  BY DEF AllInit
<1> QED
  BY DEF Access!Init, AccessInv, AccessTypes, PathKept, RightsKept, Destination, Access!Anywhere

\* The request goes on, and nothing else changes.
LEMMA VisitGoesOn ==
  ASSUME AccessInv, view # None, view' \in View, view'.op = view.op,
         view'.project = view.project, view'.target = view.target,
         view'.todo \subseteq view.todo \cup Access!Readable,
         view'.ns \subseteq view.ns \cup Access!DestsOf(view.todo \cup Access!Readable \cup grouped),
         IF view.op = "create" THEN view'.at \in {"begin", "permit", "create"}
         ELSE view'.at \in {"begin", "collect", "legacy", "read", "filter"},
         UNCHANGED <<granted, owned, Access!policy, instances, Access!ghosts>>
  PROVE  AccessInv'
<1>1. /\ UNCHANGED <<granted, owned, projects, readable, creatable, admin, grouped, instances>>
      /\ exposed' = exposed
  BY DEF Access!policy, Access!ghosts
<1>2. AccessTypes' /\ PathKept' /\ ~exposed'
  BY <1>1 DEF AccessInv, AccessTypes, PathKept
<1>3. Access!Readable' = Access!Readable /\ Access!DestsOf(owned)' = Access!DestsOf(owned)
      /\ Access!DestsOf(grouped)' = Access!DestsOf(grouped)
  BY <1>1 DEF Access!Readable, Access!DestsOf
<1>4. ASSUME view.op # "create" PROVE RightsKept'
  <2>1. /\ Access!Readable \subseteq owned
        /\ Access!DestsOf(owned) \subseteq granted /\ Access!DestsOf(grouped) \subseteq granted
        /\ view.todo \subseteq owned /\ view.ns \subseteq granted
    BY <1>4 DEF AccessInv, RightsKept
  <2>2. Access!DestsOf(view.todo \cup Access!Readable \cup grouped) \subseteq granted
    <3>1. Access!DestsOf(view.todo \cup Access!Readable \cup grouped)
            = Access!DestsOf(view.todo \cup Access!Readable) \cup Access!DestsOf(grouped)
      BY DestsOfBoth
    <3>2. Access!DestsOf(view.todo \cup Access!Readable) \subseteq Access!DestsOf(owned)
      <4>1. view.todo \cup Access!Readable \subseteq owned
        BY <2>1
      <4> QED
        BY <4>1, DestsOfMore
    <3> QED
      BY <2>1, <3>1, <3>2
  <2> QED
    BY <1>1, <1>3, <2>1, <2>2 DEF RightsKept
<1> QED
  BY <1>2, <1>4 DEF AccessInv, RightsKept

LEMMA VisitEnds ==
  ASSUME AccessInv, view' = None, instances' \in [Access!Index -> {None} \cup Instance],
         UNCHANGED Access!policy, exposed' => exposed
  PROVE  AccessInv'
  BY DEF Access!policy, AccessInv, AccessTypes, PathKept, RightsKept

LEMMA AccessBegins ==
  ASSUME AccessInv, Access!Enter \/ Access!EnterCreate
  PROVE  AccessInv'
<1>1. UNCHANGED <<projects, readable, creatable, admin, grouped, instances>> /\ exposed' = exposed
  BY DEF Access!Enter, Access!EnterCreate, Access!policy, Access!ghosts
<1>2. PICK o \in {"list", "count", "get", "create"}, p \in Project \cup {None},
           n \in Namespace \cup {None} :
        /\ view' = [op |-> o, at |-> "begin", todo |-> {}, ns |-> {}, items |-> {}, all |-> {},
                    project |-> p, target |-> n, dests |-> None]
        /\ o = "create" => p \in Project /\ n \in Namespace
        /\ o # "create" => granted' = Access!DestsOf(Access!Readable \cup grouped)
        /\ owned' = Access!Readable
  BY DEF Access!Enter, Access!EnterCreate, Access!Visit
<1>3. /\ view' \in View /\ view'.op = o /\ view'.at = "begin" /\ view'.todo = {} /\ view'.ns = {}
      /\ view'.project = p /\ view'.target = n
  BY <1>2 DEF View
<1>4. AccessTypes' /\ PathKept' /\ ~exposed'
  BY <1>1, <1>2, <1>3 DEF AccessInv, AccessTypes, PathKept
<1>5. RightsKept'
  <2>1. Access!Readable' = Access!Readable /\ Access!DestsOf(owned') = Access!DestsOf(owned)'
        /\ Access!DestsOf(grouped)' = Access!DestsOf(grouped)
    BY <1>1 DEF Access!Readable, Access!DestsOf
  <2>2. Access!DestsOf(Access!Readable \cup grouped)
          = Access!DestsOf(Access!Readable) \cup Access!DestsOf(grouped)
    BY DestsOfBoth
  <2> QED
    BY <1>2, <1>3, <2>1, <2>2 DEF RightsKept
<1> QED
  BY <1>4, <1>5 DEF AccessInv

\* A request other than a creation reads the projects and the instances.
LEMMA AccessReads ==
  ASSUME AccessInv, Access!ReadProjects \/ Access!Legacy \/ Access!Collect \/ Access!ReadInstances
  PROVE  AccessInv'
<1>1. /\ view # None /\ view \in View /\ UNCHANGED <<Access!policy, instances, Access!ghosts>>
      /\ PathKept
  BY DEF Access!ReadProjects, Access!Legacy, Access!Collect, Access!ReadInstances, AccessInv,
     AccessTypes
<1>2. view.op # "create"
  BY <1>1 DEF PathKept, Access!ReadProjects, Access!Legacy, Access!Collect, Access!ReadInstances
<1>3. Access!Readable \in SUBSET Project /\ view.todo \in SUBSET Project
  BY <1>1 DEF Access!Readable, View
<1>4. AccessTypes
  BY DEF AccessInv
<1>5. CASE Access!ReadProjects
  <2>1. PICK a \in {"collect", "legacy"}, S \in SUBSET Project :
          /\ S \subseteq Access!Readable \cup view.todo
          /\ Access!Go([view EXCEPT !.at = a, !.todo = S])
    BY <1>1, <1>3, <1>5 DEF Access!ReadProjects, View
  <2>2. [view EXCEPT !.at = a, !.todo = S] \in View
    BY <1>1, <2>1 DEF View
  <2> QED
    BY <1>1, <1>2, <2>1, <2>2, VisitGoesOn DEF Access!Go, View
<1>6. CASE Access!Legacy
  <2>1. Access!Go([view EXCEPT !.at = "read", !.ns = Access!DestsOf(Access!Readable \cup grouped)])
    BY <1>6 DEF Access!Legacy
  <2>2. Access!DestsOf(Access!Readable \cup grouped) \in SUBSET Destination
    <3>1. Access!Readable \cup grouped \in SUBSET Project
      BY <1>3, <1>4 DEF AccessTypes
    <3> QED
      BY <1>4, <3>1, DestsAreDestinations
  <2>3. [view EXCEPT !.at = "read", !.ns = Access!DestsOf(Access!Readable \cup grouped)] \in View
    BY <1>1, <2>2 DEF View
  <2>4. Access!DestsOf(Access!Readable \cup grouped)
          \subseteq Access!DestsOf(view.todo \cup Access!Readable \cup grouped)
    BY DestsOfMore
  <2> DEFINE new == [view EXCEPT !.at = "read", !.ns = Access!DestsOf(Access!Readable \cup grouped)]
  <2>5. /\ new.op = view.op /\ new.project = view.project /\ new.target = view.target
        /\ new.todo = view.todo /\ new.at = "read"
        /\ new.ns = Access!DestsOf(Access!Readable \cup grouped)
    BY <1>1 DEF View
  <2>6. view' = new /\ UNCHANGED <<granted, owned>>
    BY <2>1 DEF Access!Go
  <2> HIDE DEF new
  <2>7. new \in View
    BY <2>3 DEF new
  <2> QED
    BY <1>1, <1>2, <2>4, <2>5, <2>6, <2>7, VisitGoesOn
<1>7. CASE Access!Collect
  <2>1. PICK S \in SUBSET view.todo, ds \in SUBSET (Access!DestsOf(view.todo)),
             a \in {"read", "collect"} :
          /\ view' = [view EXCEPT !.at = a, !.todo = S, !.ns = @ \cup ds]
          /\ UNCHANGED <<granted, owned>>
    <3>1. CASE view.todo = {} \/ Access!Anywhere \in view.ns
      <4>1. view' = [view EXCEPT !.at = "read", !.todo = {}] /\ UNCHANGED <<granted, owned>>
        BY <1>7, <3>1 DEF Access!Collect, Access!Go
      <4>2. [view EXCEPT !.at = "read", !.todo = {}]
              = [view EXCEPT !.at = "read", !.todo = {}, !.ns = @ \cup {}]
        BY <1>1 DEF View
      <4> QED
        BY <4>1, <4>2
    <3>2. CASE ~(view.todo = {} \/ Access!Anywhere \in view.ns)
      <4>1. PICK p \in view.todo : /\ view' = [view EXCEPT !.todo = @ \ {p},
                                                           !.ns = @ \cup Access!DestsOf({p})]
                                   /\ UNCHANGED <<granted, owned>>
        BY <1>7, <3>2 DEF Access!Collect, Access!Go
      <4>2. view.at = "collect" /\ view.todo \ {p} \in SUBSET view.todo
        BY <1>7 DEF Access!Collect
      <4>3. Access!DestsOf({p}) \in SUBSET Access!DestsOf(view.todo)
        BY DestsOfMore
      <4>4. view' = [view EXCEPT !.at = "collect", !.todo = view.todo \ {p},
                                 !.ns = @ \cup Access!DestsOf({p})]
        BY <1>1, <4>1, <4>2 DEF View
      <4> QED
        BY <4>1, <4>2, <4>3, <4>4
    <3> QED
      BY <3>1, <3>2
  <2>2. Access!DestsOf(view.todo) \in SUBSET Destination
    BY <1>3, <1>4, DestsAreDestinations
  <2>3. Access!DestsOf(view.todo) \subseteq Access!DestsOf(view.todo \cup Access!Readable \cup grouped)
    BY DestsOfMore
  <2>4. /\ view' \in View /\ view'.op = view.op /\ view'.at = a /\ view'.todo = S
        /\ view'.ns = view.ns \cup ds /\ view'.project = view.project
        /\ view'.target = view.target
    BY <1>1, <1>3, <2>1, <2>2 DEF View
  <2> QED
    BY <1>1, <1>2, <2>1, <2>3, <2>4, VisitGoesOn
<1>8. CASE Access!ReadInstances
  <2>1. CASE Access!End
    BY <1>1, <1>4, <2>1, VisitEnds DEF Access!End, Access!ghosts, AccessTypes
  <2>2. CASE ~Access!End
    <3> DEFINE all == {[at |-> i, is |-> instances[i]] : i \in Access!Existing}
    <3>1. all \in SUBSET Item
      BY <1>4 DEF AccessTypes, Item, Access!Existing
    <3> DEFINE read == [i \in Access!Existing |-> instances[i]]
               items == CASE view.op = "list" ->
                               {{[at |-> i, is |-> read[i]] : i \in Access!Page(Access!Existing)}}
                          [] view.op = "count" -> {{[at |-> i, is |-> read[i]] : i \in Access!Existing}}
                          [] OTHER -> {{[at |-> i, is |-> read[i]]} : i \in Access!Existing}
    <3>4. {[at |-> i, is |-> read[i]] : i \in Access!Existing} = all
      OBVIOUS
    <3>5. \A s \in items : s \subseteq all
      <4>1. view.op \in {"list", "count", "get"}
        BY <1>1, <1>2 DEF View
      <4>2. CASE view.op = "list"
        <5>1. items = {{[at |-> i, is |-> read[i]] : i \in Access!Page(Access!Existing)}}
          BY <4>2
        <5>2. \A i \in Access!Page(Access!Existing) : i \in Access!Existing
          BY DEF Access!Page
        <5> QED
          BY <3>4, <5>1, <5>2
      <4>3. CASE view.op = "count"
        <5>1. items = {all}
          BY <3>4, <4>3
        <5> QED
          BY <5>1
      <4>4. CASE view.op = "get"
        <5>1. items = {{[at |-> i, is |-> read[i]]} : i \in Access!Existing}
          BY <4>4
        <5> QED
          BY <3>4, <5>1
      <4> QED
        BY <4>1, <4>2, <4>3, <4>4
    <3>6. \E s \in items :
            Access!Go([view EXCEPT !.at = "filter", !.items = s,
                                   !.all = {[at |-> i, is |-> read[i]] : i \in Access!Existing}])
      BY <1>8, <2>2 DEF Access!ReadInstances
    <3> HIDE DEF items
    <3>2. PICK s \in SUBSET all : /\ view' = [view EXCEPT !.at = "filter", !.items = s, !.all = all]
                                  /\ UNCHANGED <<granted, owned>>
      BY <3>4, <3>5, <3>6 DEF Access!Go
    <3> HIDE DEF all
    <3>3. /\ view' \in View /\ view'.op = view.op /\ view'.at = "filter" /\ view'.todo = view.todo
          /\ view'.ns = view.ns /\ view'.project = view.project /\ view'.target = view.target
      BY <1>1, <3>1, <3>2 DEF View
    <3> QED
      BY <1>1, <1>2, <3>2, <3>3, VisitGoesOn
  <2> QED
    BY <2>1, <2>2
<1> QED
  BY <1>5, <1>6, <1>7, <1>8

\* What is shown the caller had.
LEMMA AccessResponds ==
  ASSUME AccessInv, Access!Respond
  PROVE  AccessInv'
<1>1. /\ view # None /\ view \in View /\ view.at = "filter" /\ view' = None
      /\ UNCHANGED <<Access!policy, instances>>
  BY DEF Access!Respond, Access!End, AccessInv, AccessTypes
<1>2. /\ Access!Readable \subseteq owned /\ view.ns \subseteq granted
  BY <1>1 DEF AccessInv, PathKept, RightsKept
<1>3. ASSUME NEW x \in view.items, Access!AccessFilter(x.is, view.ns, Access!Readable)
      PROVE  IF x.is.ns = Access!Cluster THEN x.is.project \in owned
             ELSE Access!MatchNamespaceInList(x.is.ns, granted)
  BY <1>2, <1>3 DEF Access!AccessFilter, Access!MatchNamespaceInList
<1>4. exposed' => exposed
  BY <1>3 DEF Access!Respond
<1>5. instances' \in [Access!Index -> {None} \cup Instance]
  BY <1>1 DEF AccessInv, AccessTypes
<1> QED
  BY <1>1, <1>4, <1>5, VisitEnds

\* A creation, and the loading of the policies.
LEMMA AccessCreates ==
  ASSUME AccessInv,
         Access!ReadProject \/ Access!Permit \/ Access!CreateInstance \/ Access!Load
  PROVE  AccessInv'
<1>1. AccessTypes /\ PathKept
  BY DEF AccessInv
<1>2. CASE Access!Load
  BY <1>2 DEF Access!Load, AccessInv, AccessTypes, PathKept, RightsKept, Access!ghosts,
     Access!Readable, Access!DestsOf
<1>3. CASE Access!ReadProject
  <2>1. /\ view # None /\ view \in View /\ view.op = "create" /\ view.project \in Project
        /\ UNCHANGED <<Access!policy, instances, Access!ghosts>>
    BY <1>1, <1>3 DEF Access!ReadProject, AccessTypes, PathKept
  <2>2. CASE Access!End
    BY <1>1, <2>1, <2>2, VisitEnds DEF Access!End, Access!ghosts, AccessTypes
  <2>3. CASE ~Access!End
    <3>1. PICK a \in {"create", "permit"} :
            /\ view' = [view EXCEPT !.at = a, !.dests = projects[view.project]]
            /\ UNCHANGED <<granted, owned>>
      BY <1>3, <2>3 DEF Access!ReadProject, Access!Go
    <3>2. projects[view.project] \in {None} \cup SUBSET Destination
      BY <1>1, <2>1 DEF AccessTypes
    <3>3. /\ view' \in View /\ view'.op = view.op /\ view'.at = a /\ view'.todo = view.todo
          /\ view'.ns = view.ns /\ view'.project = view.project /\ view'.target = view.target
      BY <2>1, <3>1, <3>2 DEF View
    <3> QED
      BY <2>1, <3>1, <3>3, VisitGoesOn
  <2> QED
    BY <2>2, <2>3
<1>4. CASE Access!Permit
  <2>1. /\ view # None /\ view \in View /\ view.op = "create"
        /\ UNCHANGED <<Access!policy, instances, Access!ghosts>>
    BY <1>1, <1>4 DEF Access!Permit, AccessTypes, PathKept
  <2>2. CASE Access!End
    BY <1>1, <2>1, <2>2, VisitEnds DEF Access!End, Access!ghosts, AccessTypes
  <2>3. CASE ~Access!End
    <3>1. view' = [view EXCEPT !.at = "create"] /\ UNCHANGED <<granted, owned>>
      BY <1>4, <2>3 DEF Access!Permit, Access!Go
    <3>2. /\ view' \in View /\ view'.op = view.op /\ view'.at = "create"
          /\ view'.todo = view.todo
          /\ view'.ns = view.ns /\ view'.project = view.project /\ view'.target = view.target
      BY <2>1, <3>1 DEF View
    <3> QED
      BY <2>1, <3>1, <3>2, VisitGoesOn
  <2> QED
    BY <2>2, <2>3
<1>5. CASE Access!CreateInstance
  <2>1. /\ view # None /\ view.op = "create" /\ view.project \in Project
        /\ view.target \in Namespace /\ view' = None
        /\ UNCHANGED <<Access!policy, Access!ghosts>>
    BY <1>1, <1>5 DEF Access!CreateInstance, Access!End, PathKept
  <2>2. [ns |-> view.target, project |-> view.project] \in Instance
    BY <2>1 DEF Instance
  <2>3. instances' \in [Access!Index -> {None} \cup Instance]
    BY <1>1, <1>5, <2>2 DEF Access!CreateInstance, AccessTypes
  <2> QED
    BY <2>1, <2>3, VisitEnds DEF Access!ghosts
<1> QED
  BY <1>2, <1>3, <1>4, <1>5

\* What a change lets the caller have is what the request may show from then on.
LEMMA AccessChanges ==
  ASSUME AccessInv, Access!Edit
  PROVE  AccessInv'
<1>1. AccessTypes /\ PathKept
  BY DEF AccessInv
<1>2. /\ projects' \in [Project -> {None} \cup SUBSET Destination]
      /\ readable' \in SUBSET Project /\ creatable' \in SUBSET Project
      /\ grouped' \in SUBSET Project
  BY <1>1 DEF AccessTypes, Access!Edit, Destination
<1>3. instances' \in [Access!Index -> {None} \cup Instance]
  <2>1. \A n \in Namespace \cup {Access!Cluster}, p \in Project :
          [ns |-> n, project |-> p] \in Instance
    BY DEF Instance
  <2> QED
    BY <1>1, <2>1 DEF AccessTypes, Access!Edit
<1>4. view' = view /\ exposed' = exposed
  BY DEF Access!Edit, Access!ghosts
<1>5. AccessTypes' /\ PathKept' /\ ~exposed'
  BY <1>1, <1>2, <1>3, <1>4 DEF AccessInv, AccessTypes, PathKept
<1>6. ASSUME view # None, view.op # "create" PROVE RightsKept'
  <2>1. owned' = owned \cup Access!Readable'
    BY <1>6 DEF Access!Edit, Access!Readable
  <2>2. granted' = granted \cup UNION {IF projects'[p] = None THEN {} ELSE projects'[p] :
                                         p \in owned \cup Access!Readable' \cup grouped'}
    BY <1>6 DEF Access!Edit, Access!Readable
  <2>3. /\ Access!DestsOf(owned)' \subseteq granted'
        /\ Access!DestsOf(grouped)' \subseteq granted'
    BY <2>1, <2>2 DEF Access!DestsOf
  <2>4. view.todo \subseteq owned /\ view.ns \subseteq granted
    BY <1>6 DEF AccessInv, RightsKept
  <2> QED
    BY <1>4, <2>1, <2>2, <2>3, <2>4 DEF RightsKept
<1> QED
  BY <1>4, <1>5, <1>6 DEF AccessInv, RightsKept

LEMMA AccessInvStep == AccessInv /\ [Access!Next]_(Access!vars) => AccessInv'
<1> SUFFICES ASSUME AccessInv, [Access!Next]_(Access!vars) PROVE AccessInv'
  OBVIOUS
<1>1. CASE UNCHANGED Access!vars
  BY <1>1 DEF Access!vars, Access!policy, Access!ghosts, AccessInv, AccessTypes, PathKept,
     RightsKept, Access!Readable, Access!DestsOf
<1> QED
  BY <1>1, AccessBegins, AccessReads, AccessResponds, AccessCreates, AccessChanges
     DEF Access!Next

(* An instance is shown only to a caller that had its project, or its      *)
(* namespace among its destinations, at some time since the request began. *)
THEOREM InstancesStayGranted == AllSpec => []ShownIsGranted
<1>1. AllInit => AccessInv
  BY AccessInvInit
<1>2. AccessInv /\ [AllNext]_allVars => AccessInv'
  <2>1. [AllNext]_allVars => [Access!Next]_(Access!vars)
    BY DEF AllNext, allVars, accessVars, Access!vars, Access!policy, Access!ghosts
  <2> QED
    BY <2>1, AccessInvStep
<1>3. AccessInv => ShownIsGranted
  BY DEF AccessInv, ShownIsGranted, Access!ShownIsGranted
<1> QED
  BY <1>1, <1>2, <1>3, PTL DEF AllSpec

-----------------------------------------------------------------------------
(* Secrets *)

StoredSecret == [uid : Nat, rv : Nat, project : Project, managed : BOOLEAN]
Listing == [project : Project, todo : SUBSET Sec!Namespaces, items : SUBSET Sec!Slot,
            stable : SUBSET Sec!Slot]

SecTypes ==
  /\ secrets \in [Sec!Slot -> StoredSecret \cup {None}] /\ lastWrite \in Nat
  /\ asked \in [Asker -> {None} \cup [op : {"create", "update", "delete", "get"},
                                      slot : Sec!Slot, project : Project]]
  /\ found \in [Asker -> StoredSecret \cup {None}]
  /\ list # None => list \in Listing

\* The Secrets that are stored, or that a request has read.
Known == ({secrets[i] : i \in Sec!Slot} \cup {found[q] : q \in Asker}) \ {None}

\* A version is written once, and a Secret keeps its project.
Versioned(s, t) ==
  /\ s.rv = t.rv => s.uid = t.uid
  /\ s.uid = t.uid => s.project = t.project
VersionsKept ==
  /\ \A s \in Known : s.uid <= lastWrite /\ s.rv <= lastWrite
  /\ \A s, t \in Known : Versioned(s, t)

FoundKept ==
  \A q \in Asker : found[q] # None => asked[q] # None /\ found[q].project = asked[q].project

\* What the list has to show is on it, or in a namespace that it has yet to ask.
ListKept ==
  list # None =>
    \A i \in list.stable \ list.items :
      /\ Sec!NsOf(i) \in list.todo /\ secrets[i] # None
      /\ secrets[i].project = list.project /\ secrets[i].managed

SecInv ==
  /\ SecTypes /\ VersionsKept /\ FoundKept /\ ListKept
  /\ ~recreated => trespasses = {}
  /\ ~clobbered /\ ~omitted

LEMMA SecInvInit == AllInit => SecInv
<1> SUFFICES ASSUME Sec!Init PROVE SecInv
  BY DEF AllInit
<1>1. SecTypes
  BY DEF Sec!Init, SecTypes
<1>2. Known = {}
  BY DEF Sec!Init, Known
<1> QED
  BY <1>1, <1>2 DEF Sec!Init, SecInv, VersionsKept, FoundKept, ListKept

\* A write gives the Secret a version of its own, and a new Secret an identity of its own.
LEMMA WriteKeepsVersions ==
  ASSUME SecTypes, VersionsKept, lastWrite' = lastWrite + 1, NEW new,
         new # None => /\ new \in StoredSecret /\ new.rv = lastWrite + 1
                       /\ \/ new.uid = lastWrite + 1
                          \/ \E s \in Known : new.uid = s.uid /\ new.project = s.project,
         \A s \in Known' : s \in Known \/ s = new
  PROVE  VersionsKept'
<1>1. \A s \in Known : s.uid <= lastWrite /\ s.rv <= lastWrite /\ s.uid \in Nat /\ s.rv \in Nat
  <2>1. \A s \in Known : s \in StoredSecret
    BY DEF Known, SecTypes
  <2> QED
    BY <2>1 DEF VersionsKept, StoredSecret
<1>2. lastWrite \in Nat
  BY DEF SecTypes
<1>3. \A s \in Known' : s # None
  BY DEF Known
<1>4. \A s \in Known' : s.uid <= lastWrite' /\ s.rv <= lastWrite'
  BY <1>1, <1>2, <1>3
<1>5. \A s \in Known : new # None => Versioned(s, new) /\ Versioned(new, s)
  BY <1>1, <1>2 DEF VersionsKept, Versioned
<1>6. \A s, t \in Known' : Versioned(s, t)
  BY <1>3, <1>5 DEF VersionsKept, Versioned
<1> QED
  BY <1>4, <1>6 DEF VersionsKept

LEMMA NoWriteKeepsVersions ==
  ASSUME VersionsKept, lastWrite' = lastWrite, Known' \subseteq Known
  PROVE  VersionsKept'
  BY DEF VersionsKept

\* A write of slot i.
LEMMA WriteKeepsList ==
  ASSUME SecTypes, ListKept, NEW i \in Sec!Slot, NEW s \in StoredSecret \cup {None},
         Sec!Write(i, s)
  PROVE  /\ secrets' \in [Sec!Slot -> StoredSecret \cup {None}] /\ lastWrite' = lastWrite + 1
         /\ secrets' = [secrets EXCEPT ![i] = s]
         /\ lastWrite' \in Nat
         /\ list' # None => list' \in Listing
         /\ ListKept'
<1>1. /\ secrets' = [secrets EXCEPT ![i] = s] /\ lastWrite' = lastWrite + 1
      /\ list' = IF list = None THEN None ELSE [list EXCEPT !.stable = @ \ {i}]
  BY DEF Sec!Write
<1>2. CASE list = None
  BY <1>1, <1>2 DEF SecTypes, ListKept
<1>3. CASE list # None
  <2>1. /\ list' \in Listing /\ list'.stable = list.stable \ {i} /\ list'.items = list.items
        /\ list'.todo = list.todo /\ list'.project = list.project
    BY <1>1, <1>3 DEF SecTypes, Listing
  <2>2. \A j \in Sec!Slot : j # i => secrets'[j] = secrets[j]
    BY <1>1 DEF SecTypes
  <2>3. ListKept'
    BY <1>3, <2>1, <2>2 DEF ListKept, SecTypes, Listing
  <2> QED
    BY <1>1, <2>1, <2>3 DEF SecTypes
<1> QED
  BY <1>2, <1>3

\* The requests stay as they are, or one ends.
Drops == UNCHANGED <<asked, found>> \/ \E q \in Asker : Sec!End(q)

LEMMA DropsKeepFound ==
  ASSUME SecTypes, FoundKept, Drops
  PROVE  /\ asked' \in [Asker -> {None} \cup [op : {"create", "update", "delete", "get"},
                                              slot : Sec!Slot, project : Project]]
         /\ found' \in [Asker -> StoredSecret \cup {None}]
         /\ FoundKept'
         /\ \A q \in Asker : found'[q] = found[q] \/ found'[q] = None
  BY DEF SecTypes, FoundKept, Drops, Sec!End

LEMMA SecWrites ==
  ASSUME SecInv, NEW i \in Sec!Slot, NEW s \in StoredSecret \cup {None}, Sec!Write(i, s), Drops,
         s # None => /\ s.rv = lastWrite + 1
                     /\ \/ s.uid = lastWrite + 1
                        \/ \E k \in Known : s.uid = k.uid /\ s.project = k.project,
         ~recreated' => trespasses' = {}, ~clobbered', omitted' = omitted
  PROVE  SecInv'
<1>1. SecTypes /\ VersionsKept /\ FoundKept /\ ListKept /\ ~omitted
  BY DEF SecInv
<1>2. /\ secrets' \in [Sec!Slot -> StoredSecret \cup {None}] /\ lastWrite' = lastWrite + 1
      /\ secrets' = [secrets EXCEPT ![i] = s]
      /\ lastWrite' \in Nat /\ ListKept'
      /\ list' # None => list' \in Listing
  BY <1>1, WriteKeepsList
<1>3. /\ FoundKept' /\ SecTypes'
      /\ \A q \in Asker : found'[q] = found[q] \/ found'[q] = None
  BY <1>1, <1>2, DropsKeepFound DEF SecTypes
<1>4. \A k \in Known' : k \in Known \/ k = s
  BY <1>1, <1>2, <1>3 DEF Known, SecTypes
<1>5. VersionsKept'
  BY <1>1, <1>2, <1>4, WriteKeepsVersions
<1> QED
  BY <1>1, <1>2, <1>3, <1>5 DEF SecInv

LEMMA SecRefuses ==
  ASSUME SecInv, Drops, UNCHANGED <<secrets, lastWrite, Sec!ghosts, list, omitted>>
  PROVE  SecInv'
<1>1. /\ SecTypes /\ VersionsKept /\ FoundKept /\ ListKept /\ ~omitted
      /\ ~recreated => trespasses = {}
      /\ ~clobbered
  BY DEF SecInv
<1>2. /\ UNCHANGED <<secrets, lastWrite, list>> /\ trespasses' = trespasses
      /\ recreated' = recreated /\ clobbered' = clobbered /\ omitted' = omitted
  BY DEF Sec!ghosts
<1>3. /\ FoundKept' /\ SecTypes'
      /\ \A q \in Asker : found'[q] = found[q] \/ found'[q] = None
  BY <1>1, <1>2, DropsKeepFound DEF SecTypes
<1>4. Known' \subseteq Known
  BY <1>2, <1>3 DEF Known
<1>5. VersionsKept'
  BY <1>1, <1>2, <1>4, NoWriteKeepsVersions
<1> QED
  BY <1>1, <1>2, <1>3, <1>5 DEF SecInv, ListKept

LEMMA SecEnds ==
  ASSUME SecInv, NEW q \in Asker, Sec!Refuse(q) \/ Sec!Fault(q), omitted' = omitted
  PROVE  SecInv'
  BY SecRefuses DEF Sec!Refuse, Sec!Fault, Drops

\* A request reads the Secret that its name stands for.
LEMMA SecReads ==
  ASSUME SecInv, NEW q \in Asker, Sec!GetSecret(q)
  PROVE  SecInv'
<1>1. CASE Sec!Refuse(q) \/ Sec!Fault(q)
  BY <1>1, SecEnds DEF Sec!GetSecret
<1>2. CASE ~(Sec!Refuse(q) \/ Sec!Fault(q))
  <2> DEFINE s == secrets[asked[q].slot]
  <2>1. /\ asked[q] # None /\ s # None /\ s.project = asked[q].project
        /\ found' = [found EXCEPT ![q] = s]
        /\ UNCHANGED <<secrets, lastWrite, asked, list, omitted>>
        /\ trespasses' = trespasses /\ recreated' = recreated /\ clobbered' = clobbered
    BY <1>2 DEF Sec!GetSecret, Sec!ghosts
  <2>2. s \in Known /\ s \in StoredSecret
    BY <2>1 DEF SecInv, SecTypes, Known
  <2> HIDE DEF s
  <2>3. SecTypes' /\ FoundKept'
    BY <2>1, <2>2 DEF SecInv, SecTypes, FoundKept
  <2>4. Known' \subseteq Known
    BY <2>1, <2>2 DEF Known, SecInv, SecTypes
  <2>5. VersionsKept'
    BY <2>1, <2>4, NoWriteKeepsVersions DEF SecInv
  <2> QED
    BY <2>1, <2>3, <2>5 DEF SecInv, ListKept
<1> QED
  BY <1>1, <1>2

LEMMA SecArrives ==
  ASSUME SecInv, NEW q \in Asker, Sec!Arrive(q)
  PROVE  SecInv'
<1>1. PICK o \in {"create", "update", "delete", "get"}, i \in Sec!Slot, p \in Project :
        asked' = [asked EXCEPT ![q] = [op |-> o, slot |-> i, project |-> p]]
  BY DEF Sec!Arrive
<1>2. /\ asked[q] = None /\ UNCHANGED <<secrets, lastWrite, found, list, omitted>>
      /\ trespasses' = trespasses /\ recreated' = recreated /\ clobbered' = clobbered
  BY DEF Sec!Arrive, Sec!ghosts
<1>3. found[q] = None
  BY <1>2 DEF SecInv, FoundKept
<1>4. SecTypes' /\ FoundKept'
  BY <1>1, <1>2, <1>3 DEF SecInv, SecTypes, FoundKept
<1>5. Known' \subseteq Known
  BY <1>2 DEF Known
<1> QED
  BY <1>2, <1>4, <1>5, NoWriteKeepsVersions DEF SecInv, ListKept

\* What a request acts on is what it read, when it has the same version, and of the
\* same project, when it is still the same Secret.
LEMMA SecWorks ==
  ASSUME SecInv, NEW q \in Asker,
         Sec!CreateSecret(q) \/ Sec!UpdateSecret(q) \/ Sec!DeleteSecret(q)
  PROVE  SecInv'
<1>1. SecTypes /\ VersionsKept /\ FoundKept /\ lastWrite + 1 \in Nat /\ ~clobbered
      /\ (~recreated => trespasses = {})
  BY DEF SecInv, SecTypes
<1>2. omitted' = omitted /\ asked[q] # None /\ asked[q].slot \in Sec!Slot
      /\ asked[q].project \in Project
  BY <1>1 DEF SecTypes, Sec!CreateSecret, Sec!UpdateSecret, Sec!DeleteSecret
<1> DEFINE i == asked[q].slot
<1>3. CASE Sec!Refuse(q) \/ Sec!Fault(q)
  BY <1>2, <1>3, SecEnds
<1>4. CASE ~(Sec!Refuse(q) \/ Sec!Fault(q)) /\ Sec!CreateSecret(q)
  <2>1. /\ Sec!Write(i, Sec!Secret(lastWrite + 1, lastWrite + 1, asked[q].project, TRUE))
        /\ Sec!End(q) /\ UNCHANGED Sec!ghosts
    BY <1>4 DEF Sec!CreateSecret
  <2>2. PICK new : new = Sec!Secret(lastWrite + 1, lastWrite + 1, asked[q].project, TRUE)
    OBVIOUS
  <2>3. new \in StoredSecret /\ new.rv = lastWrite + 1 /\ new.uid = lastWrite + 1
    BY <1>1, <1>2, <2>2 DEF Sec!Secret, StoredSecret
  <2> QED
    BY <1>1, <1>2, <2>1, <2>2, <2>3, SecWrites DEF Drops, Sec!ghosts
<1>5. CASE ~(Sec!Refuse(q) \/ Sec!Fault(q)) /\ Sec!UpdateSecret(q)
  <2>1. /\ secrets[i] # None /\ secrets[i].rv = found[q].rv /\ found[q] # None
        /\ Sec!Trespass(q, secrets[i]) /\ Sec!End(q) /\ ~clobbered'
        /\ recreated' = recreated
        /\ Sec!Write(i, [found[q] EXCEPT !.rv = lastWrite + 1])
    BY <1>1, <1>5 DEF Sec!UpdateSecret
  <2>2. secrets[i] \in Known /\ found[q] \in Known
    BY <1>1, <1>2, <2>1 DEF SecTypes, Known
  <2>3. secrets[i].project = found[q].project
    BY <1>1, <2>1, <2>2 DEF VersionsKept, Versioned
  <2>4. found[q].project = asked[q].project
    BY <1>1, <2>1 DEF FoundKept
  <2>5. trespasses' = trespasses
    BY <2>1, <2>3, <2>4 DEF Sec!Trespass
  <2>6. PICK new : new = [found[q] EXCEPT !.rv = lastWrite + 1]
    OBVIOUS
  <2>7. /\ new \in StoredSecret /\ new.rv = lastWrite + 1 /\ new.uid = found[q].uid
        /\ new.project = found[q].project
    <3>1. found[q] \in StoredSecret
      BY <1>1, <2>1 DEF SecTypes
    <3> QED
      BY <1>1, <2>6, <3>1 DEF StoredSecret
  <2>8. Sec!Write(i, new)
    BY <2>1, <2>6
  <2> QED
    BY <1>1, <1>2, <2>1, <2>2, <2>5, <2>7, <2>8, SecWrites DEF Drops
<1>6. CASE ~(Sec!Refuse(q) \/ Sec!Fault(q)) /\ Sec!DeleteSecret(q)
  <2>1. /\ secrets[i] # None /\ found[q] # None /\ Sec!Write(i, None)
        /\ Sec!Trespass(q, secrets[i]) /\ Sec!End(q) /\ clobbered' = clobbered
        /\ recreated' = (recreated \/ secrets[i].uid # found[q].uid)
    BY <1>6 DEF Sec!DeleteSecret
  <2>2. secrets[i] \in Known /\ found[q] \in Known
    BY <1>1, <1>2, <2>1 DEF SecTypes, Known
  <2>3. ~recreated' => trespasses' = {}
    <3>1. secrets[i].uid = found[q].uid => secrets[i].project = found[q].project
      BY <1>1, <2>2 DEF VersionsKept, Versioned
    <3>2. found[q].project = asked[q].project
      BY <1>1, <2>1 DEF FoundKept
    <3> QED
      BY <1>1, <2>1, <3>1, <3>2 DEF Sec!Trespass
  <2> QED
    BY <1>1, <1>2, <2>1, <2>3, SecWrites DEF Drops
<1> QED
  BY <1>3, <1>4, <1>5, <1>6

LEMMA SecOthers ==
  ASSUME SecInv, Sec!OtherClient
  PROVE  SecInv'
<1>1. SecTypes /\ lastWrite + 1 \in Nat /\ ~clobbered
      /\ (~recreated => trespasses = {})
  BY DEF SecInv, SecTypes
<1>2. /\ Drops /\ omitted' = omitted /\ trespasses' = trespasses
      /\ recreated' = recreated /\ clobbered' = clobbered
  BY DEF Sec!OtherClient, Drops, Sec!ghosts
<1>3. PICK i \in Sec!Slot :
        IF secrets[i] = None
        THEN \E p \in Project, m \in BOOLEAN :
               Sec!Write(i, Sec!Secret(lastWrite + 1, lastWrite + 1, p, m))
        ELSE \/ Sec!Write(i, None)
             \/ Sec!Write(i, [secrets[i] EXCEPT !.rv = lastWrite + 1])
  BY DEF Sec!OtherClient
<1>4. PICK s : Sec!Write(i, s) /\ s \in StoredSecret \cup {None}
               /\ (s # None => /\ s.rv = lastWrite + 1
                               /\ \/ s.uid = lastWrite + 1
                                  \/ \E k \in Known : s.uid = k.uid /\ s.project = k.project)
  <2>1. CASE secrets[i] = None
    <3>1. PICK p \in Project, m \in BOOLEAN :
            Sec!Write(i, Sec!Secret(lastWrite + 1, lastWrite + 1, p, m))
      BY <1>3, <2>1
    <3>2. PICK new : new = Sec!Secret(lastWrite + 1, lastWrite + 1, p, m)
      OBVIOUS
    <3>3. new \in StoredSecret /\ new.rv = lastWrite + 1 /\ new.uid = lastWrite + 1
      BY <1>1, <3>2 DEF Sec!Secret, StoredSecret
    <3> QED
      BY <3>1, <3>2, <3>3
  <2>2. CASE secrets[i] # None /\ Sec!Write(i, None)
    BY <2>2
  <2>3. CASE secrets[i] # None /\ Sec!Write(i, [secrets[i] EXCEPT !.rv = lastWrite + 1])
    <3>1. secrets[i] \in StoredSecret /\ secrets[i] \in Known
      BY <1>1, <2>3 DEF SecTypes, Known
    <3>2. PICK new : new = [secrets[i] EXCEPT !.rv = lastWrite + 1]
      OBVIOUS
    <3>3. /\ new \in StoredSecret /\ new.rv = lastWrite + 1 /\ new.uid = secrets[i].uid
          /\ new.project = secrets[i].project
      BY <1>1, <3>1, <3>2 DEF StoredSecret
    <3> QED
      BY <2>3, <3>1, <3>2, <3>3
  <2> QED
    BY <1>3, <2>1, <2>2, <2>3
<1> QED
  BY <1>1, <1>2, <1>4, SecWrites

\* The list shows what it has found, or says that there is more.
LEMMA SecLists ==
  ASSUME SecInv, Sec!ListAll \/ Sec!BeginList \/ Sec!ListNamespace \/ Sec!AnswerList
  PROVE  SecInv'
<1>1. /\ UNCHANGED <<secrets, lastWrite, asked, found>>
      /\ trespasses' = trespasses /\ recreated' = recreated /\ clobbered' = clobbered
  BY DEF Sec!ListAll, Sec!BeginList, Sec!ListNamespace, Sec!AnswerList, Sec!ghosts
<1>2. VersionsKept' /\ FoundKept'
  <2>1. Known' = Known
    BY <1>1 DEF Known
  <2> QED
    BY <1>1, <2>1 DEF SecInv, VersionsKept, FoundKept
<1>3. SecTypes /\ ListKept /\ ~omitted
  BY DEF SecInv
<1>4. SUFFICES (list' # None => list' \in Listing) /\ ListKept' /\ ~omitted'
  BY <1>1, <1>2 DEF SecInv, SecTypes
<1>5. CASE Sec!ListAll
  BY <1>1, <1>3, <1>5 DEF Sec!ListAll, Sec!Answer, SecTypes, ListKept
<1>6. CASE Sec!BeginList
  <2>1. PICK p \in Project, ns \in SUBSET Sec!Namespaces :
          list' = [project |-> p, todo |-> ns, items |-> {}, stable |-> Sec!Listed(p, ns)]
    BY <1>6 DEF Sec!BeginList
  <2>2. Sec!Listed(p, ns) \in SUBSET Sec!Slot
    BY DEF Sec!Listed
  <2>3. /\ list' \in Listing /\ list'.project = p /\ list'.todo = ns
        /\ list'.stable = Sec!Listed(p, ns)
    BY <2>1, <2>2 DEF Listing
  <2>4. ListKept'
    BY <1>1, <2>3 DEF ListKept, Sec!Listed
  <2> QED
    BY <1>3, <1>6, <2>3, <2>4 DEF Sec!BeginList
<1>7. CASE Sec!ListNamespace
  <2>1. list # None /\ list \in Listing /\ omitted' = omitted
    BY <1>3, <1>7 DEF Sec!ListNamespace, SecTypes
  <2>2. PICK n \in list.todo :
          \/ list' = [list EXCEPT !.todo = @ \ {n},
                                  !.items = @ \cup Sec!Listed(list.project, {n})]
          \/ list' = [list EXCEPT !.todo = @ \ {n}, !.stable = {j \in @ : Sec!NsOf(j) # n}]
    BY <1>7 DEF Sec!ListNamespace
  <2>3. CASE list' = [list EXCEPT !.todo = @ \ {n},
                                  !.items = @ \cup Sec!Listed(list.project, {n})]
    <3>1. Sec!Listed(list.project, {n}) \in SUBSET Sec!Slot
      BY DEF Sec!Listed
    <3>2. /\ list' \in Listing /\ list'.project = list.project /\ list'.todo = list.todo \ {n}
          /\ list'.items = list.items \cup Sec!Listed(list.project, {n})
          /\ list'.stable = list.stable
      BY <2>1, <2>3, <3>1 DEF Listing
    <3>3. \A j \in list'.stable \ list'.items :
            /\ Sec!NsOf(j) \in list'.todo /\ secrets[j] # None
            /\ secrets[j].project = list'.project /\ secrets[j].managed
      <4> SUFFICES ASSUME NEW j \in list'.stable \ list'.items
                   PROVE  /\ Sec!NsOf(j) \in list'.todo /\ secrets[j] # None
                          /\ secrets[j].project = list'.project /\ secrets[j].managed
        OBVIOUS
      <4>1. /\ Sec!NsOf(j) \in list.todo /\ secrets[j] # None
            /\ secrets[j].project = list.project /\ secrets[j].managed
        BY <1>3, <2>1, <3>2 DEF ListKept
      <4>2. j \in Sec!Slot /\ j \notin Sec!Listed(list.project, {n})
        BY <2>1, <3>2 DEF Listing
      <4>3. Sec!NsOf(j) # n
        BY <4>1, <4>2 DEF Sec!Listed
      <4> QED
        BY <3>2, <4>1, <4>3
    <3> QED
      BY <1>1, <1>3, <2>1, <3>2, <3>3 DEF ListKept
  <2>4. CASE list' = [list EXCEPT !.todo = @ \ {n}, !.stable = {j \in @ : Sec!NsOf(j) # n}]
    <3>1. /\ list' \in Listing /\ list'.project = list.project /\ list'.todo = list.todo \ {n}
          /\ list'.items = list.items
          /\ list'.stable = {j \in list.stable : Sec!NsOf(j) # n}
      BY <2>1, <2>4 DEF Listing
    <3> QED
      BY <1>1, <1>3, <2>1, <3>1 DEF ListKept
  <2> QED
    BY <2>2, <2>3, <2>4
<1>8. CASE Sec!AnswerList
  <2>1. list # None /\ list.todo = {} /\ list' = None
        /\ Sec!Answer(Sec!FirstOf(list.items), list.items # Sec!FirstOf(list.items), list.stable)
    BY <1>8 DEF Sec!AnswerList
  <2>2. list.stable \subseteq list.items
    BY <1>3, <2>1 DEF ListKept
  <2> QED
    BY <1>3, <2>1, <2>2 DEF Sec!Answer, ListKept
<1> QED
  BY <1>5, <1>6, <1>7, <1>8

LEMMA SecInvStep == SecInv /\ [Sec!Next]_(Sec!vars) => SecInv'
<1> SUFFICES ASSUME SecInv, [Sec!Next]_(Sec!vars) PROVE SecInv'
  OBVIOUS
<1>1. CASE UNCHANGED Sec!vars
  BY <1>1, SecRefuses DEF Sec!vars, Sec!ghosts, Drops
<1> QED
  BY <1>1, SecArrives, SecReads, SecWorks, SecOthers, SecLists DEF Sec!Next

(* A request works on the Secrets of its own project, undoes no other      *)
(* update, and a list that says nothing of more Secrets is complete.       *)
THEOREM SecretsStayGuarded == AllSpec => []SecretsAreGuarded
<1>1. AllInit => SecInv
  BY SecInvInit
<1>2. SecInv /\ [AllNext]_allVars => SecInv'
  <2>1. [AllNext]_allVars => [Sec!Next]_(Sec!vars)
    BY DEF AllNext, allVars, secretsVars, Sec!vars, Sec!ghosts
  <2> QED
    BY <2>1, SecInvStep
<1>3. SecInv => SecretsAreGuarded
  BY DEF SecInv, SecretsAreGuarded, Sec!StaysInProject, Sec!NoLostChange, Sec!NothingOmitted
<1> QED
  BY <1>1, <1>2, <1>3, PTL DEF AllSpec

-----------------------------------------------------------------------------
(* OidcLogin *)

SignonTypes ==
  signon \in [Login -> {Roles!Waiting}
                         \cup [at : {"add", "assign", "save", "issue"}, roles : SUBSET Roles!Role]]

Waits(q) == signon[q] = Roles!Waiting

\* What is left of the login of the last roles: undisturbed it leaves them everywhere.
LoginKept(q) ==
  LET R == signon[q].roles IN
  /\ signon[q].at = "add" => /\ kept = entitled /\ entitled \subseteq held
                             /\ held \subseteq entitled \cup R
  /\ signon[q].at = "assign" => kept = entitled
  /\ signon[q].at = "save" => held = entitled /\ entitled = R
  /\ signon[q].at = "issue" => held = entitled /\ kept = entitled

TokenFits == jwt = None \/ (jwt.roles = entitled /\ jwt.offers = Roles!Offered(entitled))

LoginsKept ==
  ~spoilt =>
    /\ \A q, r \in Login : ~Waits(q) /\ ~Waits(r) => q = r
    /\ \A q \in Login : ~Waits(q) => LoginKept(q)
    /\ (\A q \in Login : Waits(q)) => held = entitled /\ kept = entitled /\ TokenFits

RolesInv == defaultRole \in {None, Roles!Admin} /\ SignonTypes /\ LoginsKept /\ Roles!OneRoleOfProject

\* Mappings give one role of a project: the highest.
LEMMA HighestIsOne ==
  ASSUME NEW p \in TeamProject, NEW G, NEW r \in Roles!HighestRole(p, G),
         NEW s \in Roles!HighestRole(p, G)
  PROVE  r = s /\ r[1] = p
<1>1. PICK m \in mapping : Roles!Matches(m, G) /\ m.project = p /\ r = <<p, m.role>>
  BY DEF Roles!HighestRole
<1>2. PICK n \in mapping : Roles!Matches(n, G) /\ n.project = p /\ s = <<p, n.role>>
  BY DEF Roles!HighestRole
<1>3. r \in Roles!Role /\ s \in Roles!Role /\ p # srv
  BY IdentityAssumption DEF Roles!HighestRole
<1>4. DOMAIN Roles!Rank = {"platform-admin", "developer", "viewer"}
  BY DEF Roles!Rank
<1>5. m.role \in DOMAIN Roles!Rank /\ n.role \in DOMAIN Roles!Rank
  BY <1>1, <1>2, <1>3 DEF Roles!Role, Roles!Admin
<1>6. Roles!Rank[m.role] <= Roles!Rank[n.role] /\ Roles!Rank[n.role] <= Roles!Rank[m.role]
  BY <1>1, <1>2, <1>5 DEF Roles!HighestRole
<1>7. m.role = n.role
  BY <1>4, <1>5, <1>6 DEF Roles!Rank
<1> QED
  BY <1>1, <1>2, <1>7

LEMMA EvaluateGivesOne ==
  ASSUME NEW G, defaultRole \in {None, Roles!Admin}
  PROVE  /\ Roles!Evaluate(G) \in SUBSET Roles!Role
         /\ \A r, s \in Roles!Evaluate(G) : r[1] = s[1] => r = s
<1>1. Roles!Admin \in Roles!Role /\ Roles!Admin[1] = srv
  BY DEF Roles!Role, Roles!Admin
<1>2. ASSUME NEW x \in Roles!Mapped(G)
      PROVE  x = Roles!Admin \/ \E p \in TeamProject : x \in Roles!HighestRole(p, G)
  BY DEF Roles!Mapped
<1>3. Roles!Mapped(G) \in SUBSET Roles!Role
  BY <1>1, <1>2 DEF Roles!HighestRole
<1>4. ASSUME NEW r \in Roles!Mapped(G), NEW s \in Roles!Mapped(G), r[1] = s[1] PROVE r = s
  BY <1>1, <1>2, <1>4, HighestIsOne, IdentityAssumption
<1> QED
  BY <1>1, <1>3, <1>4 DEF Roles!Evaluate

LEMMA RolesInvInit == AllInit => RolesInv
<1> SUFFICES ASSUME Roles!Init PROVE RolesInv
  BY DEF AllInit
<1>1. SignonTypes /\ \A q \in Login : Waits(q)
  BY DEF Roles!Init, SignonTypes, Waits
<1> QED
  BY <1>1 DEF Roles!Init, RolesInv, LoginsKept, Waits, TokenFits, Roles!OneRoleOfProject

\* A login that does not wait has its roles, and no wait is mistaken for one.
LEMMA WaitingIsIdle ==
  ASSUME SignonTypes, NEW q \in Login
  PROVE  /\ Waits(q) <=> signon[q].at \notin {"add", "assign", "save", "issue"}
         /\ Waits(q) => signon[q].at = "idle"
         /\ ~Waits(q) => signon[q] \in [at : {"add", "assign", "save", "issue"},
                                        roles : SUBSET Roles!Role]
  BY DEF SignonTypes, Waits, Roles!Waiting

\* Login q takes a step and does not disturb another.
LEMMA LoginStep ==
  ASSUME RolesInv, NEW q \in Login, UNCHANGED defaultRole,
         NEW s \in {Roles!Waiting}
                     \cup [at : {"add", "assign", "save", "issue"}, roles : SUBSET Roles!Role],
         signon' = [signon EXCEPT ![q] = s],
         s # Roles!Waiting => \A r, t \in s.roles : r[1] = t[1] => r = t,
         ~spoilt' => /\ ~spoilt /\ \A r \in Login \ {q} : Waits(r)
                     /\ IF s = Roles!Waiting
                        THEN held' = entitled' /\ kept' = entitled' /\ TokenFits'
                        ELSE LoginKept(q)'
  PROVE  RolesInv'
<1>1. signon' \in [Login -> {Roles!Waiting} \cup [at : {"add", "assign", "save", "issue"},
                                                  roles : SUBSET Roles!Role]]
  BY DEF RolesInv, SignonTypes
<1>2. signon'[q] = s /\ \A r \in Login \ {q} : signon'[r] = signon[r]
  BY DEF RolesInv, SignonTypes
<1>3. Roles!OneRoleOfProject'
  BY <1>2 DEF RolesInv, Roles!OneRoleOfProject
<1>4. LoginsKept'
  <2> SUFFICES ASSUME ~spoilt' PROVE /\ \A p, r \in Login : ~Waits(p)' /\ ~Waits(r)' => p = r
                                     /\ \A p \in Login : ~Waits(p)' => LoginKept(p)'
                                     /\ (\A p \in Login : Waits(p)') =>
                                          held' = entitled' /\ kept' = entitled' /\ TokenFits'
    BY DEF LoginsKept
  <2>1. \A r \in Login \ {q} : Waits(r)'
    BY <1>2 DEF Waits
  <2>2. Waits(q)' <=> s = Roles!Waiting
    BY <1>2 DEF Waits
  <2> QED
    BY <2>1, <2>2
<1> QED
  BY <1>1, <1>3, <1>4 DEF RolesInv, SignonTypes

LEMMA RolesSteps ==
  ASSUME RolesInv, NEW q \in Login, Roles!Step(q)
  PROVE  RolesInv'
<1> DEFINE R == signon[q].roles
<1>1. /\ SignonTypes /\ LoginsKept /\ defaultRole' = defaultRole
      /\ defaultRole \in {None, Roles!Admin}
      /\ ~Waits(q) => signon[q] \in [at : {"add", "assign", "save", "issue"},
                                     roles : SUBSET Roles!Role]
      /\ Waits(q) <=> signon[q].at \notin {"add", "assign", "save", "issue"}
  BY WaitingIsIdle DEF RolesInv, Roles!Step, Roles!Claim, Roles!AddUserRole, Roles!Evaluated,
     Roles!AssignUserRoles, Roles!SaveUserRoles, Roles!Issue
<1>2. CASE Roles!Claim(q)
  <2> DEFINE E == Roles!Evaluate(idp)
             s == [at |-> "add", roles |-> E]
  <2>1. /\ E \in SUBSET Roles!Role
        /\ \A r, t \in E : r[1] = t[1] => r = t
    BY <1>1, EvaluateGivesOne
  <2>2. /\ Waits(q) /\ signon' = [signon EXCEPT ![q] = s]
        /\ spoilt' = (spoilt \/ Roles!Others(q))
        /\ UNCHANGED <<held, kept, entitled>>
    BY <1>2 DEF Roles!Claim, Waits
  <2> HIDE DEF E
  <2>3. s \in [at : {"add", "assign", "save", "issue"}, roles : SUBSET Roles!Role]
        /\ s.at = "add" /\ s.roles = E
    BY <2>1
  <2>4. signon'[q] = s
    BY <1>1, <2>2 DEF SignonTypes
  <2>5. ASSUME ~spoilt' PROVE ~spoilt /\ (\A r \in Login \ {q} : Waits(r)) /\ LoginKept(q)'
    <3>1. ~spoilt /\ \A r \in Login : Waits(r)
      BY <2>2, <2>5 DEF Roles!Others, Waits
    <3>2. held = entitled /\ kept = entitled
      BY <1>1, <3>1 DEF LoginsKept
    <3> QED
      BY <2>2, <2>3, <2>4, <3>1, <3>2 DEF LoginKept
  <2>6. s # Roles!Waiting
    BY <2>3 DEF Roles!Waiting
  <2> HIDE DEF s
  <2> QED
    BY <1>1, <2>1, <2>2, <2>3, <2>5, <2>6, LoginStep
<1>3. SUFFICES ASSUME ~Waits(q) PROVE RolesInv'
  BY <1>1, <1>2 DEF Roles!Step, Roles!AddUserRole, Roles!Evaluated, Roles!AssignUserRoles,
     Roles!SaveUserRoles, Roles!Issue
<1>4. /\ R \in SUBSET Roles!Role
      /\ \A r, t \in R : r[1] = t[1] => r = t
  BY <1>1, <1>3 DEF RolesInv, Roles!OneRoleOfProject, Waits
<1>5. ~spoilt => (\A r \in Login \ {q} : Waits(r)) /\ LoginKept(q)
  BY <1>1, <1>3 DEF LoginsKept
<1>6. \A a \in {"add", "assign", "save", "issue"} :
        LET s == [signon[q] EXCEPT !.at = a] IN
        /\ s \in [at : {"add", "assign", "save", "issue"}, roles : SUBSET Roles!Role]
        /\ s.at = a /\ s.roles = R /\ s # Roles!Waiting
  BY <1>1, <1>3 DEF Roles!Waiting
<1>7. CASE Roles!AddUserRole(q)
  <2>1. signon' = signon /\ kept' = kept /\ entitled' = entitled /\ spoilt' = spoilt
    BY <1>7 DEF Roles!AddUserRole
  <2>2. signon' = [signon EXCEPT ![q] = signon[q]]
    BY <1>1, <2>1 DEF SignonTypes
  <2>3. LoginKept(q) => LoginKept(q)'
    BY <1>7, <2>1 DEF Roles!AddUserRole, LoginKept
  <2> QED
    BY <1>1, <1>3, <1>4, <1>5, <2>1, <2>2, <2>3, LoginStep DEF Waits
<1>8. CASE Roles!Evaluated(q)
  <2>1. PICK a \in {"issue", "assign"} :
          /\ signon' = [signon EXCEPT ![q].at = a] /\ (a = "issue" <=> R = {})
          /\ R \subseteq held /\ signon[q].at = "add"
          /\ UNCHANGED <<held, kept, entitled, spoilt>>
    BY <1>8 DEF Roles!Evaluated
  <2>2. PICK s \in [at : {"add", "assign", "save", "issue"}, roles : SUBSET Roles!Role] :
          /\ s = [signon[q] EXCEPT !.at = a]
          /\ s.at = a /\ s.roles = R /\ s # Roles!Waiting
    BY <1>6
  <2>3. signon' = [signon EXCEPT ![q] = s] /\ signon'[q] = s
    BY <1>1, <2>1, <2>2 DEF SignonTypes
  <2>4. LoginKept(q) => LoginKept(q)'
    BY <2>1, <2>2, <2>3 DEF LoginKept
  <2>5. ~spoilt' => ~spoilt /\ (\A r \in Login \ {q} : Waits(r)) /\ LoginKept(q)'
    BY <1>5, <2>1, <2>4
  <2>6. \A r, t \in s.roles : r[1] = t[1] => r = t
    BY <1>4, <2>2
  <2> QED
    BY <1>1, <2>2, <2>3, <2>5, <2>6, LoginStep
<1>9. CASE Roles!AssignUserRoles(q)
  <2>1. /\ signon' = [signon EXCEPT ![q].at = "save"] /\ held' = R /\ entitled' = R
        /\ spoilt' = spoilt
    BY <1>9 DEF Roles!AssignUserRoles
  <2>2. PICK s \in [at : {"add", "assign", "save", "issue"}, roles : SUBSET Roles!Role] :
          /\ s = [signon[q] EXCEPT !.at = "save"]
          /\ s.at = "save" /\ s.roles = R /\ s # Roles!Waiting
    BY <1>6
  <2>3. signon' = [signon EXCEPT ![q] = s] /\ signon'[q] = s
    BY <1>1, <2>1, <2>2 DEF SignonTypes
  <2>4. LoginKept(q)'
    BY <2>1, <2>2, <2>3 DEF LoginKept
  <2>5. ~spoilt' => ~spoilt /\ (\A r \in Login \ {q} : Waits(r)) /\ LoginKept(q)'
    BY <1>5, <2>1, <2>4
  <2>6. \A r, t \in s.roles : r[1] = t[1] => r = t
    BY <1>4, <2>2
  <2> QED
    BY <1>1, <2>2, <2>3, <2>5, <2>6, LoginStep
<1>10. CASE Roles!SaveUserRoles(q)
  <2>1. /\ signon' = [signon EXCEPT ![q].at = "issue"] /\ signon[q].at = "save"
        /\ UNCHANGED <<held, entitled>>
        /\ ~spoilt' => kept' = R /\ ~spoilt
    BY <1>10 DEF Roles!SaveUserRoles
  <2>2. PICK s \in [at : {"add", "assign", "save", "issue"}, roles : SUBSET Roles!Role] :
          /\ s = [signon[q] EXCEPT !.at = "issue"]
          /\ s.at = "issue" /\ s.roles = R /\ s # Roles!Waiting
    BY <1>6
  <2>3. signon' = [signon EXCEPT ![q] = s] /\ signon'[q] = s
    BY <1>1, <2>1, <2>2 DEF SignonTypes
  <2>4. ~spoilt' /\ LoginKept(q) => LoginKept(q)'
    BY <2>1, <2>2, <2>3 DEF LoginKept
  <2>5. ~spoilt' => ~spoilt /\ (\A r \in Login \ {q} : Waits(r)) /\ LoginKept(q)'
    BY <1>5, <2>1, <2>4
  <2>6. \A r, t \in s.roles : r[1] = t[1] => r = t
    BY <1>4, <2>2
  <2> QED
    BY <1>1, <2>2, <2>3, <2>5, <2>6, LoginStep
<1>11. CASE Roles!Issue(q)
  <2>1. /\ signon' = [signon EXCEPT ![q] = Roles!Waiting] /\ signon[q].at = "issue"
        /\ jwt' = [roles |-> held, offers |-> Roles!Offered(held)]
        /\ UNCHANGED <<held, kept, entitled, spoilt>>
    BY <1>11 DEF Roles!Issue
  <2>2. LoginKept(q) => held' = entitled' /\ kept' = entitled' /\ TokenFits'
    BY <2>1 DEF LoginKept, TokenFits
  <2> QED
    BY <1>1, <1>5, <2>1, <2>2, LoginStep
<1> QED
  BY <1>2, <1>7, <1>8, <1>9, <1>10, <1>11 DEF Roles!Step

LEMMA RolesInvStep == RolesInv /\ [Roles!Next]_(Roles!vars) => RolesInv'
<1> SUFFICES ASSUME RolesInv, [Roles!Next]_(Roles!vars) PROVE RolesInv'
  OBVIOUS
<1>1. CASE UNCHANGED Roles!vars \/ Roles!Regroup
  BY <1>1 DEF Roles!vars, Roles!Regroup, RolesInv, SignonTypes, LoginsKept, Waits, LoginKept,
     TokenFits, Roles!OneRoleOfProject
<1>2. CASE Roles!Reboot
  <2>1. /\ \A q \in Login : Waits(q)'
        /\ SignonTypes' /\ defaultRole' = defaultRole
    BY <1>2 DEF Roles!Reboot, SignonTypes, Waits
  <2>2. Roles!OneRoleOfProject'
    BY <2>1 DEF Roles!OneRoleOfProject, Waits
  <2>3. ~spoilt' => held' = entitled' /\ kept' = entitled' /\ TokenFits'
    BY <1>2 DEF Roles!Reboot, RolesInv, LoginsKept, Waits, TokenFits
  <2> QED
    BY <2>1, <2>2, <2>3 DEF RolesInv, LoginsKept
<1> QED
  BY <1>1, <1>2, RolesSteps DEF Roles!Next

(* The requests of MCIdentity are requests of AuthzCache, whose proofs     *)
(* hold for its constants.                                                 *)
FormsP == INSTANCE AuthzCacheProofs WITH
  User <- {u, alt}, Group <- {g}, Role <- {r1}, Object <- {obj}, Reader <- {c1},
  Writer <- {w1}, Projects <- {{r1}}, AltForm <- [x \in {u, alt} |-> IF x = u THEN
  alt ELSE u], CacheTTL <- 1, MaxWrites <- 0

FormsInv == FormsP!Inv /\ FormsP!CalmInv

LEMMA FormsAssumption == FormsP!AuthzAssumption
  BY IdentityAssumption DEF FormsP!AuthzAssumption, FormsP!Subject

LEMMA SameForms ==
  /\ Forms!Init => FormsP!Init
  /\ [Forms!Next]_(Forms!vars) => [FormsP!Next]_(FormsP!vars)
  /\ FormsP!CalmAnswer => Forms!CalmAnswer
<1>1. Forms!Init => FormsP!Init
  BY DEF Forms!Init, FormsP!Init, Forms!Key, FormsP!Key, Forms!Subject, FormsP!Subject
<1>2. [Forms!Next]_(Forms!vars) => [FormsP!Next]_(FormsP!vars)
  BY Zenon DEF
     Forms!Subject, FormsP!Subject, Forms!Key, FormsP!Key, Forms!Entry, FormsP!Entry,
     Forms!Request, FormsP!Request, Forms!policyVars, FormsP!policyVars,
     Forms!readerVars, FormsP!readerVars, Forms!writerVars, FormsP!writerVars,
     Forms!ghostVars, FormsP!ghostVars, Forms!vars, FormsP!vars, Forms!Enforces,
     FormsP!Enforces, Forms!Verdict, FormsP!Verdict, Forms!RolesOf, FormsP!RolesOf,
     Forms!ServerRoles, FormsP!ServerRoles, Forms!Live, FormsP!Live, Forms!Locked,
     FormsP!Locked, Forms!Coherent, FormsP!Coherent, Forms!Settled, FormsP!Settled,
     Forms!Begin, FormsP!Begin, Forms!Answer, FormsP!Answer, Forms!GetHit,
     FormsP!GetHit, Forms!GetMiss, FormsP!GetMiss, Forms!Enforce, FormsP!Enforce,
     Forms!EnforceFails, FormsP!EnforceFails, Forms!Fill, FormsP!Fill,
     Forms!TryGroups, FormsP!TryGroups, Forms!FetchRoles, FormsP!FetchRoles,
     Forms!Deny, FormsP!Deny, Forms!Return, FormsP!Return, Forms!ReaderStep,
     FormsP!ReaderStep, Forms!Write, FormsP!Write, Forms!KeysOf, FormsP!KeysOf,
     Forms!WriteThenDrop, FormsP!WriteThenDrop, Forms!WriteThenFail,
     FormsP!WriteThenFail, Forms!Reloaded, FormsP!Reloaded, Forms!Reruled,
     FormsP!Reruled, Forms!LoadProjectPolicies, FormsP!LoadProjectPolicies,
     Forms!LoadProjectPoliciesFails, FormsP!LoadProjectPoliciesFails,
     Forms!SyncPolicies, FormsP!SyncPolicies, Forms!Replaced, FormsP!Replaced,
     Forms!AssignUserRoles, FormsP!AssignUserRoles, Forms!AssignUserRolesFails,
     FormsP!AssignUserRolesFails, Forms!RemoveUserRoles, FormsP!RemoveUserRoles,
     Forms!InvalidateCache, FormsP!InvalidateCache, Forms!BeginRemoveProject,
     FormsP!BeginRemoveProject, Forms!FinishRemoveProject, FormsP!FinishRemoveProject,
     Forms!DropKey, FormsP!DropKey, Forms!FinishClear, FormsP!FinishClear,
     Forms!WriterStep, FormsP!WriterStep, Forms!Tick, FormsP!Tick, Forms!Cleanup,
     FormsP!Cleanup, Forms!Next, FormsP!Next
<1>3. FormsP!CalmAnswer => Forms!CalmAnswer
  BY Zenon DEF Forms!CalmAnswer, FormsP!CalmAnswer, Forms!Decision, FormsP!Decision,
     Forms!Enforces, FormsP!Enforces
<1> QED
  BY <1>1, <1>2, <1>3

LEMMA FormsInvInit == AllInit => FormsInv
<1>1. AllInit => Forms!Init
  BY DEF AllInit
<1>2. FormsP!Init => FormsP!Inv
  BY FormsAssumption, FormsP!InvInitially
<1>3. FormsP!Init => FormsP!CalmInv
  BY DEF FormsP!Init, FormsP!CalmInv
<1> QED
  BY <1>1, <1>2, <1>3, SameForms DEF FormsInv

LEMMA FormsInvStep == FormsInv /\ [Forms!Next]_(Forms!vars) => FormsInv'
<1>1. FormsP!Inv /\ [FormsP!Next]_(FormsP!vars) => FormsP!Inv'
  BY FormsAssumption, FormsP!InvStep
<1>2. FormsP!Inv /\ FormsP!CalmInv /\ [FormsP!Next]_(FormsP!vars) => FormsP!CalmInv'
  BY FormsAssumption, FormsP!CalmStep
<1> QED
  BY <1>1, <1>2, SameForms DEF FormsInv

LEMMA FormsAreCalm == FormsInv => Forms!CalmAnswer
<1>1. FormsInv => FormsP!CalmAnswer
  BY DEF FormsInv, FormsP!CalmInv, FormsP!CalmRight, FormsP!CalmAnswer
<1> QED
  BY <1>1, SameForms

(* A user that no other login disturbs has the roles of the last login and *)
(* one of each project; a request that no write disturbs is answered as    *)
(* the policy says, whichever spelling of the user the roles were given to.*)
THEOREM RolesAlwaysDecide == AllSpec => []RolesDecide
<1>1. AllInit => RolesInv /\ FormsInv
  BY RolesInvInit, FormsInvInit
<1>2. RolesInv /\ FormsInv /\ [AllNext]_allVars => RolesInv' /\ FormsInv'
  <2>1. [AllNext]_allVars => [Roles!Next]_(Roles!vars) /\ [Forms!Next]_(Forms!vars)
    BY DEF AllNext, allVars, rolesVars, formsVars, Roles!vars, Forms!vars, Forms!policyVars,
       Forms!readerVars, Forms!writerVars, Forms!ghostVars
  <2> QED
    BY <2>1, RolesInvStep, FormsInvStep
<1>3. RolesInv => Roles!RolesAreOfLastLogin /\ Roles!OneRoleOfProject
  BY DEF RolesInv, LoginsKept, Waits, TokenFits, Roles!RolesAreOfLastLogin
<1>4. RolesInv /\ FormsInv => RolesDecide
  BY <1>3, FormsAreCalm DEF RolesDecide
<1> QED
  BY <1>1, <1>2, <1>4, PTL DEF AllSpec

-----------------------------------------------------------------------------
(* Sessions: keys and callers, for any logins, requests, tickets and        *)
(* lifetimes.                                                              *)

Kinds == {"state", "nonce", "verifier", "code", "revoked"}

LEMMA KeysDiffer ==
  /\ \A a \in Kinds : One(a) \in Key
  /\ \A a, b \in Kinds : One(a) = One(b) => a = b
  /\ \A n \in Number : TicketKey(n) \in Key
  /\ \A n, m \in Number : TicketKey(n) = TicketKey(m) => n = m
  /\ \A a \in Kinds, n \in Number : One(a) # TicketKey(n)
  BY DEF Kinds, Key, One, TicketKey

LEMMA SecretKinds ==
  /\ Secrets[1] = "state" /\ Secrets[2] = "nonce" /\ Secrets[3] = "verifier"
  /\ \A n \in 1 .. 3 : Secrets[n] \in Kinds
<1>1. Secrets[1] = "state" /\ Secrets[2] = "nonce" /\ Secrets[3] = "verifier"
  BY DEF Secrets
<1>2. 1 .. 3 = {1, 2, 3}
  OBVIOUS
<1> QED
  BY <1>1, <1>2 DEF Kinds

\* What a write of one key does to the others.
LEMMA SetEffect ==
  ASSUME TypeOK, NEW k \in Key, NEW f \in Flow, NEW v \in Nat, Set(k, f, v)
  PROVE  /\ untilTime' \in [Key \X Flow -> Nat]
         /\ untilTime'[<<k, f>>] = v
         /\ \A j \in Key, l \in Flow : <<j, l>> # <<k, f>> => untilTime'[<<j, l>>] = untilTime[<<j, l>>]
  BY DEF TypeOK, Set

LEMMA GetDelEffect ==
  ASSUME TypeOK, NEW k \in Key, NEW f \in Flow, GetDel(k, f)
  PROVE  /\ untilTime' \in [Key \X Flow -> Nat]
         /\ untilTime[<<k, f>>] # 0 /\ Present(k, f)
         /\ untilTime'[<<k, f>>] = 0
         /\ \A j \in Key, l \in Flow : <<j, l>> # <<k, f>> => untilTime'[<<j, l>>] = untilTime[<<j, l>>]
<1>1. Present(k, f) /\ Set(k, f, 0)
  BY DEF GetDel
<1>2. <<k, f>> \in Key \X Flow
  OBVIOUS
<1>3. untilTime[<<k, f>>] \in Nat
  BY <1>2 DEF TypeOK
<1>4. instant \in Nat /\ instant >= 1
  BY SessionsAssumption DEF TypeOK
<1>5. untilTime[<<k, f>>] # 0
  BY <1>1, <1>3, <1>4 DEF Present
<1> QED
  BY <1>1, <1>5, SetEffect

\* A request p is at the place a of the login l.
At(p, a, l) == caller[p] = [at |-> a, flow |-> l]
Places == {"nonce", "verifier", "exchange", "issue", "cookie", "ticket", "revoke"}
CallerType == caller \in [Caller -> {NoCall} \cup [at : Places, flow : Flow]]

LEMMA CallersGo ==
  ASSUME TypeOK, NEW q \in Caller, NEW a \in Places, NEW f \in Flow,
         caller' = [caller EXCEPT ![q] = [at |-> a, flow |-> f]]
  PROVE  /\ CallerType'
         /\ \A p \in Caller, b \in Places, l \in Flow :
              At(p, b, l)' <=> IF p = q THEN b = a /\ l = f ELSE At(p, b, l)
  BY DEF TypeOK, CallerType, At, Places, NoCall

LEMMA CallersEnd ==
  ASSUME TypeOK, NEW q \in Caller, caller' = [caller EXCEPT ![q] = NoCall]
  PROVE  /\ CallerType'
         /\ \A p \in Caller, b \in Places, l \in Flow : At(p, b, l)' <=> p # q /\ At(p, b, l)
  BY DEF TypeOK, CallerType, At, Places, NoCall

LEMMA CallersMove ==
  ASSUME TypeOK, NEW q \in Caller, NEW a \in Places, NEW f \in Flow, At(q, "exchange", f),
         caller' = [caller EXCEPT ![q].at = a]
  PROVE  caller' = [caller EXCEPT ![q] = [at |-> a, flow |-> f]]
<1>1. caller[q] = [at |-> "exchange", flow |-> f]
  BY DEF At
<1>2. [caller[q] EXCEPT !.at = a] = [at |-> a, flow |-> f]
  BY <1>1
<1> QED
  BY <1>2 DEF TypeOK

LEMMA AtOnce ==
  ASSUME TypeOK, NEW q \in Caller, NEW a, NEW b, NEW f, NEW l, At(q, a, f), At(q, b, l)
  PROVE  a = b /\ f = l
<1>1. [at |-> a, flow |-> f] = [at |-> b, flow |-> l]
  BY DEF At
<1>2. [at |-> a, flow |-> f].at = [at |-> b, flow |-> l].at /\ [at |-> a, flow |-> f].flow = [at |-> b, flow |-> l].flow
  BY <1>1
<1> QED
  BY <1>2

\* What a login has made so far.
Made == [sessions : Nat, cookies : Nat, tickets : 0 .. MaxTickets]

LEMMA MadeSet ==
  ASSUME TypeOK, NEW f \in Flow, NEW r \in Made, made' = [made EXCEPT ![f] = r]
  PROVE  /\ made' \in [Flow -> Made]
         /\ made'[f] = r
         /\ \A l \in Flow : l # f => made'[l] = made[l]
  BY DEF TypeOK, Made

LEMMA SessionsAdd ==
  ASSUME TypeOK, NEW f \in Flow, made' = [made EXCEPT ![f].sessions = @ + 1]
  PROVE  /\ made' \in [Flow -> Made]
         /\ made'[f].sessions = made[f].sessions + 1
         /\ made'[f].cookies = made[f].cookies /\ made'[f].tickets = made[f].tickets
         /\ \A l \in Flow : l # f => made'[l] = made[l]
<1> DEFINE r == [made[f] EXCEPT !.sessions = @ + 1]
<1>1. made[f] \in Made
  BY DEF TypeOK, Made
<1>2. /\ r \in Made /\ r.sessions = made[f].sessions + 1
      /\ r.cookies = made[f].cookies /\ r.tickets = made[f].tickets
  BY <1>1 DEF Made
<1>3. made' = [made EXCEPT ![f] = r]
  OBVIOUS
<1> HIDE DEF r
<1> QED
  BY <1>2, <1>3, MadeSet

LEMMA CookiesAdd ==
  ASSUME TypeOK, NEW f \in Flow, made' = [made EXCEPT ![f].cookies = @ + 1]
  PROVE  /\ made' \in [Flow -> Made]
         /\ made'[f].cookies = made[f].cookies + 1
         /\ made'[f].sessions = made[f].sessions /\ made'[f].tickets = made[f].tickets
         /\ \A l \in Flow : l # f => made'[l] = made[l]
<1> DEFINE r == [made[f] EXCEPT !.cookies = @ + 1]
<1>1. made[f] \in Made
  BY DEF TypeOK, Made
<1>2. /\ r \in Made /\ r.cookies = made[f].cookies + 1
      /\ r.sessions = made[f].sessions /\ r.tickets = made[f].tickets
  BY <1>1 DEF Made
<1>3. made' = [made EXCEPT ![f] = r]
  OBVIOUS
<1> HIDE DEF r
<1> QED
  BY <1>2, <1>3, MadeSet

LEMMA BothAdd ==
  ASSUME TypeOK, NEW f \in Flow,
         made' = [made EXCEPT ![f] = [sessions |-> @.sessions + 1, cookies |-> @.cookies + 1,
                                      tickets |-> @.tickets]]
  PROVE  /\ made' \in [Flow -> Made]
         /\ made'[f].sessions = made[f].sessions + 1
         /\ made'[f].cookies = made[f].cookies + 1 /\ made'[f].tickets = made[f].tickets
         /\ \A l \in Flow : l # f => made'[l] = made[l]
<1> DEFINE r == [sessions |-> made[f].sessions + 1, cookies |-> made[f].cookies + 1,
                 tickets |-> made[f].tickets]
<1>1. made[f] \in Made
  BY DEF TypeOK, Made
<1>2. /\ r \in Made /\ r.sessions = made[f].sessions + 1
      /\ r.cookies = made[f].cookies + 1 /\ r.tickets = made[f].tickets
  BY <1>1 DEF Made
<1>3. made' = [made EXCEPT ![f] = r]
  OBVIOUS
<1> HIDE DEF r
<1> QED
  BY <1>2, <1>3, MadeSet

LEMMA TicketsAdd ==
  ASSUME TypeOK, NEW f \in Flow, made[f].tickets < MaxTickets,
         made' = [made EXCEPT ![f].tickets = @ + 1]
  PROVE  /\ made' \in [Flow -> Made]
         /\ made'[f].tickets = made[f].tickets + 1
         /\ made'[f].sessions = made[f].sessions /\ made'[f].cookies = made[f].cookies
         /\ \A l \in Flow : l # f => made'[l] = made[l]
<1> DEFINE r == [made[f] EXCEPT !.tickets = @ + 1]
<1>1. made[f] \in Made
  BY DEF TypeOK, Made
<1>2. made[f].tickets + 1 \in 0 .. MaxTickets
  BY <1>1, SessionsAssumption DEF Made
<1>3. /\ r \in Made /\ r.tickets = made[f].tickets + 1
      /\ r.sessions = made[f].sessions /\ r.cookies = made[f].cookies
  BY <1>1, <1>2 DEF Made
<1>4. made' = [made EXCEPT ![f] = r]
  OBVIOUS
<1> HIDE DEF r
<1> QED
  BY <1>3, <1>4, MadeSet

-----------------------------------------------------------------------------
(* Types.                                                                    *)

LEMMA InitType == Init => TypeOK
<1>1. 1 \in 1 .. MaxInstant + 1
  BY SessionsAssumption
<1> QED
  BY <1>1, SessionsAssumption DEF Init, TypeOK

\* Writes to Redis have a lifetime, so that the time is a number.
LEMMA Lifetimes ==
  ASSUME TypeOK
  PROVE  /\ instant \in Nat /\ instant >= 1
         /\ instant + StateTTL \in Nat /\ instant + CodeTTL \in Nat
         /\ instant + TicketTTL \in Nat /\ instant + JWTExpiry \in Nat
         /\ \A f \in Flow : expires[f] \in Nat /\ RevokedUntil(f) = expires[f]
<1>1. instant \in Nat /\ instant >= 1
  BY SessionsAssumption DEF TypeOK
<1> QED
  BY <1>1, SessionsAssumption DEF TypeOK, RevokedUntil

LEMMA TypeStep ==
  ASSUME TypeOK, [Next]_vars
  PROVE  TypeOK'
<1> USE Lifetimes, KeysDiffer
<1>1. ASSUME NEW f \in Flow, StoreSecret(f)
      PROVE  TypeOK'
  <2>1. visit[f] \in 0 .. 2
    BY <1>1 DEF StoreSecret, MayStore, TypeOK
  <2>2. Secrets[visit[f] + 1] \in Kinds /\ visit[f] + 1 \in 0 .. 3
    BY <2>1, SecretKinds
  <2>3. untilTime' \in [Key \X Flow -> Nat]
    BY <1>1, <2>2, SetEffect DEF StoreSecret
  <2> QED
    BY <1>1, <2>2, <2>3 DEF StoreSecret, TypeOK
<1>2. ASSUME NEW q \in Caller, NEW f \in Flow, NEW n \in 1 .. 3, Consume(q, f, n)
      PROVE  TypeOK'
  <2>1. untilTime' \in [Key \X Flow -> Nat]
    BY <1>2, SecretKinds, GetDelEffect DEF Consume
  <2> DEFINE a == IF n < 3 THEN Secrets[n + 1] ELSE "exchange"
  <2>2. a \in Places
    <3>1. n = 1 \/ n = 2 \/ n = 3
      OBVIOUS
    <3> QED
      BY <3>1, SecretKinds DEF Places
  <2>3. CallerType'
    BY <1>2, <2>2, CallersGo DEF Consume
  <2> QED
    BY <1>2, <2>1, <2>3 DEF Consume, TypeOK, rest, CallerType, Places
<1>3. ASSUME NEW q \in Caller, NEW f \in Flow, Exchange(q, f)
      PROVE  TypeOK'
  <2>1. caller' = [caller EXCEPT ![q] = [at |-> "issue", flow |-> f]]
    BY <1>3, CallersMove DEF Exchange, At, Places
  <2>2. CallerType'
    BY <2>1, CallersGo DEF Places
  <2> QED
    BY <1>3, <2>2 DEF Exchange, TypeOK, rest, CallerType, Places
<1>4. ASSUME NEW q \in Caller, NEW f \in Flow, IssueSession(q, f)
      PROVE  TypeOK'
  <2>1. CallerType'
    BY <1>4, CallersEnd DEF IssueSession
  <2>2. untilTime' \in [Key \X Flow -> Nat]
    BY <1>4, SetEffect DEF IssueSession, Kinds, TypeOK
  <2>3. expires' \in [Flow -> Nat]
    BY <1>4 DEF IssueSession, TypeOK
  <2>4. made' \in [Flow -> [sessions : Nat, cookies : Nat, tickets : 0 .. MaxTickets]]
    BY <1>4, SessionsAdd, BothAdd DEF IssueSession, Made
  <2> QED
    BY <1>4, <2>1, <2>2, <2>3, <2>4 DEF IssueSession, TypeOK, CallerType, Places
<1>5. ASSUME NEW q \in Caller, Denied(q)
      PROVE  TypeOK'
  <2>1. CallerType'
    BY <1>5, CallersEnd DEF Denied
  <2> QED
    BY <1>5, <2>1 DEF Denied, TypeOK, rest, CallerType, Places
<1>6. ASSUME NEW q \in Caller, NEW f \in Flow, TakeCode(q, f)
      PROVE  TypeOK'
  <2>1. CallerType'
    BY <1>6, CallersGo DEF TakeCode, Places
  <2>2. untilTime' \in [Key \X Flow -> Nat]
    BY <1>6, GetDelEffect DEF TakeCode, Kinds
  <2> QED
    BY <1>6, <2>1, <2>2 DEF TakeCode, TypeOK, rest, CallerType, Places
<1>7. ASSUME NEW q \in Caller, NEW f \in Flow, TokenExchange(q, f)
      PROVE  TypeOK'
  <2>1. CallerType'
    BY <1>7, CallersEnd DEF TokenExchange
  <2>2. made' \in [Flow -> [sessions : Nat, cookies : Nat, tickets : 0 .. MaxTickets]]
    BY <1>7, CookiesAdd DEF TokenExchange, Made
  <2> QED
    BY <1>7, <2>1, <2>2 DEF TokenExchange, TypeOK, CallerType, Places
<1>8. ASSUME NEW q \in Caller, NEW f \in Flow,
             Auth(q, f, "ticket") \/ Auth(q, f, "revoke") \/ AuthUnchecked(q, f)
      PROVE  TypeOK'
  <2>1. PICK a \in Places : caller' = [caller EXCEPT ![q] = [at |-> a, flow |-> f]]
    BY <1>8 DEF Auth, AuthUnchecked, Places
  <2>2. CallerType'
    BY <2>1, CallersGo
  <2> QED
    BY <1>8, <2>2 DEF Auth, AuthUnchecked, TypeOK, rest, CallerType, Places
<1>9. ASSUME NEW q \in Caller, NEW f \in Flow, CreateTicket(q, f)
      PROVE  TypeOK'
  <2>1. CallerType'
    BY <1>9, CallersEnd DEF CreateTicket
  <2>2. made[f].tickets \in 0 .. MaxTickets /\ made[f].tickets < MaxTickets
    BY <1>9 DEF CreateTicket, TypeOK
  <2>3. made[f].tickets + 1 \in Number /\ made[f].tickets + 1 \in 0 .. MaxTickets
    BY <2>2, SessionsAssumption DEF Number
  <2>4. untilTime' \in [Key \X Flow -> Nat]
    BY <1>9, <2>3, SetEffect DEF CreateTicket
  <2>5. made' \in [Flow -> [sessions : Nat, cookies : Nat, tickets : 0 .. MaxTickets]]
    BY <1>9, <2>3 DEF CreateTicket, TypeOK
  <2> QED
    BY <1>9, <2>1, <2>4, <2>5 DEF CreateTicket, TypeOK, CallerType, Places
<1>10. ASSUME NEW f \in Flow, NEW n \in Number, ExchangeTicket(f, n)
       PROVE  TypeOK'
  <2>1. untilTime' \in [Key \X Flow -> Nat]
    BY <1>10, GetDelEffect DEF ExchangeTicket
  <2>2. sockets' \in [Flow \X Number -> Nat]
    BY <1>10 DEF ExchangeTicket, TypeOK
  <2> QED
    BY <1>10, <2>1, <2>2 DEF ExchangeTicket, TypeOK
<1>11. ASSUME NEW q \in Caller, NEW f \in Flow, RevokeCurrentToken(q, f)
       PROVE  TypeOK'
  <2>1. CallerType'
    BY <1>11, CallersEnd DEF RevokeCurrentToken
  <2>2. untilTime' \in [Key \X Flow -> Nat]
    BY <1>11, SetEffect DEF RevokeCurrentToken, Kinds, TypeOK
  <2> QED
    BY <1>11, <2>1, <2>2 DEF RevokeCurrentToken, TypeOK, CallerType, Places
<1>12. CASE Reload
  BY <1>12 DEF Reload, TypeOK
<1>13. CASE Tick
  <2>1. instant' \in 1 .. MaxInstant + 1
    BY <1>13, SessionsAssumption DEF Tick
  <2> QED
    BY <1>13, <2>1 DEF Tick, TypeOK
<1>14. CASE UNCHANGED vars
  BY <1>14 DEF vars, TypeOK
<1> QED
  BY <1>1, <1>2, <1>3, <1>4, <1>5, <1>6, <1>7, <1>8, <1>9, <1>10, <1>11, <1>12, <1>13, <1>14
     DEF Next, FlowStep

(* Redis, the requests and the counters keep their types.                    *)
THEOREM TypeCorrect == Spec => []TypeOK
  BY InitType, TypeStep, PTL DEF Spec

-----------------------------------------------------------------------------
(* The inductive invariant, one part for each kind of credential of a login. *)

Until(a, l) == untilTime[<<One(a), l>>]
TicketUntil(n, l) == untilTime[<<TicketKey(n), l>>]

\* The request that took the state of a login and may make its session.
Holds(p, l) == At(p, "nonce", l) \/ At(p, "verifier", l) \/ At(p, "exchange", l) \/ At(p, "issue", l)

(* Before the state is taken there is no session and no request on the way   *)
(* to one; afterwards there is one such request or one session.              *)
LoginInv(l) ==
  /\ visit[l] < 3 \/ Until("state", l) # 0 =>
       made[l].sessions = 0 /\ \A p \in Caller : ~Holds(p, l)
  /\ \A p \in Caller : Holds(p, l) => made[l].sessions = 0
  /\ \A p, q \in Caller : Holds(p, l) /\ Holds(q, l) => p = q
  /\ made[l].sessions <= 1

(* The same for the code and the cookie it is exchanged for.                 *)
CodeInv(l) ==
  /\ made[l].sessions = 0 \/ Until("code", l) # 0 =>
       made[l].cookies = 0 /\ \A p \in Caller : ~At(p, "cookie", l)
  /\ made[l].sessions = 0 => Until("code", l) = 0
  /\ \A p \in Caller : At(p, "cookie", l) => made[l].cookies = 0
  /\ \A p, q \in Caller : At(p, "cookie", l) /\ At(q, "cookie", l) => p = q
  /\ made[l].cookies <= 1

\* A ticket that is still there opened no socket, and one to come has no key.
TicketInv(l) ==
  \A n \in Number : /\ sockets[<<l, n>>] <= 1
                    /\ TicketUntil(n, l) # 0 => sockets[<<l, n>>] = 0
                    /\ n > made[l].tickets => TicketUntil(n, l) = 0 /\ sockets[<<l, n>>] = 0

(* Only a token that was issued is revoked, and it is issued once: the entry *)
(* lasts as long as the token, or the token was over when it was revoked.    *)
RevokedInv(l) ==
  /\ expires[l] # 0 \/ l \in gone => made[l].sessions # 0
  /\ \A p \in Caller : At(p, "revoke", l) => made[l].sessions # 0
  /\ l \in gone => Until("revoked", l) >= expires[l] \/ expires[l] <= instant

Inv == TypeOK /\ \A l \in Flow : LoginInv(l) /\ CodeInv(l) /\ TicketInv(l) /\ RevokedInv(l)

\* What a step leaves alone of each part.
LoginUndisturbed(l) ==
  /\ visit'[l] = visit[l] /\ Until("state", l)' = Until("state", l)
  /\ made'[l].sessions = made[l].sessions
  /\ \A p \in Caller : Holds(p, l)' => Holds(p, l)
CodeKept(l) ==
  /\ Until("code", l)' = Until("code", l)
  /\ made'[l].sessions = made[l].sessions /\ made'[l].cookies = made[l].cookies
  /\ \A p \in Caller : At(p, "cookie", l)' => At(p, "cookie", l)
TicketKept(l) ==
  /\ \A n \in Number : TicketUntil(n, l)' = TicketUntil(n, l) /\ sockets'[<<l, n>>] = sockets[<<l, n>>]
  /\ made'[l].tickets = made[l].tickets
RevokedKept(l) ==
  /\ expires'[l] = expires[l] /\ (l \in gone' => l \in gone) /\ instant' >= instant
  /\ Until("revoked", l)' = Until("revoked", l)
  /\ made'[l].sessions = made[l].sessions
  /\ \A p \in Caller : At(p, "revoke", l)' => At(p, "revoke", l)

LEMMA KeptIsInvariant ==
  ASSUME TypeOK, TypeOK', NEW l \in Flow
  PROVE  /\ LoginInv(l) /\ LoginUndisturbed(l) => LoginInv(l)'
         /\ CodeInv(l) /\ CodeKept(l) => CodeInv(l)'
         /\ TicketInv(l) /\ TicketKept(l) => TicketInv(l)'
         /\ RevokedInv(l) /\ RevokedKept(l) => RevokedInv(l)'
<1>1. LoginInv(l) /\ LoginUndisturbed(l) => LoginInv(l)'
  BY DEF LoginInv, LoginUndisturbed
<1>2. CodeInv(l) /\ CodeKept(l) => CodeInv(l)'
  BY DEF CodeInv, CodeKept
<1>3. TicketInv(l) /\ TicketKept(l) => TicketInv(l)'
  BY DEF TicketInv, TicketKept
<1>4. RevokedInv(l) /\ RevokedKept(l) => RevokedInv(l)'
  <2>1. instant \in Nat /\ instant' \in Nat /\ expires[l] \in Nat
    BY SessionsAssumption DEF TypeOK
  <2> QED
    BY <2>1 DEF RevokedInv, RevokedKept
<1> QED
  BY <1>1, <1>2, <1>3, <1>4

LEMMA InvInit == Init => Inv
<1> SUFFICES ASSUME Init, NEW l \in Flow
             PROVE  LoginInv(l) /\ CodeInv(l) /\ TicketInv(l) /\ RevokedInv(l)
  BY InitType DEF Inv
<1>1. \A p \in Caller, b \in Places : ~At(p, b, l)
  BY DEF Init, At, Places, NoCall
<1>2. \A p \in Caller : ~Holds(p, l)
  BY <1>1 DEF Holds, Places
<1>3. \A k \in Key : untilTime[<<k, l>>] = 0
  BY DEF Init
<1>4. \A a \in Kinds : Until(a, l) = 0
  BY <1>3, KeysDiffer DEF Until
<1>5. \A n \in Number : TicketUntil(n, l) = 0 /\ sockets[<<l, n>>] = 0
  BY <1>3, KeysDiffer DEF TicketUntil, Init
<1>6. made[l].sessions = 0 /\ made[l].cookies = 0 /\ made[l].tickets = 0 /\ expires[l] = 0 /\ l \notin gone
  BY DEF Init
<1>7. "cookie" \in Places /\ "revoke" \in Places /\ {"state", "code", "revoked"} \subseteq Kinds
  BY DEF Places, Kinds
<1>8. LoginInv(l)
  BY <1>2, <1>6 DEF LoginInv
<1>9. CodeInv(l)
  BY <1>1, <1>4, <1>6, <1>7 DEF CodeInv
<1>10. TicketInv(l)
  BY <1>5, <1>6 DEF TicketInv
<1>11. RevokedInv(l)
  BY <1>1, <1>6, <1>7 DEF RevokedInv
<1> QED
  BY <1>8, <1>9, <1>10, <1>11

-----------------------------------------------------------------------------
(* Steps, by what they do to the times and to the requests.                  *)

LEMMA OneSet ==
  ASSUME TypeOK, NEW a \in Kinds, NEW f \in Flow, NEW v \in Nat, Set(One(a), f, v)
  PROVE  /\ Until(a, f)' = v
         /\ \A b \in Kinds, l \in Flow : b # a \/ l # f => Until(b, l)' = Until(b, l)
         /\ \A n \in Number, l \in Flow : TicketUntil(n, l)' = TicketUntil(n, l)
<1>1. One(a) \in Key
  BY KeysDiffer
<1>2. /\ untilTime'[<<One(a), f>>] = v
      /\ \A j \in Key, l \in Flow : <<j, l>> # <<One(a), f>> => untilTime'[<<j, l>>] = untilTime[<<j, l>>]
  BY <1>1, SetEffect
<1>3. \A j \in Key, l \in Flow : j # One(a) \/ l # f => untilTime'[<<j, l>>] = untilTime[<<j, l>>]
  BY <1>2
<1> QED
  BY <1>2, <1>3, KeysDiffer DEF Until, TicketUntil

LEMMA OneTaken ==
  ASSUME TypeOK, NEW a \in Kinds, NEW f \in Flow, GetDel(One(a), f)
  PROVE  /\ Until(a, f) # 0 /\ Until(a, f)' = 0
         /\ \A b \in Kinds, l \in Flow : b # a \/ l # f => Until(b, l)' = Until(b, l)
         /\ \A n \in Number, l \in Flow : TicketUntil(n, l)' = TicketUntil(n, l)
<1>1. One(a) \in Key
  BY KeysDiffer
<1>2. untilTime[<<One(a), f>>] # 0
  BY <1>1, GetDelEffect
<1>3. Set(One(a), f, 0)
  BY DEF GetDel
<1> QED
  BY <1>2, <1>3, OneSet DEF Until

LEMMA TicketSet ==
  ASSUME TypeOK, NEW n \in Number, NEW f \in Flow, NEW v \in Nat, Set(TicketKey(n), f, v)
  PROVE  /\ TicketUntil(n, f)' = v
         /\ \A b \in Kinds, l \in Flow : Until(b, l)' = Until(b, l)
         /\ \A m \in Number, l \in Flow : m # n \/ l # f => TicketUntil(m, l)' = TicketUntil(m, l)
<1>1. TicketKey(n) \in Key
  BY KeysDiffer
<1>2. /\ untilTime'[<<TicketKey(n), f>>] = v
      /\ \A j \in Key, l \in Flow : <<j, l>> # <<TicketKey(n), f>> => untilTime'[<<j, l>>] = untilTime[<<j, l>>]
  BY <1>1, SetEffect
<1>3. \A j \in Key, l \in Flow : j # TicketKey(n) \/ l # f => untilTime'[<<j, l>>] = untilTime[<<j, l>>]
  BY <1>2
<1> QED
  BY <1>2, <1>3, KeysDiffer DEF Until, TicketUntil

LEMMA TicketTaken ==
  ASSUME TypeOK, NEW n \in Number, NEW f \in Flow, GetDel(TicketKey(n), f)
  PROVE  /\ TicketUntil(n, f) # 0 /\ TicketUntil(n, f)' = 0
         /\ \A b \in Kinds, l \in Flow : Until(b, l)' = Until(b, l)
         /\ \A m \in Number, l \in Flow : m # n \/ l # f => TicketUntil(m, l)' = TicketUntil(m, l)
<1>1. TicketKey(n) \in Key
  BY KeysDiffer
<1>2. untilTime[<<TicketKey(n), f>>] # 0
  BY <1>1, GetDelEffect
<1>3. Set(TicketKey(n), f, 0)
  BY DEF GetDel
<1> QED
  BY <1>2, <1>3, TicketSet DEF TicketUntil

\* Where a request may be after it went to a.
Goes(q, a, f) == caller' = [caller EXCEPT ![q] = [at |-> a, flow |-> f]]

LEMMA HoldsGo ==
  ASSUME TypeOK, NEW q \in Caller, NEW a \in Places, NEW f \in Flow, Goes(q, a, f)
  PROVE  /\ \A p \in Caller, l \in Flow : Holds(p, l)' <=>
              IF p = q THEN l = f /\ a \in {"nonce", "verifier", "exchange", "issue"} ELSE Holds(p, l)
         /\ \A p \in Caller, l \in Flow : At(p, "cookie", l)' <=>
              IF p = q THEN l = f /\ a = "cookie" ELSE At(p, "cookie", l)
         /\ \A p \in Caller, l \in Flow : At(p, "revoke", l)' <=>
              IF p = q THEN l = f /\ a = "revoke" ELSE At(p, "revoke", l)
<1>1. \A p \in Caller, b \in Places, l \in Flow :
        At(p, b, l)' <=> IF p = q THEN b = a /\ l = f ELSE At(p, b, l)
  BY CallersGo DEF Goes
<1> QED
  BY <1>1 DEF Holds, Places

LEMMA HoldsEnd ==
  ASSUME TypeOK, NEW q \in Caller, caller' = [caller EXCEPT ![q] = NoCall]
  PROVE  /\ \A p \in Caller, l \in Flow : Holds(p, l)' <=> p # q /\ Holds(p, l)
         /\ \A p \in Caller, l \in Flow : At(p, "cookie", l)' <=> p # q /\ At(p, "cookie", l)
         /\ \A p \in Caller, l \in Flow : At(p, "revoke", l)' <=> p # q /\ At(p, "revoke", l)
<1>1. \A p \in Caller, b \in Places, l \in Flow : At(p, b, l)' <=> p # q /\ At(p, b, l)
  BY CallersEnd
<1> QED
  BY <1>1 DEF Holds, Places

LEMMA UntilKept ==
  ASSUME UNCHANGED untilTime
  PROVE  /\ \A b \in Kinds, l \in Flow : Until(b, l)' = Until(b, l)
         /\ \A n \in Number, l \in Flow : TicketUntil(n, l)' = TicketUntil(n, l)
  BY DEF Until, TicketUntil

\* A token that is accepted was issued.
LEMMA AcceptedIsIssued ==
  ASSUME TypeOK, NEW f \in Flow, Alive(f), RevokedInv(f)
  PROVE  made[f].sessions # 0
<1>1. expires[f] # 0
  BY Lifetimes DEF Alive
<1> QED
  BY <1>1 DEF RevokedInv

LEMMA Kept ==
  ASSUME Inv, TypeOK', NEW l \in Flow
  PROVE  /\ LoginUndisturbed(l) => LoginInv(l)'
         /\ CodeKept(l) => CodeInv(l)'
         /\ TicketKept(l) => TicketInv(l)'
         /\ RevokedKept(l) => RevokedInv(l)'
  BY KeptIsInvariant DEF Inv

LEMMA StoreSecretStep ==
  ASSUME Inv, TypeOK', NEW l \in Flow, NEW f \in Flow, StoreSecret(f)
  PROVE  LoginInv(l)' /\ CodeInv(l)' /\ TicketInv(l)' /\ RevokedInv(l)'
<1>0. TypeOK
  BY DEF Inv
<1> DEFINE a == Secrets[visit[f] + 1]
<1>1. visit[f] \in 0 .. 2
  BY <1>0 DEF StoreSecret, MayStore, TypeOK
<1>2. a \in {"state", "nonce", "verifier"} /\ (visit[f] # 0 => a # "state")
  BY <1>1, SecretKinds
<1> HIDE DEF a
<1>3. {"state", "nonce", "verifier", "code", "revoked"} = Kinds /\ a \in Kinds
  BY <1>2 DEF Kinds
<1>4. /\ \A b \in Kinds, h \in Flow : b # a \/ h # f => Until(b, h)' = Until(b, h)
      /\ \A n \in Number, h \in Flow : TicketUntil(n, h)' = TicketUntil(n, h)
  <2>1. Set(One(a), f, instant + StateTTL)
    BY DEF StoreSecret, a
  <2> QED
    BY <1>0, <1>3, <2>1, OneSet, Lifetimes
<1>5. UNCHANGED <<caller, expires, made, sockets, gone, known, instant>>
  BY DEF StoreSecret
<1>6. \A p \in Caller : \A b, h : At(p, b, h)' <=> At(p, b, h)
  BY <1>5 DEF At
<1>7. \A p \in Caller : Holds(p, l)' <=> Holds(p, l)
  BY <1>6 DEF Holds
<1>8. CodeKept(l) /\ TicketKept(l) /\ RevokedKept(l)
  BY <1>2, <1>3, <1>4, <1>5, <1>6, Lifetimes, <1>0 DEF CodeKept, TicketKept, RevokedKept
<1>9. LoginInv(l)'
  <2>1. CASE l = f
    <3>1. made[f].sessions = 0 /\ \A p \in Caller : ~Holds(p, f)
      BY <1>1 DEF Inv, LoginInv
    <3> QED
      BY <2>1, <3>1, <1>5, <1>7 DEF LoginInv
  <2>2. CASE l # f
    <3>1. visit'[l] = visit[l]
      BY <2>2, <1>0 DEF StoreSecret, TypeOK
    <3>2. LoginUndisturbed(l)
      BY <2>2, <3>1, <1>3, <1>4, <1>5, <1>7 DEF LoginUndisturbed
    <3> QED
      BY <3>2, Kept
  <2> QED
    BY <2>1, <2>2
<1> QED
  BY <1>8, <1>9, Kept

LEMMA ConsumeStep ==
  ASSUME Inv, TypeOK', NEW l \in Flow, NEW q \in Caller, NEW f \in Flow, NEW n \in 1 .. 3, Consume(q, f, n)
  PROVE  LoginInv(l)' /\ CodeInv(l)' /\ TicketInv(l)' /\ RevokedInv(l)'
<1>0. TypeOK /\ LoginInv(l)
  BY DEF Inv
<1> DEFINE a == Secrets[n]
           b == IF n < 3 THEN Secrets[n + 1] ELSE "exchange"
<1>1. /\ a \in Kinds \ {"code", "revoked"}
      /\ (n = 1 <=> a = "state")
      /\ b \in {"nonce", "verifier", "exchange", "issue"} /\ b \in Places
      /\ n # 1 => a \in {"nonce", "verifier"}
  <2>1. n = 1 \/ n = 2 \/ n = 3
    OBVIOUS
  <2> QED
    BY <2>1, SecretKinds DEF Places, Kinds
<1>2. /\ Until(a, f) # 0 /\ Until(a, f)' = 0
      /\ \A c \in Kinds, h \in Flow : c # a \/ h # f => Until(c, h)' = Until(c, h)
      /\ \A m \in Number, h \in Flow : TicketUntil(m, h)' = TicketUntil(m, h)
  BY <1>0, <1>1, OneTaken DEF Consume
<1>3. /\ caller' = [caller EXCEPT ![q] = [at |-> b, flow |-> f]]
      /\ UNCHANGED <<visit, expires, made, sockets, gone, known, instant>>
      /\ n = 1 => visit[f] = 3
      /\ n # 1 => At(q, a, f)
  BY DEF Consume, rest, At
<1> HIDE DEF a, b
<1>4. {"state", "code", "revoked"} \subseteq Kinds
  BY DEF Kinds
<1>5. /\ \A p \in Caller, h \in Flow : Holds(p, h)' <=> IF p = q THEN h = f ELSE Holds(p, h)
      /\ \A p \in Caller, h \in Flow : At(p, "cookie", h)' => At(p, "cookie", h)
      /\ \A p \in Caller, h \in Flow : At(p, "revoke", h)' => At(p, "revoke", h)
  <2>1. b \in Places /\ b # "cookie" /\ b # "revoke"
    BY <1>1
  <2>2. Goes(q, b, f)
    BY <1>3 DEF Goes
  <2>3. /\ \A p \in Caller, h \in Flow : Holds(p, h)' <=>
              IF p = q THEN h = f /\ b \in {"nonce", "verifier", "exchange", "issue"} ELSE Holds(p, h)
        /\ \A p \in Caller, h \in Flow : At(p, "cookie", h)' <=>
              IF p = q THEN h = f /\ b = "cookie" ELSE At(p, "cookie", h)
        /\ \A p \in Caller, h \in Flow : At(p, "revoke", h)' <=>
              IF p = q THEN h = f /\ b = "revoke" ELSE At(p, "revoke", h)
    BY <1>0, <2>1, <2>2, HoldsGo
  <2> QED
    BY <1>1, <2>1, <2>3
<1>6. CodeKept(l) /\ TicketKept(l) /\ RevokedKept(l)
  BY <1>0, <1>1, <1>2, <1>3, <1>4, <1>5, Lifetimes DEF CodeKept, TicketKept, RevokedKept
<1>7. LoginInv(l)'
  <2>1. CASE l # f
    <3>1. LoginUndisturbed(l)
      BY <2>1, <1>2, <1>3, <1>4, <1>5 DEF LoginUndisturbed
    <3> QED
      BY <3>1, Kept
  <2>2. CASE l = f /\ n = 1
    <3>1. made[f].sessions = 0 /\ \A p \in Caller : ~Holds(p, f)
      BY <2>2, <1>0, <1>1, <1>2 DEF LoginInv
    <3>2. visit'[f] = 3 /\ Until("state", f)' = 0
      BY <2>2, <1>1, <1>2, <1>3
    <3> QED
      BY <2>2, <3>1, <3>2, <1>3, <1>5 DEF LoginInv
  <2>3. CASE l = f /\ n # 1
    <3>1. Holds(q, f)
      BY <2>3, <1>1, <1>3 DEF Holds
    <3>2. LoginUndisturbed(f)
      BY <2>3, <3>1, <1>1, <1>2, <1>3, <1>4, <1>5 DEF LoginUndisturbed
    <3> QED
      BY <2>3, <3>2, Kept
  <2> QED
    BY <2>1, <2>2, <2>3
<1> QED
  BY <1>6, <1>7, Kept

\* The kinds that the parts of the invariant speak of.
LEMMA SomeKinds == "state" \in Kinds /\ "code" \in Kinds /\ "revoked" \in Kinds
  BY DEF Kinds

\* A step that changes nothing but the requests, none of which gets a secret or a token.
LEMMA NothingTaken ==
  ASSUME Inv, TypeOK', NEW l \in Flow,
         UNCHANGED <<untilTime, visit, expires, made, sockets, gone>>, instant' >= instant,
         \A p \in Caller : /\ Holds(p, l)' => Holds(p, l)
                           /\ At(p, "cookie", l)' => At(p, "cookie", l)
                           /\ At(p, "revoke", l)' => At(p, "revoke", l)
  PROVE  LoginInv(l)' /\ CodeInv(l)' /\ TicketInv(l)' /\ RevokedInv(l)'
<1>1. /\ \A b \in Kinds : Until(b, l)' = Until(b, l)
      /\ \A n \in Number : TicketUntil(n, l)' = TicketUntil(n, l)
  BY UntilKept
<1>2. LoginUndisturbed(l)
  BY <1>1, SomeKinds DEF LoginUndisturbed
<1>3. CodeKept(l)
  BY <1>1, SomeKinds DEF CodeKept
<1>4. TicketKept(l)
  BY <1>1 DEF TicketKept
<1>5. RevokedKept(l)
  BY <1>1, SomeKinds DEF RevokedKept
<1> QED
  BY <1>2, <1>3, <1>4, <1>5, Kept

LEMMA QuietStep ==
  ASSUME Inv, TypeOK', NEW l \in Flow,
         \/ \E q \in Caller, f \in Flow : Exchange(q, f) \/ Auth(q, f, "ticket") \/ AuthUnchecked(q, f)
         \/ \E q \in Caller : Denied(q)
         \/ Reload \/ Tick \/ UNCHANGED vars
  PROVE  LoginInv(l)' /\ CodeInv(l)' /\ TicketInv(l)' /\ RevokedInv(l)'
<1>0. TypeOK /\ instant \in Nat
  BY Lifetimes DEF Inv
<1>1. ASSUME NEW q \in Caller, NEW f \in Flow, Exchange(q, f)
      PROVE  LoginInv(l)' /\ CodeInv(l)' /\ TicketInv(l)' /\ RevokedInv(l)'
  <2>1. At(q, "exchange", f) /\ "issue" \in Places
    BY <1>1 DEF Exchange, At, Places
  <2>2. Goes(q, "issue", f)
    BY <1>0, <1>1, CallersMove DEF Exchange, At, Places, Goes
  <2>3. Holds(q, f)
    BY <2>1 DEF Holds
  <2>4. /\ \A p \in Caller : Holds(p, l)' => Holds(p, l)
        /\ \A p \in Caller : At(p, "cookie", l)' => At(p, "cookie", l)
        /\ \A p \in Caller : At(p, "revoke", l)' => At(p, "revoke", l)
    BY <1>0, <2>1, <2>2, <2>3, HoldsGo
  <2> QED
    BY <1>0, <1>1, <2>4, NothingTaken DEF Exchange, rest
<1>2. ASSUME NEW q \in Caller, NEW f \in Flow, Auth(q, f, "ticket") \/ AuthUnchecked(q, f)
      PROVE  LoginInv(l)' /\ CodeInv(l)' /\ TicketInv(l)' /\ RevokedInv(l)'
  <2>1. Goes(q, "ticket", f) /\ UNCHANGED <<untilTime, rest>>
    BY <1>2 DEF Auth, AuthUnchecked, Goes
  <2>2. "ticket" \in Places
    BY DEF Places
  <2>3. /\ \A p \in Caller : Holds(p, l)' => Holds(p, l)
        /\ \A p \in Caller : At(p, "cookie", l)' => At(p, "cookie", l)
        /\ \A p \in Caller : At(p, "revoke", l)' => At(p, "revoke", l)
    BY <1>0, <2>1, <2>2, HoldsGo
  <2> QED
    BY <1>0, <2>1, <2>3, NothingTaken DEF rest
<1>3. ASSUME NEW q \in Caller, Denied(q)
      PROVE  LoginInv(l)' /\ CodeInv(l)' /\ TicketInv(l)' /\ RevokedInv(l)'
  <2>1. /\ \A p \in Caller : Holds(p, l)' => Holds(p, l)
        /\ \A p \in Caller : At(p, "cookie", l)' => At(p, "cookie", l)
        /\ \A p \in Caller : At(p, "revoke", l)' => At(p, "revoke", l)
    BY <1>0, <1>3, HoldsEnd DEF Denied
  <2> QED
    BY <1>0, <1>3, <2>1, NothingTaken DEF Denied, rest
<1>4. CASE Reload \/ Tick \/ UNCHANGED vars
  <2>1. /\ UNCHANGED <<untilTime, visit, caller, expires, made, sockets, gone>>
        /\ instant' >= instant
    BY <1>0, <1>4 DEF Reload, Tick, vars
  <2>2. \A p \in Caller, b \in Places : At(p, b, l)' <=> At(p, b, l)
    BY <2>1 DEF At
  <2>3. \A p \in Caller : /\ Holds(p, l)' => Holds(p, l)
                          /\ At(p, "cookie", l)' => At(p, "cookie", l)
                          /\ At(p, "revoke", l)' => At(p, "revoke", l)
    BY <2>2 DEF Holds, Places
  <2> QED
    BY <2>1, <2>3, NothingTaken
<1> QED
  BY <1>1, <1>2, <1>3, <1>4

LEMMA IssueSessionStep ==
  ASSUME Inv, TypeOK', NEW l \in Flow, NEW q \in Caller, NEW f \in Flow, IssueSession(q, f)
  PROVE  LoginInv(l)' /\ CodeInv(l)' /\ TicketInv(l)' /\ RevokedInv(l)'
<1>0. /\ TypeOK /\ instant' = instant /\ visit' = visit /\ gone' = gone /\ sockets' = sockets
      /\ LoginInv(f) /\ CodeInv(f) /\ RevokedInv(f)
      /\ LoginInv(l) /\ CodeInv(l) /\ RevokedInv(l) /\ made[f].sessions \in Nat
  BY DEF Inv, IssueSession, TypeOK
<1>1. Holds(q, f) /\ made[f].sessions = 0
  BY <1>0 DEF IssueSession, Holds, At, LoginInv
<1>2. /\ \A p \in Caller, h \in Flow : Holds(p, h)' <=> p # q /\ Holds(p, h)
      /\ \A p \in Caller, h \in Flow : At(p, "cookie", h)' <=> p # q /\ At(p, "cookie", h)
      /\ \A p \in Caller, h \in Flow : At(p, "revoke", h)' <=> p # q /\ At(p, "revoke", h)
  BY <1>0, HoldsEnd DEF IssueSession
<1>3. /\ \A b \in Kinds, h \in Flow : b # "code" \/ h # f => Until(b, h)' = Until(b, h)
      /\ \A n \in Number, h \in Flow : TicketUntil(n, h)' = TicketUntil(n, h)
  BY <1>0, OneSet, UntilKept, Lifetimes, SomeKinds DEF IssueSession
<1>4. /\ made'[f].sessions = 1 /\ made'[f].tickets = made[f].tickets
      /\ \A h \in Flow : h # f => made'[h] = made[h]
  BY <1>0, <1>1, SessionsAdd, BothAdd DEF IssueSession
<1>5. Until("code", f)' = 0 \/ made'[f].cookies = 0
  <2>1. Until("code", f) = 0 /\ made[f].cookies = 0
    BY <1>0, <1>1 DEF CodeInv
  <2>2. CASE made' = [made EXCEPT ![f].sessions = @ + 1]
    BY <1>0, <2>1, <2>2, SessionsAdd
  <2>3. CASE UNCHANGED untilTime
    BY <2>1, <2>3, UntilKept, SomeKinds
  <2> QED
    BY <2>2, <2>3 DEF IssueSession
<1>6. made'[f].cookies \in {0, 1}
  <2>1. made[f].cookies = 0
    BY <1>0, <1>1 DEF CodeInv
  <2> QED
    BY <1>0, <2>1, SessionsAdd, BothAdd DEF IssueSession
<1>7. TicketKept(l)
  BY <1>0, <1>3, <1>4 DEF TicketKept
<1>8. CASE l # f
  <2>1. expires'[l] = expires[l]
    BY <1>0, <1>8 DEF IssueSession, TypeOK
  <2>2. LoginUndisturbed(l) /\ CodeKept(l) /\ RevokedKept(l)
    BY <1>0, <1>2, <1>3, <1>4, <1>8, <2>1, SomeKinds, Lifetimes DEF LoginUndisturbed, CodeKept, RevokedKept
  <2> QED
    BY <1>7, <2>2, Kept
<1>9. CASE l = f
  <2>1. LoginInv(f)'
    <3>1. visit[f] \in 0 .. 3 /\ ~(visit[f] < 3 \/ Until("state", f) # 0)
      BY <1>0, <1>1 DEF LoginInv, TypeOK
    <3>2. \A p \in Caller : ~Holds(p, f)'
      BY <1>0, <1>1, <1>2 DEF LoginInv
    <3>3. Until("state", f)' = Until("state", f) /\ visit'[f] = visit[f]
      BY <1>0, <1>3, SomeKinds
    <3> QED
      BY <3>1, <3>2, <3>3, <1>4 DEF LoginInv
  <2>2. CodeInv(f)'
    <3>1. \A p \in Caller : ~At(p, "cookie", f)'
      BY <1>0, <1>1, <1>2 DEF CodeInv
    <3> QED
      BY <3>1, <1>4, <1>5, <1>6 DEF CodeInv
  <2>3. RevokedInv(f)'
    BY <1>0, <1>1, <1>4 DEF RevokedInv
  <2> QED
    BY <1>7, <1>9, <2>1, <2>2, <2>3, Kept
<1> QED
  BY <1>8, <1>9

LEMMA TakeCodeStep ==
  ASSUME Inv, TypeOK', NEW l \in Flow, NEW q \in Caller, NEW f \in Flow, TakeCode(q, f)
  PROVE  LoginInv(l)' /\ CodeInv(l)' /\ TicketInv(l)' /\ RevokedInv(l)'
<1>0. /\ TypeOK /\ CodeInv(f) /\ CodeInv(l)
      /\ UNCHANGED <<visit, expires, made, sockets, gone, known, instant>>
  BY DEF Inv, TakeCode, rest
<1>1. /\ \A p \in Caller, h \in Flow : Holds(p, h)' => Holds(p, h)
      /\ \A p \in Caller, h \in Flow : At(p, "cookie", h)' <=> IF p = q THEN h = f ELSE At(p, "cookie", h)
      /\ \A p \in Caller, h \in Flow : At(p, "revoke", h)' => At(p, "revoke", h)
  <2>1. Goes(q, "cookie", f) /\ "cookie" \in Places
    BY DEF TakeCode, Places, Goes
  <2> QED
    BY <1>0, <2>1, HoldsGo
<1>2. /\ Until("code", f) # 0 /\ Until("code", f)' = 0
      /\ \A b \in Kinds, h \in Flow : b # "code" \/ h # f => Until(b, h)' = Until(b, h)
      /\ \A n \in Number, h \in Flow : TicketUntil(n, h)' = TicketUntil(n, h)
  BY <1>0, OneTaken, SomeKinds DEF TakeCode
<1>3. LoginUndisturbed(l) /\ TicketKept(l) /\ RevokedKept(l)
  BY <1>0, <1>1, <1>2, SomeKinds, Lifetimes DEF LoginUndisturbed, TicketKept, RevokedKept
<1>4. CodeInv(l)'
  <2>1. CASE l = f
    BY <2>1, <1>0, <1>1, <1>2 DEF CodeInv
  <2>2. CASE l # f
    <3>1. CodeKept(l)
      BY <2>2, <1>0, <1>1, <1>2, SomeKinds DEF CodeKept
    <3> QED
      BY <3>1, Kept
  <2> QED
    BY <2>1, <2>2
<1> QED
  BY <1>3, <1>4, Kept

LEMMA TokenExchangeStep ==
  ASSUME Inv, TypeOK', NEW l \in Flow, NEW q \in Caller, NEW f \in Flow, TokenExchange(q, f)
  PROVE  LoginInv(l)' /\ CodeInv(l)' /\ TicketInv(l)' /\ RevokedInv(l)'
<1>0. /\ TypeOK /\ CodeInv(f) /\ CodeInv(l) /\ At(q, "cookie", f)
      /\ UNCHANGED <<untilTime, visit, expires, sockets, gone, known, instant>>
  BY DEF Inv, TokenExchange, At
<1>1. /\ \A p \in Caller, h \in Flow : Holds(p, h)' <=> p # q /\ Holds(p, h)
      /\ \A p \in Caller, h \in Flow : At(p, "cookie", h)' <=> p # q /\ At(p, "cookie", h)
      /\ \A p \in Caller, h \in Flow : At(p, "revoke", h)' <=> p # q /\ At(p, "revoke", h)
  BY <1>0, HoldsEnd DEF TokenExchange
<1>2. /\ \A b \in Kinds, h \in Flow : Until(b, h)' = Until(b, h)
      /\ \A n \in Number, h \in Flow : TicketUntil(n, h)' = TicketUntil(n, h)
  BY <1>0, UntilKept
<1>3. /\ made'[f].cookies = made[f].cookies + 1
      /\ made'[f].sessions = made[f].sessions /\ made'[f].tickets = made[f].tickets
      /\ \A h \in Flow : h # f => made'[h] = made[h]
  BY <1>0, CookiesAdd DEF TokenExchange
<1>4. LoginUndisturbed(l) /\ TicketKept(l) /\ RevokedKept(l)
  BY <1>0, <1>1, <1>2, <1>3, SomeKinds, Lifetimes DEF LoginUndisturbed, TicketKept, RevokedKept
<1>5. CodeInv(l)'
  <2>1. CASE l = f
    <3>1. made[f].cookies = 0 /\ made[f].sessions # 0 /\ Until("code", f) = 0
      BY <1>0 DEF CodeInv
    <3>2. \A p \in Caller : ~At(p, "cookie", f)'
      BY <1>0, <1>1 DEF CodeInv
    <3>3. made'[f].cookies = 1 /\ made'[f].sessions # 0 /\ Until("code", f)' = 0
      BY <3>1, <1>2, <1>3, SomeKinds
    <3> QED
      BY <2>1, <3>2, <3>3 DEF CodeInv
  <2>2. CASE l # f
    <3>1. CodeKept(l)
      BY <2>2, <1>0, <1>1, <1>2, <1>3, SomeKinds DEF CodeKept
    <3> QED
      BY <3>1, Kept
  <2> QED
    BY <2>1, <2>2
<1> QED
  BY <1>4, <1>5, Kept

LEMMA AuthStep ==
  ASSUME Inv, TypeOK', NEW l \in Flow, NEW q \in Caller, NEW f \in Flow, Auth(q, f, "revoke")
  PROVE  LoginInv(l)' /\ CodeInv(l)' /\ TicketInv(l)' /\ RevokedInv(l)'
<1>0. /\ TypeOK /\ RevokedInv(f) /\ RevokedInv(l) /\ Alive(f)
      /\ UNCHANGED <<untilTime, visit, expires, made, sockets, gone, known, instant>>
  BY DEF Inv, Auth, Accepts, rest
<1>1. /\ \A p \in Caller, h \in Flow : Holds(p, h)' => Holds(p, h)
      /\ \A p \in Caller, h \in Flow : At(p, "cookie", h)' => At(p, "cookie", h)
      /\ \A p \in Caller, h \in Flow : At(p, "revoke", h)' <=> IF p = q THEN h = f ELSE At(p, "revoke", h)
  <2>1. Goes(q, "revoke", f) /\ "revoke" \in Places
    BY DEF Auth, Places, Goes
  <2>2. /\ \A p \in Caller, h \in Flow : Holds(p, h)' <=>
              IF p = q THEN h = f /\ "revoke" \in {"nonce", "verifier", "exchange", "issue"} ELSE Holds(p, h)
        /\ \A p \in Caller, h \in Flow : At(p, "cookie", h)' <=>
              IF p = q THEN h = f /\ "revoke" = "cookie" ELSE At(p, "cookie", h)
        /\ \A p \in Caller, h \in Flow : At(p, "revoke", h)' <=>
              IF p = q THEN h = f /\ "revoke" = "revoke" ELSE At(p, "revoke", h)
    BY <1>0, <2>1, HoldsGo
  <2> QED
    BY <2>2
<1>2. /\ \A b \in Kinds, h \in Flow : Until(b, h)' = Until(b, h)
      /\ \A n \in Number, h \in Flow : TicketUntil(n, h)' = TicketUntil(n, h)
  BY <1>0, UntilKept
<1>3. LoginUndisturbed(l) /\ CodeKept(l) /\ TicketKept(l)
  BY <1>0, <1>1, <1>2, SomeKinds DEF LoginUndisturbed, CodeKept, TicketKept
<1>4. made[f].sessions # 0
  BY <1>0, AcceptedIsIssued
<1>5. RevokedInv(l)'
  BY <1>0, <1>1, <1>2, <1>4, SomeKinds DEF RevokedInv
<1> QED
  BY <1>3, <1>5, Kept

LEMMA RevokeStep ==
  ASSUME Inv, TypeOK', NEW l \in Flow, NEW q \in Caller, NEW f \in Flow, RevokeCurrentToken(q, f)
  PROVE  LoginInv(l)' /\ CodeInv(l)' /\ TicketInv(l)' /\ RevokedInv(l)'
<1>0. /\ TypeOK /\ RevokedInv(f) /\ RevokedInv(l) /\ At(q, "revoke", f) /\ gone' = gone \cup {f}
      /\ expires[f] \in Nat /\ expires[l] \in Nat /\ instant \in Nat
      /\ UNCHANGED <<visit, expires, made, sockets, known, instant>>
  BY Lifetimes DEF Inv, RevokeCurrentToken, At
<1>1. /\ \A p \in Caller, h \in Flow : Holds(p, h)' <=> p # q /\ Holds(p, h)
      /\ \A p \in Caller, h \in Flow : At(p, "cookie", h)' <=> p # q /\ At(p, "cookie", h)
      /\ \A p \in Caller, h \in Flow : At(p, "revoke", h)' <=> p # q /\ At(p, "revoke", h)
  BY <1>0, HoldsEnd DEF RevokeCurrentToken
<1>2. CASE expires[f] > instant
  <2>1. Set(One("revoked"), f, expires[f])
    BY <1>2, <1>0, Lifetimes DEF RevokeCurrentToken
  <2>2. /\ Until("revoked", f)' = expires[f]
        /\ \A b \in Kinds, h \in Flow : b # "revoked" \/ h # f => Until(b, h)' = Until(b, h)
        /\ \A n \in Number, h \in Flow : TicketUntil(n, h)' = TicketUntil(n, h)
    BY <1>0, <2>1, OneSet, SomeKinds
  <2>3. LoginUndisturbed(l) /\ CodeKept(l) /\ TicketKept(l)
    BY <1>0, <1>1, <2>2, SomeKinds DEF LoginUndisturbed, CodeKept, TicketKept
  <2>4. RevokedInv(l)'
    BY <1>0, <1>1, <2>2, SomeKinds DEF RevokedInv
  <2> QED
    BY <2>3, <2>4, Kept
<1>3. CASE ~(expires[f] > instant)
  <2>1. /\ \A b \in Kinds, h \in Flow : Until(b, h)' = Until(b, h)
        /\ \A n \in Number, h \in Flow : TicketUntil(n, h)' = TicketUntil(n, h)
    BY <1>3, UntilKept DEF RevokeCurrentToken
  <2>2. LoginUndisturbed(l) /\ CodeKept(l) /\ TicketKept(l)
    BY <1>0, <1>1, <2>1, SomeKinds DEF LoginUndisturbed, CodeKept, TicketKept
  <2>3. RevokedInv(l)'
    BY <1>0, <1>1, <1>3, <2>1, SomeKinds DEF RevokedInv
  <2> QED
    BY <2>2, <2>3, Kept
<1> QED
  BY <1>2, <1>3

LEMMA CreateTicketStep ==
  ASSUME Inv, TypeOK', NEW l \in Flow, NEW q \in Caller, NEW f \in Flow, CreateTicket(q, f)
  PROVE  LoginInv(l)' /\ CodeInv(l)' /\ TicketInv(l)' /\ RevokedInv(l)'
<1> DEFINE n == made[f].tickets + 1
<1>0. /\ TypeOK /\ TicketInv(f) /\ made[f].tickets \in Nat /\ made[f].tickets < MaxTickets
      /\ UNCHANGED <<visit, expires, sockets, gone, known, instant>>
  BY DEF Inv, CreateTicket, TypeOK
<1>1. n \in Number /\ n > made[f].tickets
  BY <1>0, SessionsAssumption DEF Number
<1>2. /\ \A p \in Caller, h \in Flow : Holds(p, h)' <=> p # q /\ Holds(p, h)
      /\ \A p \in Caller, h \in Flow : At(p, "cookie", h)' <=> p # q /\ At(p, "cookie", h)
      /\ \A p \in Caller, h \in Flow : At(p, "revoke", h)' <=> p # q /\ At(p, "revoke", h)
  BY <1>0, HoldsEnd DEF CreateTicket
<1>3. /\ \A b \in Kinds, h \in Flow : Until(b, h)' = Until(b, h)
      /\ \A m \in Number, h \in Flow : m # n \/ h # f => TicketUntil(m, h)' = TicketUntil(m, h)
  BY <1>0, <1>1, TicketSet, Lifetimes DEF CreateTicket
<1>4. /\ made'[f].tickets = n
      /\ made'[f].sessions = made[f].sessions /\ made'[f].cookies = made[f].cookies
      /\ \A h \in Flow : h # f => made'[h] = made[h]
  BY <1>0, TicketsAdd DEF CreateTicket
<1>5. LoginUndisturbed(l) /\ CodeKept(l) /\ RevokedKept(l)
  BY <1>0, <1>2, <1>3, <1>4, SomeKinds, Lifetimes DEF LoginUndisturbed, CodeKept, RevokedKept
<1>6. TicketInv(l)'
  <2>1. CASE l # f
    <3>1. TicketKept(l)
      BY <2>1, <1>0, <1>3, <1>4 DEF TicketKept
    <3> QED
      BY <3>1, Kept
  <2>2. CASE l = f
    <3> SUFFICES ASSUME NEW m \in Number
                 PROVE  /\ sockets'[<<f, m>>] <= 1
                        /\ TicketUntil(m, f)' # 0 => sockets'[<<f, m>>] = 0
                        /\ m > made'[f].tickets => TicketUntil(m, f)' = 0 /\ sockets'[<<f, m>>] = 0
      BY <2>2 DEF TicketInv
    <3>1. CASE m = n
      <4>1. sockets[<<f, m>>] = 0
        BY <3>1, <1>0, <1>1 DEF TicketInv
      <4> QED
        BY <3>1, <4>1, <1>0, <1>1, <1>4
    <3>2. CASE m # n
      <4>1. TicketUntil(m, f)' = TicketUntil(m, f) /\ sockets' = sockets
        BY <3>2, <1>0, <1>3
      <4>2. m > made'[f].tickets => m > made[f].tickets
        BY <1>0, <1>4 DEF Number
      <4> QED
        BY <4>1, <4>2, <1>0 DEF TicketInv
    <3> QED
      BY <3>1, <3>2
  <2> QED
    BY <2>1, <2>2
<1> QED
  BY <1>5, <1>6, Kept

LEMMA ExchangeTicketStep ==
  ASSUME Inv, TypeOK', NEW l \in Flow, NEW f \in Flow, NEW n \in Number, ExchangeTicket(f, n)
  PROVE  LoginInv(l)' /\ CodeInv(l)' /\ TicketInv(l)' /\ RevokedInv(l)'
<1>0. /\ TypeOK /\ TicketInv(f) /\ TicketInv(l) /\ sockets \in [Flow \X Number -> Nat]
      /\ UNCHANGED <<caller, visit, expires, made, gone, known, instant>>
  BY DEF Inv, ExchangeTicket, TypeOK
<1>1. /\ TicketUntil(n, f) # 0 /\ TicketUntil(n, f)' = 0
      /\ \A b \in Kinds, h \in Flow : Until(b, h)' = Until(b, h)
      /\ \A m \in Number, h \in Flow : m # n \/ h # f => TicketUntil(m, h)' = TicketUntil(m, h)
  BY <1>0, TicketTaken DEF ExchangeTicket
<1>2. \A p \in Caller, b \in Places : At(p, b, l)' <=> At(p, b, l)
  BY <1>0 DEF At
<1>3. \A p \in Caller : Holds(p, l)' <=> Holds(p, l)
  BY <1>2 DEF Holds, Places
<1>4. LoginUndisturbed(l) /\ CodeKept(l) /\ RevokedKept(l)
  BY <1>0, <1>1, <1>2, <1>3, SomeKinds, Lifetimes DEF LoginUndisturbed, CodeKept, RevokedKept, Places
<1>5. sockets[<<f, n>>] = 0
  BY <1>0, <1>1 DEF TicketInv
<1>6. /\ sockets'[<<f, n>>] = 1
      /\ \A m \in Number, h \in Flow : m # n \/ h # f => sockets'[<<h, m>>] = sockets[<<h, m>>]
  BY <1>0, <1>5 DEF ExchangeTicket
<1>7. TicketInv(l)'
  <2> SUFFICES ASSUME NEW m \in Number
               PROVE  /\ sockets'[<<l, m>>] <= 1
                      /\ TicketUntil(m, l)' # 0 => sockets'[<<l, m>>] = 0
                      /\ m > made'[l].tickets => TicketUntil(m, l)' = 0 /\ sockets'[<<l, m>>] = 0
    BY DEF TicketInv
  <2>1. CASE m = n /\ l = f
    <3>1. ~(n > made[f].tickets)
      BY <1>0, <1>1 DEF TicketInv
    <3> QED
      BY <2>1, <3>1, <1>0, <1>1, <1>6
  <2>2. CASE m # n \/ l # f
    BY <2>2, <1>0, <1>1, <1>6 DEF TicketInv
  <2> QED
    BY <2>1, <2>2
<1> QED
  BY <1>4, <1>7, Kept

LEMMA InvStep == Inv /\ [Next]_vars => Inv'
<1> SUFFICES ASSUME Inv, [Next]_vars
             PROVE  Inv'
  OBVIOUS
<1>1. TypeOK'
  BY TypeStep DEF Inv
<1> SUFFICES ASSUME NEW l \in Flow
             PROVE  LoginInv(l)' /\ CodeInv(l)' /\ TicketInv(l)' /\ RevokedInv(l)'
  BY <1>1 DEF Inv
<1>2. ASSUME NEW f \in Flow, StoreSecret(f)
      PROVE  LoginInv(l)' /\ CodeInv(l)' /\ TicketInv(l)' /\ RevokedInv(l)'
  BY <1>1, <1>2, StoreSecretStep
<1>3. ASSUME NEW q \in Caller, NEW f \in Flow, NEW n \in 1 .. 3, Consume(q, f, n)
      PROVE  LoginInv(l)' /\ CodeInv(l)' /\ TicketInv(l)' /\ RevokedInv(l)'
  BY <1>1, <1>3, ConsumeStep
<1>4. ASSUME NEW q \in Caller, NEW f \in Flow,
             \/ IssueSession(q, f) \/ TakeCode(q, f) \/ TokenExchange(q, f) \/ Auth(q, f, "revoke")
             \/ RevokeCurrentToken(q, f) \/ CreateTicket(q, f)
      PROVE  LoginInv(l)' /\ CodeInv(l)' /\ TicketInv(l)' /\ RevokedInv(l)'
  BY <1>1, <1>4, IssueSessionStep, TakeCodeStep, TokenExchangeStep, AuthStep, RevokeStep, CreateTicketStep
<1>5. ASSUME NEW f \in Flow, NEW n \in Number, ExchangeTicket(f, n)
      PROVE  LoginInv(l)' /\ CodeInv(l)' /\ TicketInv(l)' /\ RevokedInv(l)'
  BY <1>1, <1>5, ExchangeTicketStep
<1>6. ASSUME \/ \E q \in Caller, f \in Flow : Exchange(q, f) \/ Auth(q, f, "ticket") \/ AuthUnchecked(q, f)
             \/ \E q \in Caller : Denied(q)
             \/ Reload \/ Tick \/ UNCHANGED vars
      PROVE  LoginInv(l)' /\ CodeInv(l)' /\ TicketInv(l)' /\ RevokedInv(l)'
  BY <1>1, <1>6, QuietStep
<1> QED
  BY <1>1, <1>2, <1>3, <1>4, <1>5, <1>6 DEF Next, FlowStep

LEMMA Invariance == Spec => []Inv
  BY InvInit, InvStep, PTL DEF Spec

(* However often a browser sends a callback, a code or a ticket, and wherever *)
(* a request fails: one session of a login, one cookie, one socket.           *)
THEOREM UsedOnce == Spec => []OnceOnly
<1>1. Inv => OnceOnly
  <2> SUFFICES ASSUME Inv, NEW f \in Flow
               PROVE  /\ made[f].sessions <= 1
                      /\ made[f].cookies <= made[f].sessions
                      /\ \A n \in Number : sockets[<<f, n>>] <= 1
    BY DEF OnceOnly
  <2>1. LoginInv(f) /\ CodeInv(f) /\ TicketInv(f)
    BY DEF Inv
  <2>2. made[f].sessions \in Nat /\ made[f].cookies \in Nat
    BY DEF Inv, TypeOK
  <2>3. made[f].sessions <= 1 /\ made[f].cookies <= 1 /\ (made[f].sessions = 0 => made[f].cookies = 0)
    BY <2>1 DEF LoginInv, CodeInv
  <2>4. \A n \in Number : sockets[<<f, n>>] <= 1
    BY <2>1 DEF TicketInv
  <2> QED
    BY <2>2, <2>3, <2>4
<1> QED
  BY <1>1, Invariance, PTL

(* A token is rejected for good once it was revoked, while Redis answers.      *)
THEOREM RevokedFinal == Spec => []RevokedIsRejected
<1>1. Inv => RevokedIsRejected
  <2> SUFFICES ASSUME Inv, NEW f \in Flow, f \in gone, Alive(f)
               PROVE  Present(One("revoked"), f)
    BY DEF Inv, TypeOK, RevokedIsRejected, Accepts
  <2>1. Until("revoked", f) >= expires[f] \/ expires[f] <= instant
    BY DEF Inv, RevokedInv
  <2>2. expires[f] > instant /\ expires[f] \in Nat /\ instant \in Nat
    BY Lifetimes DEF Alive, Inv
  <2>3. Until("revoked", f) \in Nat
    BY SomeKinds, KeysDiffer DEF Inv, TypeOK, Until
  <2> QED
    BY <2>1, <2>2, <2>3 DEF Present, Until
<1> QED
  BY <1>1, Invariance, PTL

-----------------------------------------------------------------------------
(* The tickets implement OneTime.                                            *)

Named == Flow \X Number
Open == {t \in Named : Present(TicketKey(t[2]), t[1])}
Issued == {t \in Named : t[2] <= made[t[1]].tickets}

LEMMA OpenIs ==
  /\ \A f \in Flow, n \in Number : <<f, n>> \in Open <=> TicketUntil(n, f) > instant
  /\ \A t \in Named : \E f \in Flow, n \in Number : t = <<f, n>>
  /\ Open \subseteq Named /\ Issued \subseteq Named
  /\ \A f \in Flow, n \in Number : <<f, n>> \in Issued <=> n <= made[f].tickets
  /\ \A f \in Flow, n \in Number : <<f, n>> \in Open' <=> TicketUntil(n, f)' > instant'
  /\ Open' \subseteq Named /\ Issued' \subseteq Named
  /\ \A f \in Flow, n \in Number : <<f, n>> \in Issued' <=> n <= made'[f].tickets
  BY DEF Named, Open, Issued, Present, TicketUntil

\* The step of OneTime that a step is, by what it does to the tickets.
LEMMA LapseStep ==
  ASSUME TypeOK, TypeOK', UNCHANGED sockets,
         \A n \in Number, f \in Flow : TicketUntil(n, f)' = TicketUntil(n, f),
         \A f \in Flow : made'[f].tickets = made[f].tickets,
         instant' >= instant
  PROVE  Tickets!Lapse
<1>1. instant \in Nat /\ instant' \in Nat
  BY SessionsAssumption DEF TypeOK
<1>2. \A n \in Number, f \in Flow : TicketUntil(n, f) \in Nat
  BY KeysDiffer DEF TypeOK, TicketUntil
<1>3. Open' \subseteq Open
  <2> SUFFICES ASSUME NEW t \in Open'
               PROVE  t \in Open
    OBVIOUS
  <2>1. PICK f \in Flow, n \in Number : t = <<f, n>>
    BY OpenIs
  <2>2. TicketUntil(n, f)' > instant'
    BY <2>1, OpenIs
  <2>3. TicketUntil(n, f) > instant
    BY <2>2, <1>1, <1>2
  <2> QED
    BY <2>1, <2>3, OpenIs
<1>4. Issued' = Issued
  <2> SUFFICES ASSUME NEW t
               PROVE  t \in Issued' <=> t \in Issued
    OBVIOUS
  <2>1. CASE t \in Named
    <3>1. PICK f \in Flow, n \in Number : t = <<f, n>>
      BY <2>1, OpenIs
    <3> QED
      BY <3>1, OpenIs
  <2>2. CASE t \notin Named
    BY <2>2, OpenIs
  <2> QED
    BY <2>1, <2>2
<1> QED
  BY <1>3, <1>4 DEF Tickets!Lapse, Open, Issued, Named

\* A step that leaves the keys, the sockets and the numbers of tickets alone.
LEMMA NoTicketStep ==
  ASSUME Inv, TypeOK', UNCHANGED <<untilTime, sockets>>, instant' >= instant,
         \A f \in Flow : made'[f].tickets = made[f].tickets
  PROVE  Tickets!Lapse
  BY UntilKept, LapseStep DEF Inv

LEMMA IssueTicket ==
  ASSUME Inv, TypeOK', NEW q \in Caller, NEW f \in Flow, CreateTicket(q, f),
         NEW n \in Number, n = made[f].tickets + 1
  PROVE  Tickets!Issue(<<f, n>>)
<1>0. /\ TypeOK /\ made[f].tickets \in Nat /\ made[f].tickets < MaxTickets
      /\ UNCHANGED <<sockets, instant>>
  BY DEF Inv, CreateTicket, TypeOK
<1>1. n > made[f].tickets /\ <<f, n>> \in Named
  BY <1>0 DEF Named
<1>2. \A m \in Number, h \in Flow : m # n \/ h # f => TicketUntil(m, h)' = TicketUntil(m, h)
  BY <1>0, <1>1, TicketSet, Lifetimes DEF CreateTicket
<1>3. made'[f].tickets = n /\ \A h \in Flow : h # f => made'[h] = made[h]
  BY <1>0, TicketsAdd DEF CreateTicket
<1>4. TicketInv(f)
  BY DEF Inv
<1>5. <<f, n>> \notin Issued /\ <<f, n>> \notin Open
  <2>1. TicketUntil(n, f) = 0
    BY <1>0, <1>1, <1>4 DEF TicketInv
  <2>2. ~(TicketUntil(n, f) > instant) /\ ~(n <= made[f].tickets)
    BY <1>0, <2>1, Lifetimes
  <2> QED
    BY <1>1, <2>2, OpenIs
<1>6. Issued' = Issued \cup {<<f, n>>}
  <2> SUFFICES ASSUME NEW t
               PROVE  t \in Issued' <=> t \in Issued \/ t = <<f, n>>
    OBVIOUS
  <2>1. CASE t \in Named
    <3>1. PICK h \in Flow, m \in Number : t = <<h, m>>
      BY <2>1, OpenIs
    <3>2. h = f => (m <= made'[f].tickets <=> m <= made[f].tickets \/ m = n)
      BY <1>0, <1>3 DEF Number
    <3> QED
      BY <3>1, <3>2, <1>1, <1>3, OpenIs
  <2>2. CASE t \notin Named
    BY <2>2, <1>1, OpenIs
  <2> QED
    BY <2>1, <2>2
<1>7. Open' = Open \/ Open' = Open \cup {<<f, n>>}
  <2>1. \A t : t # <<f, n>> => (t \in Open' <=> t \in Open)
    <3> SUFFICES ASSUME NEW t, t # <<f, n>>
                 PROVE  t \in Open' <=> t \in Open
      OBVIOUS
    <3>1. CASE t \in Named
      <4>1. PICK h \in Flow, m \in Number : t = <<h, m>>
        BY <3>1, OpenIs
      <4>2. TicketUntil(m, h)' = TicketUntil(m, h)
        BY <4>1, <1>2
      <4> QED
        BY <4>1, <4>2, <1>0, OpenIs
    <3>2. CASE t \notin Named
      BY <3>2, OpenIs
    <3> QED
      BY <3>1, <3>2
  <2> QED
    BY <2>1, <1>5
<1> QED
  BY <1>0, <1>1, <1>5, <1>6, <1>7 DEF Tickets!Issue, Open, Issued, Named

LEMMA UseTicket ==
  ASSUME Inv, TypeOK', NEW f \in Flow, NEW n \in Number, ExchangeTicket(f, n)
  PROVE  Tickets!Use(<<f, n>>)
<1>0. /\ TypeOK /\ UNCHANGED <<made, instant>> /\ GetDel(TicketKey(n), f)
      /\ sockets' = [sockets EXCEPT ![<<f, n>>] = @ + 1] /\ instant \in Nat
  BY Lifetimes DEF Inv, ExchangeTicket
<1>1. /\ TicketUntil(n, f)' = 0
      /\ \A m \in Number, h \in Flow : m # n \/ h # f => TicketUntil(m, h)' = TicketUntil(m, h)
  BY <1>0, TicketTaken
<1>2. <<f, n>> \in Open
  BY <1>0, OpenIs DEF GetDel, Present, TicketUntil
<1>3. Issued' = Issued
  BY <1>0 DEF Issued, Named
<1>4. Open' = Open \ {<<f, n>>}
  <2> SUFFICES ASSUME NEW t
               PROVE  t \in Open' <=> t \in Open /\ t # <<f, n>>
    OBVIOUS
  <2>1. CASE t = <<f, n>>
    <3>1. ~(TicketUntil(n, f)' > instant')
      BY <1>0, <1>1
    <3> QED
      BY <2>1, <3>1, OpenIs
  <2>2. CASE t \in Named /\ t # <<f, n>>
    <3>1. PICK h \in Flow, m \in Number : t = <<h, m>>
      BY <2>2, OpenIs
    <3>2. TicketUntil(m, h)' = TicketUntil(m, h)
      BY <2>2, <3>1, <1>1
    <3> QED
      BY <2>2, <3>1, <3>2, <1>0, OpenIs
  <2>3. CASE t \notin Named
    BY <2>3, OpenIs
  <2> QED
    BY <2>1, <2>2, <2>3
<1> QED
  BY <1>0, <1>2, <1>3, <1>4 DEF Tickets!Use, Open, Issued, Named

\* Keys other than tickets come and go without one.
LEMMA OtherKeyStep ==
  ASSUME Inv, [Next]_vars, UNCHANGED sockets, instant' >= instant,
         \A n \in Number, f \in Flow : TicketUntil(n, f)' = TicketUntil(n, f),
         \A f \in Flow : made'[f].tickets = made[f].tickets
  PROVE  Tickets!Lapse
  BY TypeStep, LapseStep DEF Inv

LEMMA TicketsStep == Inv /\ [Next]_vars => Tickets!Next
<1> SUFFICES ASSUME Inv, [Next]_vars
             PROVE  Tickets!Next
  OBVIOUS
<1>0. TypeOK /\ TypeOK' /\ instant \in Nat
  BY TypeStep, Lifetimes DEF Inv
<1>1. ASSUME NEW f \in Flow, StoreSecret(f)
      PROVE  Tickets!Next
  <2> DEFINE a == Secrets[visit[f] + 1]
  <2>1. visit[f] \in 0 .. 2
    BY <1>0, <1>1 DEF StoreSecret, MayStore, TypeOK
  <2>2. a \in Kinds
    BY <2>1, SecretKinds
  <2>3. Set(One(a), f, instant + StateTTL) /\ UNCHANGED <<made, sockets, instant>>
    BY <1>1 DEF StoreSecret
  <2>4. \A n \in Number, h \in Flow : TicketUntil(n, h)' = TicketUntil(n, h)
    BY <1>0, <2>2, <2>3, OneSet, Lifetimes
  <2> QED
    BY <1>0, <2>3, <2>4, OtherKeyStep DEF Tickets!Next
<1>2. ASSUME NEW q \in Caller, NEW f \in Flow, NEW n \in 1 .. 3, Consume(q, f, n)
      PROVE  Tickets!Next
  <2>1. Secrets[n] \in Kinds /\ GetDel(One(Secrets[n]), f) /\ UNCHANGED <<made, sockets, instant>>
    BY <1>2, SecretKinds DEF Consume, rest
  <2>2. \A m \in Number, h \in Flow : TicketUntil(m, h)' = TicketUntil(m, h)
    BY <1>0, <2>1, OneTaken
  <2> QED
    BY <1>0, <2>1, <2>2, OtherKeyStep DEF Tickets!Next
<1>3. ASSUME NEW q \in Caller, NEW f \in Flow, IssueSession(q, f)
      PROVE  Tickets!Next
  <2>1. \A m \in Number, h \in Flow : TicketUntil(m, h)' = TicketUntil(m, h)
    BY <1>0, <1>3, OneSet, UntilKept, Lifetimes, SomeKinds DEF IssueSession
  <2>2. \A h \in Flow : made'[h].tickets = made[h].tickets
    BY <1>0, <1>3, SessionsAdd, BothAdd DEF IssueSession
  <2> QED
    BY <1>0, <1>3, <2>1, <2>2, OtherKeyStep DEF Tickets!Next, IssueSession
<1>4. ASSUME NEW q \in Caller, NEW f \in Flow, TakeCode(q, f)
      PROVE  Tickets!Next
  <2>1. \A m \in Number, h \in Flow : TicketUntil(m, h)' = TicketUntil(m, h)
    BY <1>0, <1>4, OneTaken, SomeKinds DEF TakeCode
  <2> QED
    BY <1>0, <1>4, <2>1, OtherKeyStep DEF Tickets!Next, TakeCode, rest
<1>5. ASSUME NEW q \in Caller, NEW f \in Flow, TokenExchange(q, f)
      PROVE  Tickets!Next
  <2>1. \A h \in Flow : made'[h].tickets = made[h].tickets
    BY <1>0, <1>5, CookiesAdd DEF TokenExchange
  <2> QED
    BY <1>0, <1>5, <2>1, NoTicketStep DEF Tickets!Next, TokenExchange
<1>6. ASSUME NEW q \in Caller, NEW f \in Flow, RevokeCurrentToken(q, f)
      PROVE  Tickets!Next
  <2>1. \A m \in Number, h \in Flow : TicketUntil(m, h)' = TicketUntil(m, h)
    <3>1. Set(One("revoked"), f, expires[f]) \/ UNCHANGED untilTime
      BY <1>0, <1>6, Lifetimes DEF RevokeCurrentToken
    <3>2. expires[f] \in Nat
      BY <1>0, Lifetimes
    <3> QED
      BY <1>0, <3>1, <3>2, OneSet, UntilKept, SomeKinds
  <2> QED
    BY <1>0, <1>6, <2>1, OtherKeyStep DEF Tickets!Next, RevokeCurrentToken
<1>7. ASSUME NEW q \in Caller, NEW f \in Flow, CreateTicket(q, f)
      PROVE  Tickets!Next
  <2>1. PICK n \in Number : n = made[f].tickets + 1
    BY <1>0, <1>7, SessionsAssumption DEF CreateTicket, TypeOK, Number
  <2>2. <<f, n>> \in Flow \X Number
    OBVIOUS
  <2>3. Tickets!Issue(<<f, n>>)
    BY <1>0, <1>7, <2>1, IssueTicket
  <2> QED
    BY <2>2, <2>3 DEF Tickets!Next
<1>8. ASSUME NEW f \in Flow, NEW n \in Number, ExchangeTicket(f, n)
      PROVE  Tickets!Next
  <2>1. <<f, n>> \in Flow \X Number
    OBVIOUS
  <2>2. Tickets!Use(<<f, n>>)
    BY <1>0, <1>8, UseTicket
  <2> QED
    BY <2>1, <2>2 DEF Tickets!Next
<1>9. ASSUME \/ \E q \in Caller, f \in Flow :
                  Exchange(q, f) \/ Auth(q, f, "ticket") \/ Auth(q, f, "revoke") \/ AuthUnchecked(q, f)
             \/ \E q \in Caller : Denied(q)
             \/ Reload \/ Tick \/ UNCHANGED vars
      PROVE  Tickets!Next
  <2>1. UNCHANGED <<untilTime, made, sockets>>
    BY <1>9 DEF Exchange, Auth, AuthUnchecked, Denied, Reload, Tick, vars, rest
  <2>2. instant' = instant \/ instant' = instant + 1
    BY <1>9 DEF Exchange, Auth, AuthUnchecked, Denied, Reload, Tick, vars, rest
  <2>3. instant' >= instant
    BY <1>0, <2>2
  <2> QED
    BY <1>0, <2>1, <2>3, NoTicketStep DEF Tickets!Next
<1> QED
  BY <1>1, <1>2, <1>3, <1>4, <1>5, <1>6, <1>7, <1>8, <1>9 DEF Next, FlowStep

LEMMA TicketsInit == Init => Tickets!Init
<1> SUFFICES ASSUME Init
             PROVE  Tickets!Init
  OBVIOUS
<1>1. \A f \in Flow, n \in Number : ~Present(TicketKey(n), f) /\ ~(n <= made[f].tickets)
  BY KeysDiffer DEF Init, Present, Number
<1>2. Open = {} /\ Issued = {}
  <2>1. \A t \in Named : \E f \in Flow, n \in Number : t = <<f, n>>
    BY OpenIs
  <2> QED
    BY <1>1, <2>1 DEF Open, Issued
<1>3. sockets = [t \in Flow \X Number |-> 0]
  BY DEF Init
<1> QED
  BY <1>2, <1>3 DEF Tickets!Init, Open, Issued, Named

(* Tickets of WebSockets implement OneTime: each is issued once, and opens at  *)
(* most one socket, before it lapses (ws_ticket.go).                           *)
THEOREM TicketsImplement == Spec => TicketsAreOnce
<1>1. Inv /\ [Next]_vars => [Tickets!Next]_(Tickets!vars)
  BY TicketsStep
<1> QED
  BY <1>1, TicketsInit, Invariance, PTL DEF Spec, TicketsAreOnce, Tickets!Spec

-----------------------------------------------------------------------------
(* What OneTime promises follows from its steps, and is inherited here.    *)

OnceInv == sockets \in [Flow \X Number -> Nat] /\ Tickets!UsedOnce

LEMMA OnceInit == Tickets!Init => OnceInv
  BY DEF Tickets!Init, OnceInv, Tickets!UsedOnce

\* For any sets in the places of those given out and of those that are good.
OnceHolds(Ids, given, open, used) ==
  /\ used \in [Ids -> Nat] /\ open \subseteq given
  /\ \A n \in Ids : used[n] <= 1 /\ (n \in open \/ n \notin given => used[n] = 0)

LEMMA OnceAfterUse ==
  ASSUME NEW Ids, NEW given, NEW open, NEW used, OnceHolds(Ids, given, open, used),
         NEW n \in Ids, n \in open
  PROVE  OnceHolds(Ids, given, open \ {n}, [used EXCEPT ![n] = @ + 1])
<1>1. used \in [Ids -> Nat] /\ used[n] = 0 /\ n \in given
  BY DEF OnceHolds
<1>2. used[n] + 1 = 1
  BY <1>1
<1>3. [used EXCEPT ![n] = @ + 1] = [used EXCEPT ![n] = 1]
  BY <1>2, Zenon
<1>4. OnceHolds(Ids, given, open \ {n}, [used EXCEPT ![n] = 1])
  BY <1>1 DEF OnceHolds
<1> QED
  BY <1>3, <1>4

LEMMA OnceAfterFewer ==
  ASSUME NEW Ids, NEW given, NEW open, NEW used, OnceHolds(Ids, given, open, used),
         NEW I, NEW O, given \subseteq I, O \subseteq I, O \cap given \subseteq open
  PROVE  OnceHolds(Ids, I, O, used)
  BY DEF OnceHolds

LEMMA OnceStep == OnceInv /\ [Tickets!Next]_(Tickets!vars) => OnceInv'
<1> DEFINE open == {t \in Flow \X Number : Present(TicketKey(t[2]), t[1])}
           given == {t \in Flow \X Number : t[2] <= made[t[1]].tickets}
<1> SUFFICES ASSUME OnceInv, [Tickets!Next]_(Tickets!vars)
             PROVE  OnceInv'
  OBVIOUS
<1>1. OnceHolds(Flow \X Number, given, open, sockets)
  BY DEF OnceInv, Tickets!UsedOnce, OnceHolds
<1>2. \/ sockets' = sockets /\ given' = given /\ open' \subseteq open
      \/ \E n \in Flow \X Number :
           /\ n \notin given /\ given' = given \cup {n}
           /\ open' \in {open, open \cup {n}} /\ sockets' = sockets
      \/ \E n \in Flow \X Number :
           /\ n \in open /\ open' = open \ {n} /\ given' = given
           /\ sockets' = [sockets EXCEPT ![n] = @ + 1]
  <2>1. CASE Tickets!Next
    BY <2>1 DEF Tickets!Next, Tickets!Issue, Tickets!Use, Tickets!Lapse
  <2>2. CASE UNCHANGED Tickets!vars
    BY <2>2 DEF Tickets!vars
  <2> QED
    BY <2>1, <2>2
<1>3. OnceHolds(Flow \X Number, given', open', sockets')
  <2>1. open \subseteq given
    BY <1>1 DEF OnceHolds
  <2> HIDE DEF open, given
  <2>2. CASE sockets' = sockets /\ given' = given /\ open' \subseteq open
    BY <1>1, <2>1, <2>2, OnceAfterFewer
  <2>3. ASSUME NEW n \in Flow \X Number, n \notin given, given' = given \cup {n},
               open' \in {open, open \cup {n}}, sockets' = sockets
        PROVE  OnceHolds(Flow \X Number, given', open', sockets')
    <3>1. given \subseteq given' /\ open' \subseteq given' /\ open' \cap given \subseteq open
      BY <2>1, <2>3
    <3> QED
      BY <1>1, <2>3, <3>1, OnceAfterFewer
  <2>4. ASSUME NEW n \in Flow \X Number, n \in open, open' = open \ {n}, given' = given,
               sockets' = [sockets EXCEPT ![n] = @ + 1]
        PROVE  OnceHolds(Flow \X Number, given', open', sockets')
    BY <1>1, <2>4, OnceAfterUse
  <2> QED
    BY <1>2, <2>2, <2>3, <2>4
<1> QED
  BY <1>3 DEF OnceInv, Tickets!UsedOnce, OnceHolds

(* Every behaviour of OneTime used no ticket twice, and none that was not  *)
(* given out; Redis with the handlers of ws_ticket.go implements OneTime,  *)
(* so this holds of the tickets, whatever requests and failures there are. *)
THEOREM TicketsUsedOnce == Spec => []Tickets!UsedOnce
<1>1. Tickets!Spec => []Tickets!UsedOnce
  <2>1. OnceInv => Tickets!UsedOnce
    BY DEF OnceInv
  <2> QED
    BY <2>1, OnceInit, OnceStep, PTL DEF Tickets!Spec
<1> QED
  BY <1>1, TicketsImplement, PTL DEF TicketsAreOnce
-----------------------------------------------------------------------------
(* The types of the components: beside its inductive invariant a component *)
(* has one of the bounds and the variables that invariant says nothing of. *)

StoreBounds == ops \in 0 .. MaxOps /\ tangled \in BOOLEAN

LEMMA StoreBoundsStep == StoreBounds /\ [Store!Next]_(Store!vars) => StoreBounds'
<1> SUFFICES ASSUME StoreBounds, [Store!Next]_(Store!vars) PROVE StoreBounds'
  OBVIOUS
<1>0. MaxOps \in Nat
  BY IdentityBounds
<1>1. ASSUME NEW a, NEW kind, NEW n, NEW m, NEW cred, Store!Begin(a, kind, n, m, cred)
      PROVE  StoreBounds'
  <2>1. ops' \in 0 .. MaxOps
    BY <1>0, <1>1 DEF Store!Begin, StoreBounds
  <2>2. tangled' = TRUE \/ tangled' = FALSE
    BY <1>1, Zenon DEF Store!Begin
  <2> QED
    BY <2>1, <2>2 DEF StoreBounds
<1>2. ASSUME NEW a \in Editor, Store!AdminStep(a) PROVE StoreBounds'
  <2>1. CASE \/ \E n \in Name, m \in Method, cred \in Store!Credentials :
                  Store!CreateProvider(a, n, m, cred) \/ Store!UpdateProvider(a, n, m, cred)
             \/ \E n \in Name : Store!DeleteProvider(a, n)
    BY <1>1, <2>1 DEF Store!CreateProvider, Store!UpdateProvider, Store!DeleteProvider
  <2>2. CASE \/ Store!WriteConfigs(a) \/ Store!WriteConfigsFails(a) \/ Store!DropSecretKey(a)
             \/ Store!Credit(a) \/ Store!SecretFails(a) \/ Store!RollBack(a)
             \/ Store!RollBackFails(a) \/ Store!AnswerFailure(a)
    BY <2>2 DEF Store!WriteConfigs, Store!WriteConfigsFails, Store!DropSecretKey, Store!Credit,
       Store!SecretFails, Store!RollBack, Store!RollBackFails, Store!AnswerFailure, StoreBounds
  <2> QED
    BY <1>2, <2>1, <2>2 DEF Store!AdminStep
<1>3. CASE UNCHANGED Store!vars
  BY <1>3 DEF Store!vars, StoreBounds
<1> QED
  BY <1>2, <1>3 DEF Store!Next

LEMMA StoreTyped == StoreInv /\ StoreBounds => Store!TypeOK
  BY DEF StoreInv, StoreTypes, StoreBounds, Operation, Store!NoOp, Store!TypeOK

\* What a task has read is a reading, or a list of providers on the way to one.
WatchBounds ==
  /\ cmap \in [Watched -> Method \cup {"absent"}] /\ creds \in [Watched -> Watcher!Credentials]
  /\ lastValid \in Watcher!Reading /\ loaded \in Watcher!Reading
  /\ \A i \in Watcher!Informer :
       /\ task[i].at = "secret" => task[i].cm \in [Watched -> Method \cup {"absent"}]
       /\ task[i].at \in {"store", "reload"} => task[i].got \in Watcher!Reading
  /\ edits \in 0 .. MaxEdits /\ faults \in 0 .. MaxFaults
  /\ why \subseteq {"startup", "raced", "fault", "gone"}

LEMMA MergeReads ==
  ASSUME NEW cs \in [Watched -> Method \cup {"absent"}], NEW ks \in [Watched -> Watcher!Credentials]
  PROVE  Watcher!Merge(cs, ks) \in Watcher!Reading
<1>1. \A n \in Watched : Watcher!Provider(cs[n], ks[n]) \subseteq Method \cup {"id", "secret"}
  BY DEF Watcher!Provider, Watcher!Credentials
<1> QED
  BY <1>1 DEF Watcher!Merge, Watcher!Reading

LEMMA AcceptedReads ==
  ASSUME NEW ps \in Watcher!Reading
  PROVE  Watcher!Accepted(ps) \in Watcher!Reading
  BY DEF Watcher!Accepted, Watcher!Reading

\* What the tasks have read is kept when they only lose their being alone.
LEMMA TasksKeep ==
  ASSUME WatchBounds, WatchTypes, NEW i \in Watcher!Informer, NEW t,
         task' = [j \in Watcher!Informer |->
                    IF j = i THEN t
                    ELSE IF Watcher!Overlaps(i) THEN [task[j] EXCEPT !.lone = FALSE] ELSE task[j]],
         t.at = "secret" => t.cm \in [Watched -> Method \cup {"absent"}],
         t.at \in {"store", "reload"} => t.got \in Watcher!Reading
  PROVE  \A j \in Watcher!Informer :
           /\ task'[j].at = "secret" => task'[j].cm \in [Watched -> Method \cup {"absent"}]
           /\ task'[j].at \in {"store", "reload"} => task'[j].got \in Watcher!Reading
<1> SUFFICES ASSUME NEW j \in Watcher!Informer
             PROVE  /\ task'[j].at = "secret" => task'[j].cm \in [Watched -> Method \cup {"absent"}]
                    /\ task'[j].at \in {"store", "reload"} => task'[j].got \in Watcher!Reading
  OBVIOUS
<1>1. CASE j = i
  BY <1>1
<1>2. CASE j # i /\ task'[j] = task[j]
  BY <1>2 DEF WatchBounds
<1>3. CASE j # i /\ task'[j] = [task[j] EXCEPT !.lone = FALSE]
  <2>1. /\ task[j].at = "secret" => task[j].cm \in [Watched -> Method \cup {"absent"}]
        /\ task[j].at \in {"store", "reload"} => task[j].got \in Watcher!Reading
    BY DEF WatchBounds
  <2>2. TaskShape(task[j])
    BY DEF WatchTypes
  <2>3. CASE task[j] = Watcher!NoTask
    BY <1>3, <2>3 DEF Watcher!NoTask
  <2>4. CASE task[j].at = "secret"
    BY <1>3, <2>1, <2>2, <2>4 DEF TaskShape, Watcher!NoTask
  <2>5. CASE task[j].at \in {"store", "reload"}
    BY <1>3, <2>1, <2>2, <2>5 DEF TaskShape, Watcher!NoTask
  <2> QED
    BY <2>2, <2>3, <2>4, <2>5 DEF TaskShape
<1> QED
  BY <1>1, <1>2, <1>3

LEMMA WatchBoundsStep == WatchInv /\ WatchBounds /\ [Watcher!Next]_(Watcher!vars) => WatchBounds'
<1> SUFFICES ASSUME WatchTypes, WatchBounds, [Watcher!Next]_(Watcher!vars) PROVE WatchBounds'
  BY DEF WatchInv
<1>0. MaxEdits \in Nat /\ MaxFaults \in Nat
  BY IdentityBounds
<1>1. ASSUME NEW n \in Watched, NEW c \in Method \cup {"absent"}, Watcher!EditConfigMap(n, c)
      PROVE  WatchBounds'
  BY <1>0, <1>1 DEF Watcher!EditConfigMap, Watcher!Hear, WatchBounds
<1>2. ASSUME NEW n \in Watched, NEW k \in Watcher!Credentials, Watcher!EditSecret(n, k)
      PROVE  WatchBounds'
  BY <1>0, <1>2 DEF Watcher!EditSecret, Watcher!Hear, WatchBounds
<1>3. CASE Watcher!DeleteConfigMap
  <2>1. cmap' \in [Watched -> Method \cup {"absent"}] /\ edits' \in 0 .. MaxEdits
        /\ why' \subseteq {"startup", "raced", "fault", "gone"}
    BY <1>0, <1>3 DEF Watcher!DeleteConfigMap, WatchBounds
  <2>2. \A i \in Watcher!Informer :
          /\ task'[i].at = "secret" => task'[i].cm \in [Watched -> Method \cup {"absent"}]
          /\ task'[i].at \in {"store", "reload"} => task'[i].got \in Watcher!Reading
    <3> SUFFICES ASSUME NEW i \in Watcher!Informer
                 PROVE  /\ task'[i].at = "secret" => task'[i].cm \in [Watched -> Method \cup {"absent"}]
                        /\ task'[i].at \in {"store", "reload"} => task'[i].got \in Watcher!Reading
      OBVIOUS
    <3>1. task'[i] = IF task[i].at = "idle" THEN Watcher!NoTask ELSE [task[i] EXCEPT !.lone = FALSE]
      BY <1>3 DEF Watcher!DeleteConfigMap
    <3>2. TaskShape(task[i])
          /\ (task[i].at = "secret" => task[i].cm \in [Watched -> Method \cup {"absent"}])
          /\ (task[i].at \in {"store", "reload"} => task[i].got \in Watcher!Reading)
      BY DEF WatchTypes, WatchBounds
    <3>3. CASE task[i].at = "idle"
      BY <3>1, <3>3 DEF Watcher!NoTask
    <3>4. CASE task[i].at = "secret"
      BY <3>1, <3>2, <3>4 DEF TaskShape, Watcher!NoTask
    <3>5. CASE task[i].at \in {"store", "reload"}
      BY <3>1, <3>2, <3>5 DEF TaskShape, Watcher!NoTask
    <3> QED
      BY <3>2, <3>3, <3>4, <3>5 DEF TaskShape, Watcher!NoTask
  <2> QED
    BY <1>3, <2>1, <2>2 DEF Watcher!DeleteConfigMap, WatchBounds
<1>4. CASE Watcher!Start
  BY <1>4, MergeReads DEF Watcher!Start, Watcher!store, WatchBounds
<1>5. CASE Watcher!Stop
  BY <1>5 DEF Watcher!Stop, Watcher!store, WatchBounds
<1>6. ASSUME NEW i \in Watcher!Informer, Watcher!ReadConfigMap(i) PROVE WatchBounds'
  <2> DEFINE t == [at |-> "secret", cm |-> cmap, lone |-> ~Watcher!Overlaps(i), fault |-> FALSE]
  <2>1. /\ t.at = "secret" => t.cm \in [Watched -> Method \cup {"absent"}]
        /\ ~(t.at \in {"store", "reload"})
    BY DEF WatchBounds
  <2>2. task' = [j \in Watcher!Informer |->
                   IF j = i THEN t
                   ELSE IF Watcher!Overlaps(i) THEN [task[j] EXCEPT !.lone = FALSE] ELSE task[j]]
    BY <1>6 DEF Watcher!ReadConfigMap
  <2> HIDE DEF t
  <2>3. \A j \in Watcher!Informer :
           /\ task'[j].at = "secret" => task'[j].cm \in [Watched -> Method \cup {"absent"}]
           /\ task'[j].at \in {"store", "reload"} => task'[j].got \in Watcher!Reading
    BY <2>1, <2>2, TasksKeep
  <2>4. why' \subseteq {"startup", "raced", "fault", "gone"}
    BY <1>6 DEF Watcher!ReadConfigMap, WatchBounds
  <2>5. UNCHANGED <<cmap, creds, lastValid, loaded, edits, faults>>
    BY <1>6 DEF Watcher!ReadConfigMap, Watcher!store
  <2> QED
    BY <2>3, <2>4, <2>5 DEF WatchBounds
<1>7. ASSUME NEW i \in Watcher!Informer, Watcher!ReadConfigMapFails(i) PROVE WatchBounds'
  <2> DEFINE t == [at |-> "store", got |-> lastValid, lone |-> ~Watcher!Overlaps(i), fault |-> TRUE]
  <2>1. t.at # "secret" /\ t.got \in Watcher!Reading
    BY DEF WatchBounds
  <2>2. task' = [j \in Watcher!Informer |->
                   IF j = i THEN t
                   ELSE IF Watcher!Overlaps(i) THEN [task[j] EXCEPT !.lone = FALSE] ELSE task[j]]
    BY <1>7 DEF Watcher!ReadConfigMapFails
  <2> HIDE DEF t
  <2>3. \A j \in Watcher!Informer :
           /\ task'[j].at = "secret" => task'[j].cm \in [Watched -> Method \cup {"absent"}]
           /\ task'[j].at \in {"store", "reload"} => task'[j].got \in Watcher!Reading
    BY <2>1, <2>2, TasksKeep
  <2>4. why' \subseteq {"startup", "raced", "fault", "gone"} /\ faults' \in 0 .. MaxFaults
    BY <1>0, <1>7 DEF Watcher!ReadConfigMapFails, WatchBounds
  <2>5. UNCHANGED <<cmap, creds, lastValid, loaded, edits>>
    BY <1>7 DEF Watcher!ReadConfigMapFails, Watcher!store
  <2> QED
    BY <2>3, <2>4, <2>5 DEF WatchBounds
<1>8. ASSUME NEW i \in Watcher!Informer, Watcher!ReadSecret(i) \/ Watcher!ReadSecretFails(i)
      PROVE  WatchBounds'
  <2>1. task[i].at = "secret" /\ task[i].cm \in [Watched -> Method \cup {"absent"}]
    BY <1>8 DEF Watcher!ReadSecret, Watcher!ReadSecretFails, WatchBounds
  <2>2. [n \in Watched |-> {}] \in [Watched -> Watcher!Credentials]
    BY DEF Watcher!Credentials
  <2>3. /\ Watcher!Merge(task[i].cm, creds) \in Watcher!Reading
        /\ Watcher!Merge(task[i].cm, [n \in Watched |-> {}]) \in Watcher!Reading
    BY <2>1, <2>2, MergeReads DEF WatchBounds
  <2>4. PICK r \in Watcher!Reading :
          \E l, f : task' = [task EXCEPT ![i] = [at |-> "store", got |-> r, lone |-> l, fault |-> f]]
    BY <1>8, <2>3 DEF Watcher!ReadSecret, Watcher!ReadSecretFails
  <2>5. \A j \in Watcher!Informer :
           /\ task'[j].at = "secret" => task'[j].cm \in [Watched -> Method \cup {"absent"}]
           /\ task'[j].at \in {"store", "reload"} => task'[j].got \in Watcher!Reading
    BY <2>4 DEF WatchTypes, WatchBounds
  <2>6. /\ UNCHANGED <<cmap, creds, lastValid, loaded, edits>>
        /\ faults' \in 0 .. MaxFaults /\ why' \subseteq {"startup", "raced", "fault", "gone"}
    BY <1>0, <1>8 DEF Watcher!ReadSecret, Watcher!ReadSecretFails, Watcher!store, WatchBounds
  <2> QED
    BY <2>5, <2>6 DEF WatchBounds
<1>9. ASSUME NEW i \in Watcher!Informer, Watcher!StoreReading(i) PROVE WatchBounds'
  <2>1. task[i].got \in Watcher!Reading /\ TaskShape(task[i]) /\ task[i].at = "store"
    BY <1>9 DEF Watcher!StoreReading, WatchTypes, WatchBounds
  <2>2. task'[i] = Watcher!NoTask \/ task'[i] = [task[i] EXCEPT !.at = "reload"]
    BY <1>9 DEF Watcher!StoreReading, WatchTypes
  <2>3. task'[i] = Watcher!NoTask \/ (task'[i].at = "reload" /\ task'[i].got = task[i].got)
    BY <2>1, <2>2 DEF TaskShape, Watcher!NoTask
  <2>4. \A j \in Watcher!Informer \ {i} : task'[j] = task[j]
    BY <1>9 DEF Watcher!StoreReading, WatchTypes
  <2>5. \A j \in Watcher!Informer :
           /\ task'[j].at = "secret" => task'[j].cm \in [Watched -> Method \cup {"absent"}]
           /\ task'[j].at \in {"store", "reload"} => task'[j].got \in Watcher!Reading
    BY <2>1, <2>3, <2>4 DEF Watcher!NoTask, WatchBounds
  <2>6. UNCHANGED <<cmap, creds, loaded, edits, faults, why>> /\ lastValid' \in Watcher!Reading
    BY <1>9, <2>1 DEF Watcher!StoreReading, Watcher!store
  <2> QED
    BY <2>5, <2>6 DEF WatchBounds
<1>10. ASSUME NEW i \in Watcher!Informer, Watcher!ReloadProviders(i) PROVE WatchBounds'
  <2>1. task[i].got \in Watcher!Reading
    BY <1>10 DEF Watcher!ReloadProviders, WatchBounds
  <2>2. PICK down \in SUBSET Watched :
          /\ down # {} => faults < MaxFaults
          /\ loaded' = [n \in Watched |-> IF n \in down THEN {} ELSE Watcher!Accepted(task[i].got)[n]]
          /\ faults' = IF down = {} THEN faults ELSE faults + 1
          /\ why' = (IF task[i].lone THEN {} ELSE why)
                      \cup (IF down # {} \/ task[i].fault THEN {"fault"} ELSE {})
          /\ task' = [task EXCEPT ![i] = Watcher!NoTask]
          /\ UNCHANGED <<cmap, creds, lastValid, edits>>
    BY <1>10 DEF Watcher!ReloadProviders, Watcher!store
  <2>3. loaded' \in Watcher!Reading
    BY <2>1, <2>2, AcceptedReads DEF Watcher!Reading
  <2>4. faults' \in 0 .. MaxFaults /\ why' \subseteq {"startup", "raced", "fault", "gone"}
    <3>1. faults' \in 0 .. MaxFaults
      BY <1>0, <2>2 DEF WatchBounds
    <3>2. why' \subseteq why \cup {"fault"}
      BY <2>2
    <3> QED
      BY <3>1, <3>2 DEF WatchBounds
  <2>5. \A j \in Watcher!Informer :
           /\ task'[j].at = "secret" => task'[j].cm \in [Watched -> Method \cup {"absent"}]
           /\ task'[j].at \in {"store", "reload"} => task'[j].got \in Watcher!Reading
    BY <2>2 DEF Watcher!NoTask, WatchTypes, WatchBounds
  <2> QED
    BY <2>2, <2>3, <2>4, <2>5 DEF WatchBounds
<1>11. CASE UNCHANGED Watcher!vars
  BY <1>11 DEF Watcher!vars, WatchBounds
<1> QED
  BY <1>1, <1>2, <1>3, <1>4, <1>5, <1>6, <1>7, <1>8, <1>9, <1>10, <1>11
     DEF Watcher!Next, Watcher!WatcherStep

LEMMA WatcherTyped == WatchInv /\ WatchBounds => Watcher!TypeOK
  BY DEF WatchInv, WatchTypes, TaskShape, Watcher!NoTask, WatchBounds, Watcher!TypeOK

\* The clock, and what it bounds.
AccBounds ==
  /\ clock \in 1 .. MaxTime /\ events \in 0 .. MaxEvents
  /\ \A n \in Account : issued[n] <= MaxTime

LEMMA AccBoundsStep == AccInv /\ AccBounds /\ [Acc!Next]_(Acc!vars) => AccBounds'
<1> SUFFICES ASSUME AccTypes, AccBounds, [Acc!Next]_(Acc!vars) PROVE AccBounds'
  BY DEF AccInv
<1>0. MaxTime \in Nat /\ MaxEvents \in Nat
  BY IdentityBounds
<1>1. ASSUME NEW r \in Replica, Acc!StartStep(r) PROVE AccBounds'
  <2>1. CASE Acc!Boot(r)
    BY <1>0, <2>1 DEF Acc!Boot, AccBounds
  <2>2. CASE ~Acc!Boot(r)
    BY <1>1, <2>2 DEF Acc!StartStep, Acc!CreateInitial, Acc!ReadKey, Acc!CreateSecret,
       Acc!GenerateKey, Acc!ReadForPassword, Acc!SetPassword, Acc!SetPasswordFails, Acc!ReadList,
       Acc!Fill, Acc!LoadFails, Acc!Crash, Acc!Calm, AccBounds
  <2> QED
    BY <2>1, <2>2
<1>2. ASSUME NEW r \in Replica, NEW n \in Account, Acc!MissesAccount(r, n) PROVE AccBounds'
  BY <1>2 DEF Acc!MissesAccount, Acc!Calm, AccBounds
<1>3. ASSUME NEW r \in Replica, NEW n \in Account, Acc!AuthenticateLocal(r, n) PROVE AccBounds'
  <2>1. \A m \in Account : issued'[m] = IF m = n THEN clock ELSE issued[m]
    BY <1>3 DEF Acc!AuthenticateLocal, AccTypes
  <2> QED
    BY <1>0, <1>3, <2>1 DEF Acc!AuthenticateLocal, AccBounds
<1>4. ASSUME NEW n \in Account, NEW to, Acc!EditAccount(n, to) PROVE AccBounds'
  BY <1>0, <1>4 DEF Acc!EditAccount, AccBounds
<1>5. CASE Acc!Tick
  BY <1>0, <1>5 DEF Acc!Tick, AccBounds
<1>6. CASE UNCHANGED Acc!vars
  BY <1>6 DEF Acc!vars, AccBounds
<1> QED
  BY <1>1, <1>2, <1>3, <1>4, <1>5, <1>6 DEF Acc!Next

LEMMA AccountsTyped == AccInv /\ AccBounds => Acc!TypeOK
<1> SUFFICES ASSUME AccTypes, TimesKept, AccBounds PROVE Acc!TypeOK
  BY DEF AccInv
<1>1. secret.mtime \in 0 .. MaxTime
  BY IdentityBounds DEF AccTypes, TimesKept, AccBounds
<1>2. issued \in [Account -> 0 .. MaxTime]
  BY IdentityBounds DEF AccTypes, AccBounds
<1> QED
  BY <1>1, <1>2 DEF AccTypes, AccBounds, Generated, Presence, ReplicaState, Acc!TypeOK

LogBounds ==
  /\ \A q \in Login : login[q].at \in {"idle", "compares"}
  /\ outages \in 0 .. MaxOutages

LEMMA LogBoundsStep == LogInv /\ LogBounds /\ [Log!Next]_(Log!vars) => LogBounds'
<1> SUFFICES ASSUME LogTypes, LogBounds, [Log!Next]_(Log!vars) PROVE LogBounds'
  BY DEF LogInv
<1>0. MaxOutages \in Nat
  BY IdentityBounds
<1>1. ASSUME NEW server, NEW s, Log!AnsweredBy(server, s) PROVE outages' \in 0 .. MaxOutages
  BY <1>0, <1>1 DEF Log!AnsweredBy, LogBounds
<1>2. ASSUME NEW q \in Login, NEW server, NEW s,
             Log!CheckRateLimit(q, server, s) \/ Log!Refuse(q, server, s)
      PROVE  LogBounds'
  BY <1>1, <1>2 DEF Log!CheckRateLimit, Log!Refuse, LogTypes, LogBounds
<1>3. ASSUME NEW q \in Login, NEW s, Log!RecordFailedAttempt(q, s) \/ Log!ClearFailedAttempts(q, s)
      PROVE  LogBounds'
  BY <1>1, <1>3 DEF Log!RecordFailedAttempt, Log!ClearFailedAttempts, Log!NoLogin, LogTypes, LogBounds
<1>4. ASSUME NEW s, Log!AttemptExpires(s) PROVE LogBounds'
  BY <1>4 DEF Log!AttemptExpires, LogBounds
<1>5. CASE UNCHANGED Log!vars
  BY <1>5 DEF Log!vars, LogBounds
<1> QED
  BY <1>2, <1>3, <1>4, <1>5 DEF Log!Next, Log!LoginStep

LEMMA LoginsTyped == LogInv /\ LogBounds => Log!TypeOK
  BY DEF LogInv, LogTypes, LogBounds, Log!TypeOK

LEMMA RatesTyped == RateInv => Rate!TypeOK
  BY DEF RateInv, RateTypes, Rate!TypeOK

\* Roles are those of the configuration, whoever holds them.
RolesBounds ==
  /\ mapping \subseteq Roles!Mapping /\ idp \subseteq Roles!Member
  /\ held \subseteq Roles!Role /\ kept \subseteq Roles!Role /\ entitled \subseteq Roles!Role
  /\ jwt = None \/ /\ jwt.roles \subseteq Roles!Role
                   /\ jwt.offers \subseteq TeamProject \X {"view", "deploy"}
  /\ spoilt \in BOOLEAN /\ turns \in 0 .. MaxMoves

LEMMA RolesBoundsStep == RolesInv /\ RolesBounds /\ [Roles!Next]_(Roles!vars) => RolesBounds'
<1> SUFFICES ASSUME SignonTypes, RolesBounds, [Roles!Next]_(Roles!vars) PROVE RolesBounds'
  BY DEF RolesInv
<1>0. MaxMoves \in Nat
  BY IdentityBounds
<1>1. ASSUME NEW q \in Login, Roles!Claim(q) PROVE RolesBounds'
  <2>1. spoilt' = TRUE \/ spoilt' = FALSE
    BY <1>1, Zenon DEF Roles!Claim
  <2> QED
    BY <1>1, <2>1 DEF Roles!Claim, RolesBounds
<1>2. ASSUME NEW q \in Login, signon[q] # Roles!Waiting PROVE signon[q].roles \subseteq Roles!Role
  BY <1>2 DEF SignonTypes
<1>3. ASSUME NEW q \in Login, signon[q].at # "idle" PROVE signon[q].roles \subseteq Roles!Role
  BY <1>2, <1>3 DEF Roles!Waiting
<1>4. ASSUME NEW q \in Login, Roles!AddUserRole(q) PROVE RolesBounds'
  <2>1. signon[q].roles \subseteq Roles!Role
    BY <1>3, <1>4 DEF Roles!AddUserRole
  <2> QED
    BY <1>4, <2>1 DEF Roles!AddUserRole, RolesBounds
<1>5. ASSUME NEW q \in Login, Roles!Evaluated(q) PROVE RolesBounds'
  BY <1>5 DEF Roles!Evaluated, RolesBounds
<1>6. ASSUME NEW q \in Login, Roles!AssignUserRoles(q) PROVE RolesBounds'
  <2>1. signon[q].roles \subseteq Roles!Role
    BY <1>3, <1>6 DEF Roles!AssignUserRoles
  <2> QED
    BY <1>6, <2>1 DEF Roles!AssignUserRoles, RolesBounds
<1>7. ASSUME NEW q \in Login, Roles!SaveUserRoles(q) PROVE RolesBounds'
  <2>1. signon[q].roles \subseteq Roles!Role
    BY <1>3, <1>7 DEF Roles!SaveUserRoles
  <2>2. kept' \subseteq Roles!Role /\ spoilt' \in BOOLEAN
    BY <1>7, <2>1 DEF Roles!SaveUserRoles, RolesBounds
  <2>3. turns' \in 0 .. MaxMoves
    BY <1>0, <1>7 DEF Roles!SaveUserRoles, RolesBounds
  <2> QED
    BY <1>7, <2>2, <2>3 DEF Roles!SaveUserRoles, RolesBounds
<1>8. ASSUME NEW q \in Login, Roles!Issue(q) PROVE RolesBounds'
  <2>1. Roles!Offered(held) \subseteq TeamProject \X {"view", "deploy"}
    BY DEF Roles!Offered
  <2> QED
    BY <1>8, <2>1 DEF Roles!Issue, RolesBounds
<1>9. CASE Roles!Regroup
  BY <1>0, <1>9 DEF Roles!Regroup, RolesBounds
<1>10. CASE Roles!Reboot
  <2>1. spoilt' = TRUE \/ spoilt' = FALSE
    BY <1>10, Zenon DEF Roles!Reboot
  <2>2. turns' \in 0 .. MaxMoves
    BY <1>0, <1>10 DEF Roles!Reboot, RolesBounds
  <2> QED
    BY <1>10, <2>1, <2>2 DEF Roles!Reboot, RolesBounds
<1>11. CASE UNCHANGED Roles!vars
  BY <1>11 DEF Roles!vars, RolesBounds
<1> QED
  BY <1>1, <1>4, <1>5, <1>6, <1>7, <1>8, <1>9, <1>10, <1>11 DEF Roles!Next, Roles!Step

LEMMA RolesTyped == RolesInv /\ RolesBounds => Roles!TypeOK
  BY DEF RolesInv, SignonTypes, RolesBounds, Roles!TypeOK

LEMMA FormsTyped == FormsInv => Forms!TypeOK
<1>1. FormsInv => FormsP!TypeOK
  BY DEF FormsInv, FormsP!Inv
<1> QED
  BY <1>1, Zenon DEF Forms!TypeOK, FormsP!TypeOK, Forms!Key, FormsP!Key, Forms!Subject,
     FormsP!Subject, Forms!Entry, FormsP!Entry, Forms!Request, FormsP!Request

\* The version that a Secret is written with is the next one.
SecBounds ==
  /\ secrets \in [Sec!Slot -> Sec!Secrets \cup {None}] /\ lastWrite \in 0 .. MaxRv
  /\ found \in [Asker -> Sec!Secrets \cup {None}]
  /\ trespasses \subseteq 1 .. MaxRv /\ {recreated, clobbered} \subseteq BOOLEAN
  /\ faulty \in 0 .. MaxFaults

LEMMA SecWritten ==
  ASSUME SecBounds, NEW i \in Sec!Slot, NEW s, lastWrite < MaxRv, Sec!Write(i, s),
         \/ s = None
         \/ /\ s = [uid |-> s.uid, rv |-> lastWrite + 1, project |-> s.project, managed |-> s.managed]
            /\ s.uid \in 1 .. MaxRv /\ s.project \in Project /\ s.managed \in BOOLEAN
  PROVE  secrets' \in [Sec!Slot -> Sec!Secrets \cup {None}] /\ lastWrite' \in 0 .. MaxRv
<1>0. MaxRv \in Nat
  BY IdentityBounds
<1>1. lastWrite + 1 \in 1 .. MaxRv /\ lastWrite' \in 0 .. MaxRv
  BY <1>0 DEF SecBounds, Sec!Write
<1>2. s \in Sec!Secrets \cup {None}
  BY <1>1 DEF Sec!Secrets
<1> QED
  BY <1>1, <1>2 DEF SecBounds, Sec!Write

LEMMA SecBoundsStep == SecInv /\ SecBounds /\ [Sec!Next]_(Sec!vars) => SecBounds'
<1> SUFFICES ASSUME SecTypes, SecBounds, [Sec!Next]_(Sec!vars) PROVE SecBounds'
  BY DEF SecInv
<1>0. MaxRv \in Nat /\ MaxFaults \in Nat
  BY IdentityBounds
<1>1. ASSUME NEW q \in Asker, Sec!Refuse(q) PROVE SecBounds'
  BY <1>1 DEF Sec!Refuse, Sec!End, Sec!ghosts, SecBounds
<1>2. ASSUME NEW q \in Asker, Sec!Fault(q), UNCHANGED <<trespasses, recreated, clobbered>>
      PROVE  SecBounds'
  <2>1. faulty' \in 0 .. MaxFaults
    BY <1>0, <1>2 DEF Sec!Fault, SecBounds
  <2> QED
    BY <1>2, <2>1 DEF Sec!Fault, Sec!End, SecBounds
<1>3. ASSUME NEW q \in Asker, Sec!Fault(q) PROVE UNCHANGED <<trespasses, recreated, clobbered>>
  BY <1>3 DEF Sec!Fault, Sec!ghosts
<1>4. ASSUME NEW q \in Asker, Sec!Arrive(q) PROVE SecBounds'
  BY <1>4 DEF Sec!Arrive, Sec!ghosts, SecBounds
<1>5. ASSUME NEW q \in Asker, Sec!End(q) PROVE found' \in [Asker -> Sec!Secrets \cup {None}]
  BY <1>5 DEF Sec!End, SecBounds
<1>6. ASSUME NEW q \in Asker, Sec!CreateSecret(q) PROVE SecBounds'
  <2> DEFINE i == asked[q].slot
             s == Sec!Secret(lastWrite + 1, lastWrite + 1, asked[q].project, TRUE)
  <2>1. i \in Sec!Slot /\ asked[q].project \in Project
    BY <1>6 DEF Sec!CreateSecret, SecTypes
  <2>2. CASE /\ lastWrite < MaxRv /\ Sec!Write(i, s) /\ Sec!End(q)
             /\ UNCHANGED <<trespasses, recreated, clobbered, faulty>>
    <3>1. /\ s = [uid |-> s.uid, rv |-> lastWrite + 1, project |-> s.project, managed |-> s.managed]
          /\ s.uid = lastWrite + 1 /\ s.project = asked[q].project /\ s.managed = TRUE
      BY DEF Sec!Secret
    <3>2. lastWrite + 1 \in 1 .. MaxRv
      BY <1>0, <2>2 DEF SecBounds
    <3> HIDE DEF i, s
    <3>3. secrets' \in [Sec!Slot -> Sec!Secrets \cup {None}] /\ lastWrite' \in 0 .. MaxRv
      BY <2>1, <2>2, <3>1, <3>2, SecWritten
    <3> QED
      BY <1>5, <2>2, <3>3 DEF SecBounds
  <2> QED
    BY <1>1, <1>2, <1>3, <1>6, <2>2 DEF Sec!CreateSecret, Sec!ghosts
<1>7. ASSUME NEW q \in Asker, Sec!GetSecret(q) PROVE SecBounds'
  <2> DEFINE s == secrets[asked[q].slot]
  <2>1. CASE /\ s # None /\ found' = [found EXCEPT ![q] = s]
             /\ UNCHANGED <<secrets, lastWrite, trespasses, recreated, clobbered, faulty>>
    <3>1. asked[q].slot \in Sec!Slot
      BY <1>7 DEF Sec!GetSecret, SecTypes
    <3> QED
      BY <2>1, <3>1 DEF SecBounds
  <2> QED
    BY <1>1, <1>2, <1>3, <1>7, <2>1 DEF Sec!GetSecret, Sec!ghosts
<1>8. ASSUME NEW q \in Asker, NEW s \in Sec!Secrets, Sec!Trespass(q, s)
      PROVE  trespasses' \subseteq 1 .. MaxRv
  BY <1>8 DEF Sec!Trespass, Sec!Secrets, SecBounds
<1>9. ASSUME NEW q \in Asker, Sec!UpdateSecret(q) PROVE SecBounds'
  <2> DEFINE i == asked[q].slot
             s == secrets[i]
             w == [found[q] EXCEPT !.rv = lastWrite + 1]
  <2>1. i \in Sec!Slot /\ found[q] \in Sec!Secrets
    BY <1>9 DEF Sec!UpdateSecret, SecTypes, SecBounds
  <2>2. CASE /\ s # None /\ lastWrite < MaxRv /\ Sec!Trespass(q, s)
             /\ clobbered' = (clobbered \/ s.rv # found[q].rv)
             /\ Sec!Write(i, w) /\ Sec!End(q) /\ UNCHANGED <<recreated, faulty>>
    <3>1. /\ w = [uid |-> w.uid, rv |-> lastWrite + 1, project |-> w.project, managed |-> w.managed]
          /\ w.uid \in 1 .. MaxRv /\ w.project \in Project /\ w.managed \in BOOLEAN
      BY <2>1 DEF Sec!Secrets
    <3>2. s \in Sec!Secrets
      BY <2>1, <2>2 DEF SecBounds
    <3>3. clobbered' = TRUE \/ clobbered' = FALSE
      BY <2>2, Zenon
    <3> HIDE DEF i, s, w
    <3>4. secrets' \in [Sec!Slot -> Sec!Secrets \cup {None}] /\ lastWrite' \in 0 .. MaxRv
      BY <2>1, <2>2, <3>1, SecWritten
    <3>5. trespasses' \subseteq 1 .. MaxRv
      BY <1>8, <2>2, <3>2
    <3> QED
      BY <1>5, <2>2, <3>3, <3>4, <3>5 DEF SecBounds
  <2> QED
    BY <1>1, <1>2, <1>3, <1>9, <2>2 DEF Sec!UpdateSecret, Sec!ghosts
<1>10. ASSUME NEW q \in Asker, Sec!DeleteSecret(q) PROVE SecBounds'
  <2> DEFINE i == asked[q].slot
             s == secrets[i]
  <2>1. i \in Sec!Slot
    BY <1>10 DEF Sec!DeleteSecret, SecTypes
  <2>2. CASE /\ s # None /\ lastWrite < MaxRv /\ Sec!Write(i, None) /\ Sec!Trespass(q, s)
             /\ recreated' = (recreated \/ s.uid # found[q].uid)
             /\ Sec!End(q) /\ UNCHANGED <<clobbered, faulty>>
    <3>1. s \in Sec!Secrets
      BY <2>1, <2>2 DEF SecBounds
    <3>2. recreated' = TRUE \/ recreated' = FALSE
      BY <2>2, Zenon
    <3> HIDE DEF i, s
    <3>3. secrets' \in [Sec!Slot -> Sec!Secrets \cup {None}] /\ lastWrite' \in 0 .. MaxRv
      BY <2>1, <2>2, SecWritten
    <3>4. trespasses' \subseteq 1 .. MaxRv
      BY <1>8, <2>2, <3>1
    <3> QED
      BY <1>5, <2>2, <3>2, <3>3, <3>4 DEF SecBounds
  <2> QED
    BY <1>1, <1>2, <1>3, <1>10, <2>2 DEF Sec!DeleteSecret, Sec!ghosts
<1>11. CASE Sec!OtherClient
  <2>1. /\ lastWrite < MaxRv
        /\ UNCHANGED <<found, trespasses, recreated, clobbered, faulty>>
    BY <1>11 DEF Sec!OtherClient, Sec!ghosts
  <2>2. lastWrite + 1 \in 1 .. MaxRv
    BY <1>0, <2>1 DEF SecBounds
  <2>3. PICK i \in Sec!Slot :
          \/ \E p \in Project, m \in BOOLEAN :
               Sec!Write(i, Sec!Secret(lastWrite + 1, lastWrite + 1, p, m))
          \/ secrets[i] # None /\ (Sec!Write(i, None) \/ Sec!Write(i, [secrets[i] EXCEPT !.rv = lastWrite + 1]))
    BY <1>11 DEF Sec!OtherClient
  <2>4. CASE \E p \in Project, m \in BOOLEAN :
               Sec!Write(i, Sec!Secret(lastWrite + 1, lastWrite + 1, p, m))
    <3>1. PICK p \in Project, m \in BOOLEAN :
            Sec!Write(i, Sec!Secret(lastWrite + 1, lastWrite + 1, p, m))
      BY <2>4
    <3> DEFINE s == Sec!Secret(lastWrite + 1, lastWrite + 1, p, m)
    <3>2. /\ s = [uid |-> s.uid, rv |-> lastWrite + 1, project |-> s.project, managed |-> s.managed]
          /\ s.uid \in 1 .. MaxRv /\ s.project \in Project /\ s.managed \in BOOLEAN
      BY <2>2 DEF Sec!Secret
    <3>3. Sec!Write(i, s)
      BY <3>1
    <3> HIDE DEF s
    <3> QED
      BY <2>1, <3>2, <3>3, SecWritten DEF SecBounds
  <2>5. CASE Sec!Write(i, None)
    BY <2>1, <2>5, SecWritten DEF SecBounds
  <2>6. CASE secrets[i] # None /\ Sec!Write(i, [secrets[i] EXCEPT !.rv = lastWrite + 1])
    <3> DEFINE s == [secrets[i] EXCEPT !.rv = lastWrite + 1]
    <3>1. secrets[i] \in Sec!Secrets
      BY <2>6 DEF SecBounds
    <3>2. /\ s = [uid |-> s.uid, rv |-> lastWrite + 1, project |-> s.project, managed |-> s.managed]
          /\ s.uid \in 1 .. MaxRv /\ s.project \in Project /\ s.managed \in BOOLEAN
      BY <3>1 DEF Sec!Secrets
    <3>3. Sec!Write(i, s)
      BY <2>6
    <3> HIDE DEF s
    <3> QED
      BY <2>1, <3>2, <3>3, SecWritten DEF SecBounds
  <2> QED
    BY <2>3, <2>4, <2>5, <2>6
<1>12. CASE Sec!ListAll \/ Sec!BeginList \/ Sec!AnswerList
  BY <1>12 DEF Sec!ListAll, Sec!BeginList, Sec!AnswerList, Sec!ghosts, SecBounds
<1>13. CASE Sec!ListNamespace
  <2>1. faulty' \in 0 .. MaxFaults
    BY <1>0, <1>13 DEF Sec!ListNamespace, SecBounds
  <2> QED
    BY <1>13, <2>1 DEF Sec!ListNamespace, Sec!ghosts, SecBounds
<1>14. CASE UNCHANGED Sec!vars
  BY <1>14 DEF Sec!vars, Sec!ghosts, SecBounds
<1> QED
  BY <1>4, <1>6, <1>7, <1>9, <1>10, <1>11, <1>12, <1>13, <1>14 DEF Sec!Next

LEMMA SecretsTyped == SecBounds => Sec!TypeOK
  BY DEF SecBounds, Sec!TypeOK

CompBounds ==
  /\ enforced \in [Constraint -> Comp!Action \cup {None}]
  /\ license \in Comp!License /\ enabled \in BOOLEAN /\ shifts \in 0 .. MaxShifts

LEMMA CompBoundsStep == CompInv /\ CompBounds /\ [Comp!Next]_(Comp!vars) => CompBounds'
<1> SUFFICES ASSUME CompTypes, CompBounds, [Comp!Next]_(Comp!vars) PROVE CompBounds'
  BY DEF CompInv
<1> USE DEF Comp!gatekeeper, Comp!rights, Comp!ghosts
<1>1. MaxShifts \in Nat
  BY IdentityBounds
<1>3. ASSUME Comp!Slip PROVE shifts' \in 0 .. MaxShifts
  BY <1>1, <1>3 DEF Comp!Slip, CompBounds
<1>4. ASSUME NEW q \in Login, Comp!WriteEnforcement(q) \/ Comp!CreateConstraint(q) PROVE CompBounds'
  <2>1. change[q].to \in Comp!Action \cup {None}
    BY <1>4 DEF Comp!WriteEnforcement, Comp!CreateConstraint, CompTypes, Comp!Calls
  <2>2. enforced' = enforced \/ \E c : enforced' = [enforced EXCEPT ![c] = change[q].to]
    BY <1>4 DEF Comp!WriteEnforcement, Comp!CreateConstraint
  <2>3. enforced' \in [Constraint -> Comp!Action \cup {None}]
    BY <2>1, <2>2 DEF CompBounds
  <2> QED
    BY <1>4, <2>3 DEF Comp!WriteEnforcement, Comp!CreateConstraint, CompBounds
<1>5. ASSUME NEW q \in Login, Comp!Fail(q) PROVE CompBounds'
  BY <1>3, <1>5 DEF Comp!Fail, CompBounds
<1>6. ASSUME NEW q \in Login,
             \/ Comp!BeginUpdate(q) \/ Comp!BeginCreate(q) \/ Comp!ReadConstraint(q) \/ Comp!ReadToken(q)
             \/ Comp!ConsumeToken(q) \/ Comp!BeginList(q) \/ Comp!ListViolations(q)
      PROVE  CompBounds'
  BY <1>6 DEF Comp!BeginUpdate, Comp!BeginCreate, Comp!ReadConstraint, Comp!ReadToken,
     Comp!ConsumeToken, Comp!BeginList, Comp!ListViolations, CompBounds
<1>7. CASE Comp!Expire
  BY <1>7 DEF Comp!Expire, CompBounds
<1>8. CASE Comp!Change
  <2>1. enabled' = TRUE \/ enabled' = FALSE
    BY <1>8, Zenon DEF Comp!Change, CompBounds
  <2>2. license' \in Comp!License /\ enforced' \in [Constraint -> Comp!Action \cup {None}]
    BY <1>8 DEF Comp!Change, CompBounds
  <2> QED
    BY <1>3, <1>8, <2>1, <2>2 DEF Comp!Change, CompBounds
<1>9. CASE UNCHANGED Comp!vars
  BY <1>9 DEF Comp!vars, CompBounds
<1> QED
  BY <1>4, <1>5, <1>6, <1>7, <1>8, <1>9 DEF Comp!Next

LEMMA ComplianceTyped == CompInv /\ CompBounds => Comp!TypeOK
  BY DEF CompInv, CompTypes, CompBounds, Comp!TypeOK

AccessBounds == admin \in BOOLEAN /\ synced \in BOOLEAN /\ turned \in 0 .. MaxTurns

LEMMA AccessBoundsStep == AccessBounds /\ [Access!Next]_(Access!vars) => AccessBounds'
<1> SUFFICES ASSUME AccessBounds, [Access!Next]_(Access!vars) PROVE AccessBounds'
  OBVIOUS
<1> USE DEF Access!policy, Access!ghosts
<1>1. CASE Access!Edit
  <2>1. turned' \in 0 .. MaxTurns
    BY <1>1, IdentityBounds DEF Access!Edit, AccessBounds
  <2>2. admin' = admin \/ admin' = ~admin
    BY <1>1 DEF Access!Edit
  <2> QED
    BY <1>1, <2>1, <2>2 DEF Access!Edit, AccessBounds
<1>2. CASE Access!Load
  BY <1>2 DEF Access!Load, AccessBounds
<1>3. CASE ~Access!Edit /\ ~Access!Load /\ Access!Next
  BY <1>3 DEF Access!Next, Access!Enter, Access!EnterCreate, Access!ReadProjects, Access!Legacy,
     Access!Collect, Access!ReadInstances, Access!Respond, Access!ReadProject, Access!Permit,
     Access!CreateInstance, AccessBounds
<1>4. CASE UNCHANGED Access!vars
  BY <1>4 DEF Access!vars, AccessBounds
<1> QED
  BY <1>1, <1>2, <1>3, <1>4

LEMMA AccessTyped == AccessInv /\ AccessBounds => Access!TypeOK
<1> SUFFICES ASSUME AccessTypes, AccessBounds PROVE Access!TypeOK
  BY DEF AccessInv
<1>1. \A i \in Access!Index : instances[i] # None =>
        instances[i].ns \in Namespace \cup {Access!Cluster} /\ instances[i].project \in Project
  BY DEF AccessTypes, Instance
<1> QED
  BY <1>1 DEF AccessTypes, AccessBounds, Destination, Access!TypeOK

Parts ==
  /\ StoreInv /\ WatchInv /\ FormsInv /\ AccInv /\ LogInv /\ RateInv /\ Inv /\ RolesInv
  /\ SecInv /\ CompInv /\ AccessInv

Bounds ==
  /\ StoreBounds /\ WatchBounds /\ AccBounds /\ LogBounds /\ RolesBounds /\ SecBounds
  /\ CompBounds /\ AccessBounds

LEMMA PartsInit == AllInit => Parts
<1>1. AllInit => Inv
  BY InvInit DEF AllInit
<1> QED
  BY <1>1, StoreInvInit, WatchInvInit, FormsInvInit, AccInvInit, LogInvInit, RateInvInit,
     RolesInvInit, SecInvInit, CompInvInit, AccessInvInit DEF Parts

LEMMA BoundsInit == AllInit => Bounds
<1> SUFFICES ASSUME AllInit PROVE Bounds
  OBVIOUS
<1> USE IdentityBounds
<1>1. StoreBounds
  <2>1. ops = 0 /\ tangled = FALSE /\ MaxOps \in Nat
    BY DEF AllInit, Store!Init
  <2>2. ops \in 0 .. MaxOps
    BY <2>1
  <2>3. tangled \in BOOLEAN
    BY <2>1
  <2> QED
    BY <2>2, <2>3 DEF StoreBounds
<1>2. WatchBounds
  <2>1. Watcher!Init /\ MaxEdits \in Nat /\ MaxFaults \in Nat
    BY DEF AllInit
  <2>2. cmap \in [Watched -> Method \cup {"absent"}] /\ creds \in [Watched -> Watcher!Credentials]
    BY <2>1, IdentityAssumption DEF Watcher!Init, Watcher!Credentials
  <2>3. lastValid \in Watcher!Reading
    BY <2>1 DEF Watcher!Init, Watcher!Reading
  <2>4. loaded \in Watcher!Reading
    <3>1. loaded = Watcher!Accepted(Watcher!Merge(cmap, creds))
      BY <2>1 DEF Watcher!Init
    <3> QED
      BY <2>2, <3>1, MergeReads, AcceptedReads
  <2>5. \A i \in Watcher!Informer : task[i].at = "idle"
    BY <2>1 DEF Watcher!Init, Watcher!NoTask
  <2>6. edits \in 0 .. MaxEdits /\ faults \in 0 .. MaxFaults /\ why = {}
    BY <2>1 DEF Watcher!Init
  <2> QED
    BY <2>2, <2>3, <2>4, <2>5, <2>6 DEF WatchBounds
<1>3. AccBounds
  BY DEF AllInit, Acc!Init, AccBounds
<1>4. LogBounds
  BY DEF AllInit, Log!Init, Log!NoLogin, LogBounds
<1>5. RolesBounds
  <2>1. /\ mapping \subseteq Roles!Mapping /\ idp \subseteq Roles!Member
        /\ held = {} /\ kept = {} /\ entitled = {} /\ jwt = None /\ spoilt = FALSE
        /\ turns = 0 /\ MaxMoves \in Nat
    BY DEF AllInit, Roles!Init
  <2>2. turns \in 0 .. MaxMoves
    BY <2>1
  <2>3. spoilt \in BOOLEAN
    BY <2>1
  <2> QED
    BY <2>1, <2>2, <2>3 DEF RolesBounds
<1>6. SecBounds
  <2>1. /\ secrets = [i \in Sec!Slot |-> None] /\ found = [q \in Asker |-> None]
        /\ trespasses = {} /\ recreated = FALSE /\ clobbered = FALSE
        /\ lastWrite = 0 /\ faulty = 0 /\ MaxRv \in Nat /\ MaxFaults \in Nat
    BY DEF AllInit, Sec!Init
  <2>2. secrets \in [Sec!Slot -> Sec!Secrets \cup {None}] /\ found \in [Asker -> Sec!Secrets \cup {None}]
    BY <2>1
  <2>3. lastWrite \in 0 .. MaxRv /\ faulty \in 0 .. MaxFaults
    BY <2>1
  <2>4. {recreated, clobbered} \subseteq BOOLEAN
    BY <2>1
  <2> QED
    BY <2>1, <2>2, <2>3, <2>4 DEF SecBounds
<1>7. CompBounds
  BY DEF AllInit, Comp!Init, Comp!License, CompBounds
<1>8. AccessBounds
  <2>1. admin = FALSE /\ synced = FALSE /\ turned = 0 /\ MaxTurns \in Nat
    BY DEF AllInit, Access!Init
  <2>2. turned \in 0 .. MaxTurns
    BY <2>1
  <2>3. admin \in BOOLEAN /\ synced \in BOOLEAN
    BY <2>1
  <2> QED
    BY <2>2, <2>3 DEF AccessBounds
<1> QED
  BY <1>1, <1>2, <1>3, <1>4, <1>5, <1>6, <1>7, <1>8 DEF Bounds

\* Every step is one of each component, or leaves it alone.
Steps ==
  /\ [Store!Next]_(Store!vars) /\ [Watcher!Next]_(Watcher!vars) /\ [Forms!Next]_(Forms!vars)
  /\ [Acc!Next]_(Acc!vars) /\ [Log!Next]_(Log!vars) /\ [Rate!Next]_(Rate!vars) /\ [Next]_vars
  /\ [Roles!Next]_(Roles!vars) /\ [Sec!Next]_(Sec!vars) /\ [Comp!Next]_(Comp!vars)
  /\ [Access!Next]_(Access!vars)

LEMMA PartStep == [AllNext]_allVars => Steps
<1> USE DEF storeVars, watcherVars, formsVars, accountsVars, loginsVars, ratesVars, sessionsVars,
            rolesVars, secretsVars, complianceVars, accessVars, Store!vars, Watcher!vars,
            Forms!vars, Forms!policyVars, Forms!readerVars, Forms!writerVars, Forms!ghostVars,
            Acc!vars, Acc!cluster, Log!vars, Rate!vars, Roles!vars, Sec!vars, Sec!ghosts,
            Comp!vars, Comp!ghosts, Access!vars, Access!policy, Access!ghosts
<1>1. AllNext => Steps
  BY DEF AllNext, Steps
<1>2. UNCHANGED allVars => Steps
  BY DEF allVars, Steps
<1> QED
  BY <1>1, <1>2

LEMMA PartsStep == Parts /\ Steps => Parts'
  BY StoreInvStep, WatchInvStep, FormsInvStep, AccInvStep, LogInvStep, RateInvStep, InvStep,
     RolesInvStep, SecInvStep, CompInvStep, AccessInvStep DEF Parts, Steps

LEMMA BoundsStep == Parts /\ Bounds /\ Steps => Bounds'
  BY StoreBoundsStep, WatchBoundsStep, AccBoundsStep, LogBoundsStep, RolesBoundsStep,
     SecBoundsStep, CompBoundsStep, AccessBoundsStep DEF Parts, Bounds, Steps

(* Every variable of sign-on and authorization keeps its type: what is     *)
(* stored for a provider, what a login or a token carries, what a request  *)
(* has read, the version a Secret is written with.                         *)
THEOREM IdentityTyped == AllSpec => []AllTypesOK
<1>1. Parts /\ Bounds => AllTypesOK
  BY StoreTyped, WatcherTyped, FormsTyped, AccountsTyped, LoginsTyped, RatesTyped, RolesTyped,
     SecretsTyped, ComplianceTyped, AccessTyped DEF Parts, Bounds, Inv, AllTypesOK
<1>2. Parts /\ Bounds /\ [AllNext]_allVars => Parts' /\ Bounds'
  BY PartStep, PartsStep, BoundsStep
<1> QED
  BY PartsInit, BoundsInit, <1>1, <1>2, PTL DEF AllSpec
=============================================================================
