---------------------------- MODULE RequestLimit ----------------------------
(***************************************************************************)
(* The limit of requests of one user or address                            *)
(* (api/middleware/user_ratelimit.go, ratelimit.go): a token bucket from a   *)
(* map, and a sweep that takes buckets out of the map when they are full.   *)
(* A request takes its bucket out of the map and then a token out of the    *)
(* bucket; the lock of the map does not protect the second step.            *)
(***************************************************************************)
EXTENDS Naturals, FiniteSets

CONSTANTS Call,               \* concurrent requests
          BurstSize

VARIABLES limiter,            \* the bucket in the map, 0 when there is none
          tokens,             \* per bucket
          call,               \* the bucket each request has taken, 0 when none
          sweep,              \* what the sweep does, and the bucket it looks at
          spent               \* what was let pass since the bucket was last replaced,
                              \* less the refills

vars == <<limiter, tokens, call, sweep, spent>>

Bucket == 1 .. Cardinality(Call) + 2
InUse == {limiter, sweep.bucket} \cup {call[q] : q \in Call}

Init ==
  /\ limiter = 0
  /\ tokens = [b \in Bucket |-> BurstSize]
  /\ call = [q \in Call |-> 0]
  /\ sweep = [at |-> "sleeps", bucket |-> 0]
  /\ spent = 0

MapIsLocked == sweep.at \in {"checks", "deletes"}

(* GetLimiter: the bucket in the map, or a new full one. *)
GetLimiter(q) ==
  /\ call[q] = 0 /\ ~MapIsLocked
  /\ IF limiter # 0
     THEN call' = [call EXCEPT ![q] = limiter] /\ UNCHANGED <<limiter, tokens>>
     ELSE LET b == CHOOSE b \in Bucket : b \notin InUse
          IN /\ limiter' = b
             /\ call' = [call EXCEPT ![q] = b]
             /\ tokens' = [tokens EXCEPT ![b] = BurstSize]
  /\ UNCHANGED <<sweep, spent>>

Allow(q) ==
  /\ call[q] # 0 /\ tokens[call[q]] > 0
  /\ tokens' = [tokens EXCEPT ![call[q]] = @ - 1]
  /\ spent' = spent + 1
  /\ call' = [call EXCEPT ![q] = 0]
  /\ UNCHANGED <<limiter, sweep>>

TooManyRequests(q) ==
  /\ call[q] # 0 /\ tokens[call[q]] = 0
  /\ call' = [call EXCEPT ![q] = 0]
  /\ UNCHANGED <<limiter, tokens, sweep, spent>>

(* periodicCleanup: a snapshot of the map, the full buckets of it, and those   *)
(* of them that are still full when the map is locked.                         *)
SweepStarts ==
  /\ sweep.at = "sleeps" /\ limiter # 0
  /\ sweep' = [at |-> IF tokens[limiter] = BurstSize THEN "found" ELSE "sleeps",
               bucket |-> IF tokens[limiter] = BurstSize THEN limiter ELSE 0]
  /\ UNCHANGED <<limiter, tokens, call, spent>>

SweepLocks ==
  /\ sweep.at = "found"
  /\ sweep' = [sweep EXCEPT !.at = "checks"]
  /\ UNCHANGED <<limiter, tokens, call, spent>>

\* Mutant: the buckets of the snapshot are deleted unseen.
SweepRechecksNothing ==
  /\ sweep.at = "checks"
  /\ sweep' = [sweep EXCEPT !.at = "deletes"]
  /\ UNCHANGED <<limiter, tokens, call, spent>>

SweepRechecks ==
  /\ sweep.at = "checks"
  /\ sweep' = IF limiter # 0 /\ tokens[limiter] = BurstSize
              THEN [sweep EXCEPT !.at = "deletes"]
              ELSE [at |-> "sleeps", bucket |-> 0]
  /\ UNCHANGED <<limiter, tokens, call, spent>>

SweepDeletes ==
  /\ sweep.at = "deletes"
  /\ limiter' = 0
  /\ spent' = BurstSize - tokens[limiter]      \* taken since the check, and forgotten
  /\ sweep' = [at |-> "sleeps", bucket |-> 0]
  /\ UNCHANGED <<tokens, call>>

(* Every bucket is refilled by one, up to the burst. *)
Refill ==
  /\ tokens' = [b \in Bucket |-> IF tokens[b] < BurstSize THEN tokens[b] + 1 ELSE BurstSize]
  /\ spent' = IF spent > 0 THEN spent - 1 ELSE 0
  /\ UNCHANGED <<limiter, call, sweep>>

Next ==
  \/ \E q \in Call : GetLimiter(q) \/ Allow(q) \/ TooManyRequests(q)
  \/ SweepStarts \/ SweepLocks \/ SweepRechecks \/ SweepDeletes
  \/ Refill

Spec == Init /\ [][Next]_vars

-----------------------------------------------------------------------------
TypeOK ==
  /\ limiter \in Bucket \cup {0}
  /\ tokens \in [Bucket -> 0 .. BurstSize]
  /\ call \in [Call -> Bucket \cup {0}]
  /\ sweep.at \in {"sleeps", "found", "checks", "deletes"}  /\ spent \in Nat

(* A sweep that replaces the bucket of a user lets nobody exceed the burst    *)
(* but the requests that already held the old one.                            *)
BurstIsBounded == spent <= BurstSize + Cardinality(Call)
=============================================================================
