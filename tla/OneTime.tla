------------------------------ MODULE OneTime ------------------------------
(***************************************************************************)
(* What a single-use credential promises to those who hand it out: it is   *)
(* issued once, is good until it is used or lapses, and is used once.      *)
(* Sessions implements it with keys of Redis.                              *)
(***************************************************************************)
EXTENDS Naturals

CONSTANT Name        \* the credentials there will be

VARIABLES issued,    \* those given out
          open,      \* those that are still good
          uses       \* how often each was used

vars == <<issued, open, uses>>

Init == issued = {} /\ open = {} /\ uses = [n \in Name |-> 0]

\* It may have lapsed as soon as it is there.
Issue(n) ==
  /\ n \notin issued
  /\ issued' = issued \cup {n} /\ open' \in {open, open \cup {n}} /\ uses' = uses

Use(n) ==
  /\ n \in open /\ open' = open \ {n}
  /\ uses' = [uses EXCEPT ![n] = @ + 1] /\ issued' = issued

Lapse ==
  /\ uses' = uses /\ issued' = issued
  /\ open' \subseteq open

Next == Lapse \/ \E n \in Name : Issue(n) \/ Use(n)

Spec == Init /\ [][Next]_vars

(* What is not given out is not good, and nothing is used twice or again.  *)
UsedOnce ==
  /\ open \subseteq issued
  /\ \A n \in Name : uses[n] <= 1 /\ (n \in open \/ n \notin issued => uses[n] = 0)
=============================================================================
