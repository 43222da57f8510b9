------------------------------ MODULE Schemas ------------------------------
(***************************************************************************)
(* The cache of form schemas of one RGD (kro/schema/crd.go,                 *)
(* api/handlers/schema.go).  kro writes the CRD some time after the RGD, so   *)
(* the cache keeps what was read of the CRD: a schema, that there was none,    *)
(* or that the reading failed.                                              *)
(***************************************************************************)
EXTENDS Naturals

CONSTANTS Asker,              \* concurrent requests for the schema
          SchemaTTL, DegradedTTL,
          Latency,            \* the longest time a request may take to read the CRD
          MaxCrd, MaxBroken   \* bounds: versions of the CRD, failing readings

VARIABLES crd,                \* the version of the CRD, 0 when there is none
          crdAge,             \* time since it changed last, up to a maximum
          schema,             \* the entry of the cache: what was read, and how long it lives
          asker,              \* the requests
          broken

vars == <<crd, crdAge, schema, asker, broken>>

Nothing == [of |-> "nothing"]
Waiting == [at |-> "idle"]
OldestAge == SchemaTTL + Latency + 1

Init ==
  /\ crd = 0 /\ crdAge = OldestAge
  /\ schema = Nothing
  /\ asker = [q \in Asker |-> Waiting]
  /\ broken = 0

(* kro creates, changes and deletes the CRD.                                  *)
WriteCRD ==
  /\ crd' \in {0, crd + 1} /\ crd' # crd /\ crd' <= MaxCrd
  /\ crdAge' = 0
  /\ UNCHANGED <<schema, asker, broken>>

(* ExtractSchema finds an entry that lives: its schema or its error is the answer. *)
Hit == schema.of # "nothing" /\ schema.left > 0

Ask(q) ==
  /\ asker[q] = Waiting /\ ~Hit
  /\ asker' = [asker EXCEPT ![q] = [at |-> "list", since |-> 0]]
  /\ UNCHANGED <<crd, crdAge, schema, broken>>

AskAgain(q) ==
  /\ asker[q] = Waiting /\ Hit
  /\ asker' = [asker EXCEPT ![q] = [at |-> IF schema.of = "crd" THEN "enrich" ELSE "answer",
                                    since |-> 0]]
  /\ UNCHANGED <<crd, crdAge, schema, broken>>

(* The handler of GetSchema: EnrichSchema fills in the schema it was given, which   *)
(* is the cached one and may be another request's as well; without a CRD the form   *)
(* is built of the RGD alone.                                                    *)
GetSchema(q) ==
  /\ asker[q].at \in {"enrich", "answer"}
  /\ asker' = [asker EXCEPT ![q] = Waiting]
  /\ UNCHANGED <<crd, crdAge, schema, broken>>

(* extractSchemaFromCRD: the CRDs are listed, which may fail.                    *)
ListCRDs(q) ==
  /\ asker[q].at = "list"
  /\ \/ /\ asker' = [asker EXCEPT ![q] = [at |-> "store", since |-> @.since, version |-> crd,
                                          of |-> IF crd = 0 THEN "absent" ELSE "crd"]]
        /\ UNCHANGED broken
     \/ /\ broken < MaxBroken /\ broken' = broken + 1
        /\ asker' = [asker EXCEPT ![q] = [at |-> "store", since |-> @.since, version |-> crd,
                                          of |-> "error"]]
  /\ UNCHANGED <<crd, crdAge, schema>>

\* Mutant: that there was no CRD is kept as long as a schema.
TtlOfAll(of) == SchemaTTL

(* A missing CRD is asked for again soon; an error is kept as long as a schema.   *)
Ttl(of) == IF of = "absent" THEN DegradedTTL ELSE SchemaTTL

StoreSchema(q) ==
  /\ asker[q].at = "store"
  /\ schema' = [of |-> asker[q].of, version |-> asker[q].version, left |-> Ttl(asker[q].of)]
  /\ asker' = [asker EXCEPT ![q] = [at |-> IF @.of = "crd" THEN "enrich" ELSE "answer",
                                    since |-> @.since]]
  /\ UNCHANGED <<crd, crdAge, broken>>

(* InvalidateCache: an update or deletion of the RGD, or an administrator.        *)
InvalidateCache ==
  /\ schema # Nothing /\ schema' = Nothing
  /\ UNCHANGED <<crd, crdAge, asker, broken>>

(* Time passes; no request takes longer than Latency.                            *)
Pass ==
  /\ \A q \in Asker : asker[q] # Waiting => asker[q].since < Latency
  /\ asker' = [q \in Asker |-> IF asker[q] = Waiting THEN Waiting
                               ELSE [asker[q] EXCEPT !.since = @ + 1]]
  /\ schema' = IF Hit THEN [schema EXCEPT !.left = @ - 1] ELSE schema
  /\ crdAge' = IF crdAge < OldestAge THEN crdAge + 1 ELSE crdAge
  /\ UNCHANGED <<crd, broken>>

Next ==
  \/ WriteCRD \/ InvalidateCache \/ Pass
  \/ \E q \in Asker : Ask(q) \/ AskAgain(q) \/ ListCRDs(q) \/ StoreSchema(q) \/ GetSchema(q)

Spec == Init /\ [][Next]_vars

-----------------------------------------------------------------------------
TypeOK ==
  /\ crd \in 0 .. MaxCrd /\ crdAge \in 0 .. OldestAge /\ broken \in 0 .. MaxBroken
  /\ schema.of \in {"nothing", "crd", "absent", "error"}
  /\ \A q \in Asker : asker[q].at \in {"idle", "list", "store", "enrich", "answer"}

(* "use shorter TTL for degraded (not-found) results so the full schema replaces it *)
(* quickly once the CRD becomes available": an entry that lives is of the CRD as it  *)
(* is, or the CRD changed no longer ago than the entry and the request that read it  *)
(* may have lasted; for a missing CRD that is the short time.                        *)
OutdatedIsShort ==
  Hit /\ schema.of # "error" /\ schema.version # crd =>
    crdAge + schema.left <= Latency + (IF schema.of = "absent" THEN DegradedTTL ELSE SchemaTTL)
=============================================================================
