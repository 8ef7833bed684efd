---------------------------- MODULE ReleaseRecord ----------------------------
(***************************************************************************)
(* The shared release record of one suite member: the data of the          *)
(* kmx-release-<key> ConfigMap, and the transformations that a plain       *)
(* deploy and an update write into it.  Everything here is a pure operator; *)
(* the protocol that reads, compares and writes the record is ReleaseLift.  *)
(*                                                                         *)
(* A digest is abstracted to what it identifies.  An object fingerprint    *)
(* keeps its UID, generation, spec and `lift': the attempt whose ownership  *)
(* markers and lift-record annotation the object carries.                  *)
(***************************************************************************)
EXTENDS Integers, Sequences, FiniteSets, SequencesExt

CONSTANTS
  Attempts,      \* lift IDs: one per run of `deploy' or `deploy --update'
  Suites,        \* suite digests
  Specs,         \* spec digests
  Package,       \* what each attempt deploys: its suite and rendered specs
  None,          \* absence: an unset pointer, an empty string, a 404
  Foreign,       \* the author of objects and edits that are not kmx's
  Evaluated,     \* the author of the pair a package evaluation left behind
  MaxCompleted,  \* completed revisions retained in the record (ten)
  MaxBytes       \* maxReleaseStateBytes, in units of one unacknowledged fingerprint

Kinds == {"Provider", "Agent"}

ASSUME AuthorsAssumption == {Foreign, Evaluated} \cap Attempts = {}
ASSUME PackageAssumption ==
  Package \in [Attempts -> [suite : Suites, spec : [Kinds -> Specs]]]
ASSUME BoundsAssumption == MaxCompleted \in Nat \ {0} /\ MaxBytes \in Nat

\* Every field of a record is bounded, and 64 KiB hold that of a first deploy: the
\* acknowledged pair as its baseline and once more as its only revision.
ASSUME CapacityAssumption == MaxBytes >= 4 * Cardinality(Kinds)

-----------------------------------------------------------------------------
(* Values *)

Authors == Attempts \cup {Foreign, Evaluated}

\* A live Provider or Agent as the API server returns it.
Objects == [uid : Authors, gen : Nat, rv : Nat, spec : Specs \cup {Foreign}, lift : Authors]

\* releaseStateObject: uid and gen are empty until the write is acknowledged.
Fingerprints ==
  [uid : Authors \cup {None}, gen : Nat, spec : Specs \cup {Foreign}, lift : Authors]

Pairs == [Kinds -> Fingerprints]

Revisions ==
  [lift : Attempts, state : {"pending", "completed", "partial"},
   before : Pairs \cup {None}, objects : Pairs]

ReleaseStates ==
  [origin : Attempts, op : Attempts \cup {None}, baseline : Pairs \cup {None},
   pending : Revisions \cup {None}, history : Seq(Revisions)]

\* releaseStateSnapshot: the ConfigMap identity, its version and its data.
Snapshots == [uid : Attempts, rv : Nat, state : ReleaseStates]

\* Absence is no value.
ASSUME NoneAssumption ==
  /\ None \notin Attempts \cup {Foreign, Evaluated}
  /\ None \notin Objects /\ None \notin Fingerprints /\ None \notin Pairs
  /\ None \notin Revisions /\ None \notin Snapshots

releaseObjectFingerprint(o) ==
  [uid |-> o.uid, gen |-> o.gen, spec |-> o.spec, lift |-> o.lift]

\* The fingerprints an attempt expects before any write is acknowledged.
Intended(a) ==
  [k \in Kinds |-> [uid |-> None, gen |-> 0, spec |-> Package[a].spec[k], lift |-> a]]

Acknowledged(pair) == \A k \in Kinds : pair[k].uid # None

-----------------------------------------------------------------------------
(* Validity, retention and encoding *)

LiftsOf(s) == {s.history[i].lift : i \in DOMAIN s.history}

validReleaseState(s) ==
  /\ IF s.pending = None
       THEN s.op = None /\ s.baseline # None
       ELSE /\ s.op = s.pending.lift
            /\ s.pending.state = "pending"
            /\ s.baseline = None => s.pending.lift = s.origin
            /\ s.pending.lift \notin LiftsOf(s)
  /\ s.baseline # None => Acknowledged(s.baseline)
  /\ \A i \in DOMAIN s.history :
       /\ s.history[i].state \in {"completed", "partial"}
       /\ Acknowledged(s.history[i].objects)
       /\ \A j \in DOMAIN s.history : s.history[i].lift = s.history[j].lift => i = j

Completed(h) == {i \in DOMAIN h : h[i].state = "completed"}

\* Mutants: no retention, and retention that ignores a revision's state.
RollNothing(h) == h

RollFirst(h) == IF Len(h) > MaxCompleted THEN Tail(h) ELSE h

\* Only the oldest completed revision rolls off; partial proof never does.
Roll(h) ==
  IF Cardinality(Completed(h)) > MaxCompleted
    THEN LET oldest == CHOOSE i \in Completed(h) : \A j \in Completed(h) : i <= j
         IN  SubSeq(h, 1, oldest - 1) \o SubSeq(h, oldest + 1, Len(h))
    ELSE h

releaseStateBytes(s) == [s EXCEPT !.history = Roll(s.history)]

\* Acknowledging an object adds its UID and generation, so a record grows while
\* its reservation is worked on.
PairSize(pair) ==
  IF pair = None THEN 0
  ELSE Cardinality(Kinds) + Cardinality({k \in Kinds : pair[k].uid # None})

RevisionSize(r) == IF r = None THEN 0 ELSE PairSize(r.before) + PairSize(r.objects)

Fits(s) ==
  PairSize(s.baseline) + RevisionSize(s.pending)
    + FoldLeft(LAMBDA size, r : size + RevisionSize(r), 0, Roll(s.history)) <= MaxBytes

\* What writeReleaseState refuses locally, before it sends anything.
MayWrite(before, next, a) ==
  /\ before.op \in {None, a}
  /\ next.op = a \/ (next.op = None /\ before.op = a)
  /\ before.origin = next.origin
  /\ validReleaseState(next)
  /\ Fits(next)

-----------------------------------------------------------------------------
(* The states an attempt writes *)

Pending(a, before) ==
  [lift |-> a, state |-> "pending", before |-> before, objects |-> Intended(a)]

releaseCreateIntent(a) ==
  [origin |-> a, op |-> a, baseline |-> None, pending |-> Pending(a, None), history |-> << >>]

\* applyReleaseUpdate's reservation of an idle record.
Reservation(s, a) ==
  [s EXCEPT !.op = a, !.pending = Pending(a, s.baseline)]

\* checkpointReleaseCreate, and the update loop's pending.Objects[i] = objects[i].
Credit(s, k, fp) == [s EXCEPT !.pending.objects[k] = fp]

\* finishReleaseCreate, and the update finalizer's terminal revision.
Terminal(s, objects, outcome) ==
  LET terminal == [s.pending EXCEPT !.objects = objects, !.state = outcome]
  IN  releaseStateBytes([s EXCEPT !.op = None, !.pending = None, !.baseline = objects,
                                  !.history = Append(@, terminal)])

\* Mutant: only the bytes of the first write are reserved.
reserveFirstWrite(s) == Fits(s)

\* The largest pending form and both terminal forms must fit before anything is
\* written: the pending objects are sized with the baseline's identities.
reserveReleaseUpdateCapacity(s) ==
  LET largest == [s EXCEPT !.pending.objects =
                    [k \in Kinds |-> [@[k] EXCEPT !.uid = s.baseline[k].uid,
                                                  !.gen = s.baseline[k].gen]]]
  IN  /\ Fits(largest)
      /\ \A outcome \in {"partial", "completed"} :
           Fits(Terminal(largest, largest.pending.objects, outcome))

Latest(s) == s.history[Len(s.history)]
==============================================================================
