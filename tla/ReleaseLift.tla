----------------------------- MODULE ReleaseLift -----------------------------
(***************************************************************************)
(* `kmx package deploy' and `kmx package deploy --update' of one native     *)
(* Orka suite member: ApplyReleaseLift and applyReleaseUpdate, run by any   *)
(* number of attempts at once, on any number of hosts, against one API      *)
(* server that holds the release record and the Provider/Agent pair.        *)
(*                                                                         *)
(* A read is one step and each write is two: the attempt sends a request    *)
(* and either the server answers it (Answer), or the attempt gives up       *)
(* (GiveUp, Crash) and it may still be served afterwards (DeliverLate).     *)
(* Every write is conditional: CREATE requires absence and the JSON patches *)
(* test the UID, the resource version and the whole value they replace, so  *)
(* a request carries the value it expects (`from') and the new one (`to').  *)
(***************************************************************************)
EXTENDS ReleaseRecord

CONSTANTS
  Updaters,        \* the attempts invoked with --update
  Home,            \* the host, so the private state directory, of an attempt
  EvaluatedSpec,   \* the pair a package evaluation leaves at the destination
  EvaluatedPairs,  \* which of its objects may exist initially
  MaxForeign,      \* bound on foreign edits, deletions and lost markers
  MaxChurn         \* bound on an object's version through status updates

ASSUME UpdatersAssumption == Updaters \subseteq Attempts
ASSUME EvaluatedAssumption ==
  EvaluatedSpec \in [Kinds -> Specs] /\ EvaluatedPairs \subseteq SUBSET Kinds
ASSUME EnvironmentAssumption == MaxForeign \in Nat /\ MaxChurn \in Nat

VARIABLES
  record,      \* the release ConfigMap, or None
  live,        \* the Provider and the Agent at the destination
  foreign,     \* foreign steps taken so far
  pc,          \* where an attempt is
  mode,        \* what its plan found
  row,         \* the object its write loop is at: 1, 2, or 3 when through
  before,      \* p.before: the record an update was planned against
  seen,        \* shared / cursor: the record as last read or acknowledged
  proof,       \* created / objects: the acknowledged identity of each object
  outcome,     \* row.Outcome
  result,      \* result.State
  observed,    \* result.ReleaseRecord.State
  known,       \* the finalizer re-proved the pair and the reservation
  sent,        \* the request in flight that the attempt waits for, or None
  late,        \* requests in flight that nobody waits for any more
  slots,       \* snapshots of the private attempt directory already used
  candidate,   \* the contents of 4.json, or None
  committed    \* whether committed.json links to it

cluster == <<record, live, foreign, late>>
memory == <<mode, row, before, seen, proof, outcome, result, observed, known>>
disk == <<slots, candidate, committed>>
vars == <<record, live, foreign, pc, mode, row, before, seen, proof, outcome,
          result, observed, known, sent, late, slots, candidate, committed>>

KindAt(i) == IF i = 1 THEN "Provider" ELSE "Agent"

Waiting == {"reserving", "writing", "crediting", "releasing"}
Locked == {"prepared", "reserving", "checking", "writing", "recording", "crediting",
           "waiting", "finishing", "settling", "persisting", "releasing", "acking", "linking"}
Stopped == {"done", "crashed"}
Locations == {"idle", "planned", "confirmed"} \cup Locked \cup Stopped

Modes == {"none", "fresh", "mixed", "reuse", "update", "noop"}

\* shared # nil in ApplyReleaseLift; always so in applyReleaseUpdate.
Shared(a) == mode[a] \in {"fresh", "update"}

\* An attempt holds the store lock from preflightReleaseLiftRecord to Close.  A
\* reuse writes no record, so it never holds it.
Holding(a) == pc[a] \in Locked /\ mode[a] # "reuse"

Missing(k) == live[k] = None

Changed(a) == \E k \in Kinds : outcome[a][k] # "not-attempted"

Goto(a, l) == pc' = [pc EXCEPT ![a] = l]

-----------------------------------------------------------------------------
(* Requests *)

Requests ==
  [target : {"record"}, from : Snapshots \cup {None}, to : Snapshots]
    \cup [target : Kinds, from : Objects \cup {None}, to : Objects]

ASSUME RequestAssumption == None \notin Requests

Create(target, to) == [target |-> target, from |-> None, to |-> to]

\* CREATE of a fresh record, or writeReleaseState's one compare-and-swap.
RecordWrite(a, state) ==
  IF seen[a] = None
    THEN Create("record", [uid |-> a, rv |-> 1, state |-> state])
    ELSE [target |-> "record", from |-> seen[a],
          to |-> [seen[a] EXCEPT !.rv = @ + 1, !.state = state]]

\* The replaces of an update's patch.  The generation grows exactly when the spec
\* changes.
patchReleaseUpdate(o, a, spec) ==
  [o EXCEPT !.gen = IF o.spec = spec THEN @ ELSE @ + 1, !.rv = @ + 1, !.spec = spec, !.lift = a]

\* createReleaseLift's CREATE, or patchReleaseUpdate's tests and replaces.
ObjectWrite(a, k) ==
  IF Missing(k)
    THEN Create(k, [uid |-> a, gen |-> 1, rv |-> 1, spec |-> Package[a].spec[k], lift |-> a])
    ELSE [target |-> k, from |-> live[k],
          to |-> patchReleaseUpdate(live[k], a, Package[a].spec[k])]

Send(a, request) == sent' = [sent EXCEPT ![a] = request]

\* Mutant: the record's patch tests its UID but not its version and its value.
AcceptsByUID(r) ==
  IF r.target = "record"
    THEN IF r.from = None THEN record = None ELSE record # None /\ record.uid = r.from.uid
    ELSE live[r.target] = r.from

\* The server serves a request whose test passes.
Accepts(r) == IF r.target = "record" THEN record = r.from ELSE live[r.target] = r.from

Serve(r) ==
  IF r.target = "record"
    THEN record' = r.to /\ UNCHANGED live
    ELSE live' = [live EXCEPT ![r.target] = r.to] /\ UNCHANGED record

-----------------------------------------------------------------------------
(* Reads *)

\* checkReleaseLiftLeaves and inspectReleaseUpdatePair: an object without proof
\* is still absent, one with proof is still exactly that object.
PairUnchanged(a) ==
  \A k \in Kinds :
    IF proof[a][k] = None
      THEN Missing(k)
      ELSE ~Missing(k) /\ releaseObjectFingerprint(live[k]) = proof[a][k]

\* Mutant: 4.json is trusted without its commit marker.
RetainedCandidate(id) == candidate[id] # None

\* readReleaseOwnership: only a committed acknowledgment counts.  It may have been
\* copied to the reader's host, so it is not tied to one.
Retained(id) == committed[id] /\ candidate[id] # None

\* inspectReleaseUpdateOwnership, the shared and private half.
Eligible(s) ==
  /\ s.state.op = None
  /\ s.state.history # << >>
  /\ LET origin == s.state.origin
         latest == Latest(s.state).lift
     IN  /\ Retained(origin) /\ Retained(latest)
         /\ candidate[origin].state = "ready"
         /\ candidate[origin].uid = s.uid
         /\ candidate[latest].uid = s.uid
         /\ candidate[latest].data = s.state
         /\ candidate[latest].objects = s.state.baseline
         /\ \A k \in Kinds : candidate[origin].objects[k].uid = s.state.baseline[k].uid

\* Nothing to update: the last revision completed and carries this very suite.
UpToDate(a, s) ==
  /\ Latest(s.state).state = "completed"
  /\ \A k \in Kinds : LET fp == s.state.baseline[k]
                      IN  /\ fp.lift \in Attempts
                          /\ Package[fp.lift].suite = Package[a].suite
                          /\ fp.spec = Package[a].spec[k]

\* checkReleaseReservation.
ReservationUnchanged(a) == record = seen[a]

\* recheck() and recheckReleaseUpdate.  Inputs, dependencies, dependents and
\* admission can also fail; every step that rechecks has a disjunct for that.
Recheck(a) ==
  /\ Shared(a) /\ seen[a] # None => ReservationUnchanged(a)
  /\ PairUnchanged(a)
  /\ mode[a] \in {"update", "noop"} =>
       /\ ReservationUnchanged(a)
       /\ Retained(seen[a].state.origin)
       /\ Retained(Latest(before[a].state).lift)

-----------------------------------------------------------------------------
(* Planning and confirmation: nothing has been written *)

\* inspectReleaseLiftResource: absent, or exactly the evaluated object.
Reusable(a, k) ==
  ~Missing(k) =>
    releaseObjectFingerprint(live[k])
      = [uid |-> Evaluated, gen |-> 1, spec |-> Package[a].spec[k], lift |-> Evaluated]

\* PrepareReleaseLift of a plain deploy.
PlanLift(a) ==
  /\ pc[a] = "idle" /\ a \notin Updaters
  /\ \A k \in Kinds : Reusable(a, k)
  /\ proof' = [proof EXCEPT ![a] =
       [k \in Kinds |-> IF Missing(k) THEN None ELSE releaseObjectFingerprint(live[k])]]
  /\ mode' = [mode EXCEPT ![a] =
       IF \A k \in Kinds : Missing(k) THEN "fresh"
       ELSE IF \E k \in Kinds : Missing(k) THEN "mixed" ELSE "reuse"]
  /\ Goto(a, "planned")
  /\ UNCHANGED <<cluster, row, before, seen, outcome, result, observed, known, sent, disk>>

\* prepareReleaseUpdate.
PlanUpdate(a) ==
  /\ pc[a] = "idle" /\ a \in Updaters
  /\ record # None
  /\ Eligible(record)
  /\ record.state.baseline["Provider"].spec = Package[a].spec["Provider"]
  /\ \A k \in Kinds :
       ~Missing(k) /\ releaseObjectFingerprint(live[k]) = record.state.baseline[k]
  /\ before' = [before EXCEPT ![a] = record]
  /\ seen' = [seen EXCEPT ![a] = record]
  /\ proof' = [proof EXCEPT ![a] = record.state.baseline]
  /\ mode' = [mode EXCEPT ![a] = IF UpToDate(a, record) THEN "noop" ELSE "update"]
  /\ Goto(a, "planned")
  /\ UNCHANGED <<cluster, row, outcome, result, observed, known, sent, disk>>

\* The guard, the rechecks around it and the permission preflights.  A fresh
\* deploy requires that there is no record; a reuse goes on without any write.
Confirm(a) ==
  /\ pc[a] = "planned" /\ mode[a] # "noop"
  /\ Recheck(a)
  /\ mode[a] = "fresh" => record = None
  /\ Goto(a, IF mode[a] = "reuse" THEN "checking" ELSE "confirmed")
  /\ UNCHANGED <<cluster, memory, sent, disk>>

\* An update whose package is already placed only verifies.
VerifyNoop(a) ==
  /\ pc[a] = "planned" /\ mode[a] = "noop"
  /\ Recheck(a)
  /\ outcome' = [outcome EXCEPT ![a] = [k \in Kinds |-> "reused"]]
  /\ result' = [result EXCEPT ![a] = "ready"]
  /\ Goto(a, "done")
  /\ UNCHANGED <<cluster, mode, row, before, seen, proof, observed, known, sent, disk>>

\* prepareReleaseLiftProvenance: the store lock is not waited for.
Prepare(a) ==
  /\ pc[a] = "confirmed"
  /\ \A b \in Attempts : Home[b] = Home[a] => ~Holding(b)
  /\ slots' = [slots EXCEPT ![a] = 1]
  /\ Goto(a, "prepared")
  /\ UNCHANGED <<cluster, memory, sent, candidate, committed>>

\* A refusal before the attempt directory exists.
Refuse(a) ==
  /\ pc[a] \in {"planned", "confirmed"}
  /\ Goto(a, "done")
  /\ UNCHANGED <<cluster, memory, sent, disk>>

-----------------------------------------------------------------------------
(* The reservation and the write loop *)

\* The write loop ends with everything known, by an error or not: an update settles
\* before its result is persisted.
Leave(a) == Goto(a, IF mode[a] = "update" THEN "settling" ELSE "persisting")

\* Mutant: the record's state becomes unknown only when the write has failed.
ReserveUnannounced(a) ==
  /\ pc[a] = "prepared"
  /\ Recheck(a)
  /\ IF mode[a] = "mixed"
       THEN Goto(a, "checking") /\ UNCHANGED <<result, sent>>
       ELSE /\ Send(a, RecordWrite(a, IF mode[a] = "fresh" THEN releaseCreateIntent(a)
                                                          ELSE Reservation(seen[a].state, a)))
            /\ result' = [result EXCEPT ![a] = IF mode[a] = "fresh" THEN "partial" ELSE @]
            /\ Goto(a, "reserving")
  /\ UNCHANGED <<cluster, mode, row, before, seen, proof, outcome, observed, known, disk>>

\* The last recheck and the admission dry-runs, then createReleaseState or the
\* update's first writeReleaseState.  A mixed deploy has no shared record.
Reserve(a) ==
  /\ pc[a] = "prepared"
  /\ Recheck(a)
  /\ IF mode[a] = "mixed"
       THEN /\ Goto(a, "checking")
            /\ UNCHANGED <<result, observed, sent>>
       ELSE LET next == IF mode[a] = "fresh" THEN releaseCreateIntent(a)
                                             ELSE Reservation(seen[a].state, a)
            IN  /\ mode[a] = "update" =>
                     reserveReleaseUpdateCapacity(next) /\ MayWrite(seen[a].state, next, a)
                /\ Send(a, RecordWrite(a, next))
                /\ observed' = [observed EXCEPT ![a] = "unknown"]
                /\ result' = [result EXCEPT ![a] = IF mode[a] = "fresh" THEN "partial" ELSE @]
                /\ Goto(a, "reserving")
  /\ UNCHANGED <<cluster, mode, row, before, seen, proof, outcome, known, disk>>

\* A recheck, a dry-run or the capacity check fails before the reservation.
RefusePrepared(a) ==
  /\ pc[a] = "prepared"
  /\ Goto(a, "persisting")
  /\ UNCHANGED <<cluster, memory, sent, disk>>

\* Mutant: the outcome is recorded when the answer arrives, not before the write.
CheckRowUnmarked(a) ==
  LET k == KindAt(row[a])
  IN  /\ pc[a] = "checking" /\ row[a] \in {1, 2}
      /\ Recheck(a)
      /\ IF mode[a] = "update" \/ proof[a][k] = None
           THEN /\ Send(a, ObjectWrite(a, k))
                /\ Goto(a, "writing")
                /\ UNCHANGED <<row, outcome>>
           ELSE /\ outcome' = [outcome EXCEPT ![a][k] = "reused"]
                /\ row' = [row EXCEPT ![a] = @ + 1]
                /\ Goto(a, IF row[a] = 2 THEN "finishing" ELSE "checking")
                /\ UNCHANGED sent
      /\ UNCHANGED <<cluster, mode, before, seen, proof, result, observed, known, disk>>

\* One row: recheck everything, then send the single write with its outcome
\* already recorded as unknown.  A reused row has nothing to send.
CheckRow(a) ==
  LET k == KindAt(row[a])
  IN  /\ pc[a] = "checking" /\ row[a] \in {1, 2}
      /\ Recheck(a)
      /\ IF mode[a] = "update" \/ proof[a][k] = None
           THEN /\ Send(a, ObjectWrite(a, k))
                /\ outcome' = [outcome EXCEPT ![a][k] = "unknown"]
                /\ result' = [result EXCEPT ![a] = "partial"]
                /\ Goto(a, "writing")
                /\ UNCHANGED row
           ELSE /\ outcome' = [outcome EXCEPT ![a][k] = "reused"]
                /\ row' = [row EXCEPT ![a] = @ + 1]
                /\ Goto(a, IF row[a] = 2 THEN "finishing" ELSE "checking")
                /\ UNCHANGED <<sent, result>>
      /\ UNCHANGED <<cluster, mode, before, seen, proof, observed, known, disk>>

\* Mutant: the shared record is credited whatever the outcome of the write.
CheckpointBlindly(a) ==
  LET k == KindAt(row[a])
  IN  /\ pc[a] = "recording"
      /\ slots' = [slots EXCEPT ![a] = @ + 1]
      /\ IF Shared(a)
           THEN /\ Send(a, RecordWrite(a, Credit(seen[a].state, k, proof[a][k])))
                /\ Goto(a, "crediting")
           ELSE Goto(a, "waiting") /\ UNCHANGED sent
      /\ UNCHANGED <<cluster, memory, candidate, committed>>

\* record.checkpoint after a write: publish the next snapshot, then credit the
\* acknowledged identity to the shared record.
Checkpoint(a) ==
  LET k == KindAt(row[a])
  IN  /\ pc[a] = "recording"
      /\ slots' = [slots EXCEPT ![a] = @ + 1]
      /\ IF outcome[a][k] = "unknown"
           THEN Goto(a, "persisting") /\ UNCHANGED sent
           ELSE IF Shared(a)
             THEN IF MayWrite(seen[a].state, Credit(seen[a].state, k, proof[a][k]), a)
               THEN /\ Send(a, RecordWrite(a, Credit(seen[a].state, k, proof[a][k])))
                    /\ Goto(a, "crediting")
               ELSE Goto(a, "persisting") /\ UNCHANGED sent
             ELSE Goto(a, "waiting") /\ UNCHANGED sent
      /\ UNCHANGED <<cluster, memory, candidate, committed>>

\* The snapshot may or may not have become visible: its slot is spent.
CheckpointFails(a) ==
  /\ pc[a] = "recording"
  /\ slots' = [slots EXCEPT ![a] = @ + 1]
  /\ Goto(a, "persisting")
  /\ UNCHANGED <<cluster, memory, sent, candidate, committed>>

\* Mutant: readiness is recorded in a snapshot of its own.
BecomeReadyRecorded(a) ==
  LET k == KindAt(row[a])
  IN  /\ pc[a] = "waiting"
      /\ ~Missing(k) /\ live[k].uid = proof[a][k].uid /\ live[k].gen = proof[a][k].gen
      /\ row' = [row EXCEPT ![a] = @ + 1]
      /\ slots' = [slots EXCEPT ![a] = @ + 1]
      /\ Goto(a, IF row[a] = 2 THEN "finishing" ELSE "checking")
      /\ UNCHANGED <<cluster, mode, before, seen, proof, outcome, result, observed, known, sent,
                     candidate, committed>>

\* waitReleaseLift / waitOrkaReady, bound to the acknowledged UID and generation.
BecomeReady(a) ==
  LET k == KindAt(row[a])
  IN  /\ pc[a] = "waiting"
      /\ ~Missing(k) /\ live[k].uid = proof[a][k].uid /\ live[k].gen = proof[a][k].gen
      /\ row' = [row EXCEPT ![a] = @ + 1]
      /\ Goto(a, IF row[a] = 2 THEN "finishing" ELSE "checking")
      /\ UNCHANGED <<cluster, mode, before, seen, proof, outcome, result, observed, known, sent, disk>>

\* A recheck, an admission or the readiness wait fails with everything known.
LoopFails(a) ==
  /\ pc[a] \in {"checking", "waiting", "finishing"}
  /\ IF mode[a] = "reuse" THEN Goto(a, "done") ELSE Leave(a)
  /\ UNCHANGED <<cluster, memory, sent, disk>>

\* finishReleaseLift / finishReleaseUpdate.
Finish(a) ==
  /\ pc[a] = "finishing"
  /\ Recheck(a)
  /\ result' = [result EXCEPT ![a] = "ready"]
  /\ IF mode[a] = "reuse" THEN Goto(a, "done") ELSE Leave(a)
  /\ UNCHANGED <<cluster, mode, row, before, seen, proof, outcome, observed, known, sent, disk>>

-----------------------------------------------------------------------------
(* The finalizer: release, restore or leave the reservation *)

Downgrade(a) == result' = [result EXCEPT ![a] = IF @ = "ready" THEN "partial" ELSE @]

\* The update finalizer re-proves the acknowledged pair and the reservation.
Settle(a) ==
  /\ pc[a] = "settling"
  /\ PairUnchanged(a) /\ ReservationUnchanged(a)
  /\ known' = [known EXCEPT ![a] = TRUE]
  /\ Goto(a, "persisting")
  /\ UNCHANGED <<cluster, mode, row, before, seen, proof, outcome, result, observed, sent, disk>>

SettleFails(a) ==
  /\ pc[a] = "settling"
  /\ observed' = [observed EXCEPT ![a] = "unknown"]
  /\ Downgrade(a)
  /\ Goto(a, "persisting")
  /\ UNCHANGED <<cluster, mode, row, before, seen, proof, outcome, known, sent, disk>>

\* Whether this attempt may give the record back once its result is persisted.
MayRelease(a) ==
  \/ mode[a] = "update" /\ known[a]
  \/ mode[a] = "fresh" /\ result[a] = "ready"

\* Mutant: an update that fails half-way restores the data it found.
ReleasedRollback(a) ==
  IF mode[a] = "update"
    THEN IF result[a] = "ready" THEN Terminal(seen[a].state, proof[a], "completed")
                                ELSE before[a].state
    ELSE Terminal(seen[a].state, seen[a].state.pending.objects, "completed")

\* An update that sent no object write restores the exact data it found;
\* otherwise the record gets a terminal revision.
Released(a) ==
  IF mode[a] = "update"
    THEN IF Changed(a)
      THEN Terminal(seen[a].state, proof[a], IF result[a] = "ready" THEN "completed" ELSE "partial")
      ELSE before[a].state
    ELSE Terminal(seen[a].state, seen[a].state.pending.objects, "completed")

\* The final snapshot precedes the release.
Persist(a) ==
  /\ pc[a] = "persisting"
  /\ slots' = [slots EXCEPT ![a] = @ + 1]
  /\ IF MayRelease(a)
       THEN IF MayWrite(seen[a].state, Released(a), a)
         THEN /\ Send(a, RecordWrite(a, Released(a)))
              /\ Goto(a, "releasing")
              /\ UNCHANGED <<result, observed>>
         ELSE /\ observed' = [observed EXCEPT ![a] = "unknown"]
              /\ Downgrade(a)
              /\ Goto(a, "done")
              /\ UNCHANGED sent
       ELSE Goto(a, "done") /\ UNCHANGED <<result, observed, sent>>
  /\ UNCHANGED <<cluster, mode, row, before, seen, proof, outcome, known, candidate, committed>>

PersistFails(a) ==
  /\ pc[a] = "persisting"
  /\ slots' = [slots EXCEPT ![a] = @ + 1]
  /\ Downgrade(a)
  /\ Goto(a, "done")
  /\ UNCHANGED <<cluster, mode, row, before, seen, proof, outcome, observed, known, sent,
                 candidate, committed>>

\* acknowledge: 4.json binds the pair to the data whose release was acknowledged.
Acknowledgment(a) ==
  [uid |-> seen[a].uid, objects |-> proof[a], state |-> result[a], data |-> seen[a].state]

PublishCandidate(a) ==
  /\ pc[a] = "acking"
  /\ candidate' = [candidate EXCEPT ![a] = Acknowledgment(a)]
  /\ slots' = [slots EXCEPT ![a] = 5]
  /\ Goto(a, "linking")
  /\ UNCHANGED <<cluster, memory, sent, committed>>

\* commitAcknowledgment: the exclusive link is the commit point.
Commit(a) ==
  /\ pc[a] = "linking"
  /\ committed' = [committed EXCEPT ![a] = TRUE]
  /\ observed' = [observed EXCEPT ![a] =
       IF mode[a] = "fresh" THEN "ready" ELSE Latest(seen[a].state).state]
  /\ Goto(a, "done")
  /\ UNCHANGED <<cluster, mode, row, before, seen, proof, outcome, result, known, sent, slots, candidate>>

\* Mutant: the result keeps saying ready without its acknowledgment.
AcknowledgeFailsReady(a) ==
  /\ \/ pc[a] = "acking" /\ UNCHANGED <<slots, committed, candidate>>
     \/ pc[a] = "linking" /\ UNCHANGED <<slots, committed, candidate>>
  /\ observed' = [observed EXCEPT ![a] = "unknown"]
  /\ Goto(a, "done")
  /\ UNCHANGED <<cluster, mode, row, before, seen, proof, outcome, result, known, sent>>

\* Publishing can fail before or after 4.json is visible.  A failed link counts as
\* made when the marker can be read back as that very file.
AcknowledgeFails(a) ==
  /\ \/ /\ pc[a] = "acking"
        /\ candidate' \in {candidate, [candidate EXCEPT ![a] = Acknowledgment(a)]}
        /\ slots' = [slots EXCEPT ![a] = 5]
        /\ UNCHANGED committed
     \/ /\ pc[a] = "linking"
        /\ committed' \in {committed, [committed EXCEPT ![a] = TRUE]}
        /\ UNCHANGED <<slots, candidate>>
  /\ observed' = [observed EXCEPT ![a] = "unknown"]
  /\ Downgrade(a)
  /\ Goto(a, "done")
  /\ UNCHANGED <<cluster, mode, row, before, seen, proof, outcome, known, sent>>

-----------------------------------------------------------------------------
(* Answers *)

\* The attempt learns that its request was applied.
OnAccept(a) ==
  LET k == KindAt(row[a])
      to == sent[a].to
  IN  CASE pc[a] = "reserving" ->
             /\ seen' = [seen EXCEPT ![a] = to]
             /\ observed' = [observed EXCEPT ![a] = "pending"]
             /\ Goto(a, "checking")
             /\ UNCHANGED <<proof, outcome>>
        [] pc[a] = "writing" ->
             /\ proof' = [proof EXCEPT ![a][k] = releaseObjectFingerprint(to)]
             /\ outcome' = [outcome EXCEPT ![a][k] =
                  IF mode[a] = "update" THEN "updated" ELSE "created"]
             /\ Goto(a, "recording")
             /\ UNCHANGED <<seen, observed>>
        [] pc[a] = "crediting" ->
             /\ seen' = [seen EXCEPT ![a] = to]
             /\ Goto(a, "waiting")
             /\ UNCHANGED <<observed, proof, outcome>>
        [] pc[a] = "releasing" ->
             /\ seen' = [seen EXCEPT ![a] = to]
             /\ IF mode[a] = "update" /\ ~Changed(a)
                  THEN /\ observed' = [observed EXCEPT ![a] = Latest(before[a].state).state]
                       /\ Goto(a, "done")
                  ELSE Goto(a, "acking") /\ UNCHANGED observed
             /\ UNCHANGED <<proof, outcome>>

\* Mutant: a failed object patch is taken as not applied.
OnErrorSettles(a) ==
  CASE pc[a] \in {"reserving", "crediting"} ->
         Goto(a, "persisting") /\ UNCHANGED <<result, observed>>
    [] pc[a] = "writing" ->
         /\ Goto(a, IF mode[a] = "update" THEN "settling" ELSE "recording")
         /\ UNCHANGED <<result, observed>>
    [] pc[a] = "releasing" ->
         /\ observed' = [observed EXCEPT ![a] = "unknown"]
         /\ Downgrade(a)
         /\ Goto(a, "done")

\* Mutant: an unanswered release is taken as applied and acknowledged.
OnErrorAcknowledges(a) ==
  IF pc[a] = "writing"
    THEN /\ Goto(a, IF mode[a] = "update" THEN "persisting" ELSE "recording")
         /\ UNCHANGED <<result, observed>>
    ELSE /\ Goto(a, IF pc[a] = "releasing" /\ Changed(a) THEN "acking" ELSE "persisting")
         /\ UNCHANGED <<result, observed>>

\* The attempt learns nothing: refused, timed out or the response was lost.  A
\* create still checkpoints its unknown row; an update is uncertain from here on.
OnError(a) ==
  CASE pc[a] \in {"reserving", "crediting"} ->
         Goto(a, "persisting") /\ UNCHANGED <<result, observed>>
    [] pc[a] = "writing" ->
         /\ Goto(a, IF mode[a] = "update" THEN "persisting" ELSE "recording")
         /\ UNCHANGED <<result, observed>>
    [] pc[a] = "releasing" ->
         /\ observed' = [observed EXCEPT ![a] = "unknown"]
         /\ Downgrade(a)
         /\ Goto(a, "done")

Answer(a) ==
  /\ pc[a] \in Waiting
  /\ sent' = [sent EXCEPT ![a] = None]
  /\ IF Accepts(sent[a])
       THEN Serve(sent[a]) /\ OnAccept(a) /\ UNCHANGED result
       ELSE OnError(a) /\ UNCHANGED <<record, live, seen, proof, outcome>>
  /\ UNCHANGED <<foreign, late, mode, row, before, known, disk>>

\* The attempt stops waiting; its request stays on its way.
Abandon(a) ==
  /\ sent' = [sent EXCEPT ![a] = None]
  /\ late' = [late EXCEPT ![a] = @ \cup ({sent[a]} \ {None})]
  /\ UNCHANGED <<record, live, foreign>>

\* The deadline of the request passes, or its response is lost.
GiveUp(a) ==
  /\ pc[a] \in Waiting
  /\ OnError(a)
  /\ Abandon(a)
  /\ UNCHANGED <<mode, row, before, seen, proof, outcome, known, disk>>

DeliverLate(a) ==
  \E r \in late[a] :
    /\ late' = [late EXCEPT ![a] = @ \ {r}]
    /\ IF Accepts(r) THEN Serve(r) ELSE UNCHANGED <<record, live>>
    /\ UNCHANGED <<foreign, pc, memory, sent, disk>>

\* The process is killed, or its host dies.
Crash(a) ==
  /\ pc[a] \in {"planned", "confirmed"} \cup Locked
  /\ Goto(a, "crashed")
  /\ Abandon(a)
  /\ UNCHANGED <<memory, disk>>

-----------------------------------------------------------------------------
(* The rest of the world *)

\* A controller updates an object's status.
StatusUpdate(k) ==
  /\ ~Missing(k) /\ live[k].rv < MaxChurn
  /\ live' = [live EXCEPT ![k].rv = @ + 1]
  /\ UNCHANGED <<record, foreign, late, pc, memory, sent, disk>>

\* Somebody edits an object's spec or its annotations, deletes it, or occupies
\* its name.
Interfere(k) ==
  /\ foreign < MaxForeign
  /\ foreign' = foreign + 1
  /\ \/ /\ ~Missing(k)
        /\ live' = [live EXCEPT ![k].gen = @ + 1, ![k].rv = @ + 1, ![k].spec = Foreign]
     \/ ~Missing(k) /\ live' = [live EXCEPT ![k].rv = @ + 1, ![k].lift = Foreign]
     \/ ~Missing(k) /\ live' = [live EXCEPT ![k] = None]
     \/ /\ Missing(k)
        /\ live' = [live EXCEPT ![k] =
             [uid |-> Foreign, gen |-> 1, rv |-> 1, spec |-> Foreign, lift |-> Foreign]]
  /\ UNCHANGED <<record, late, pc, memory, sent, disk>>

\* A host crash can lose the unsynced directory entry of a commit marker.
LoseMarker(a) ==
  /\ foreign < MaxForeign /\ committed[a] /\ pc[a] \in Stopped
  /\ foreign' = foreign + 1
  /\ committed' = [committed EXCEPT ![a] = FALSE]
  /\ UNCHANGED <<record, live, late, pc, memory, sent, slots, candidate>>

\* The documented operator recovery: every writer is stopped and every write has
\* stopped, then the owned pair and the record are removed.
TearDown ==
  /\ record # None
  /\ \A a \in Attempts : pc[a] \in {"idle"} \cup Stopped /\ late[a] = {}
  /\ record' = None
  /\ live' = [k \in Kinds |-> None]
  /\ UNCHANGED <<foreign, late, pc, memory, sent, disk>>

-----------------------------------------------------------------------------
(* Specification *)

EvaluatedObject(k) ==
  [uid |-> Evaluated, gen |-> 1, rv |-> 1, spec |-> EvaluatedSpec[k], lift |-> Evaluated]

Init ==
  /\ record = None
  /\ \E there \in EvaluatedPairs :
       live = [k \in Kinds |-> IF k \in there THEN EvaluatedObject(k) ELSE None]
  /\ foreign = 0
  /\ pc = [a \in Attempts |-> "idle"]
  /\ mode = [a \in Attempts |-> "none"]
  /\ row = [a \in Attempts |-> 1]
  /\ before = [a \in Attempts |-> None]
  /\ seen = [a \in Attempts |-> None]
  /\ proof = [a \in Attempts |-> [k \in Kinds |-> None]]
  /\ outcome = [a \in Attempts |-> [k \in Kinds |-> "not-attempted"]]
  /\ result = [a \in Attempts |-> "not-applied"]
  /\ observed = [a \in Attempts |-> "none"]
  /\ known = [a \in Attempts |-> FALSE]
  /\ sent = [a \in Attempts |-> None]
  /\ late = [a \in Attempts |-> {}]
  /\ slots = [a \in Attempts |-> 0]
  /\ candidate = [a \in Attempts |-> None]
  /\ committed = [a \in Attempts |-> FALSE]

\* What a running process does once its attempt directory exists: it never waits
\* for anybody, because every request and every wait has a deadline.
Progress(a) ==
  \/ Reserve(a) \/ RefusePrepared(a)
  \/ CheckRow(a) \/ Checkpoint(a) \/ CheckpointFails(a) \/ BecomeReady(a)
  \/ LoopFails(a) \/ Finish(a)
  \/ Settle(a) \/ SettleFails(a) \/ Persist(a) \/ PersistFails(a)
  \/ PublishCandidate(a) \/ Commit(a) \/ AcknowledgeFails(a)
  \/ Answer(a) \/ GiveUp(a)

Start(a) ==
  PlanLift(a) \/ PlanUpdate(a) \/ Confirm(a) \/ VerifyNoop(a) \/ Prepare(a) \/ Refuse(a)

Next ==
  \/ \E a \in Attempts : Start(a) \/ Progress(a) \/ DeliverLate(a) \/ Crash(a) \/ LoseMarker(a)
  \/ \E k \in Kinds : StatusUpdate(k) \/ Interfere(k)
  \/ TearDown

Spec == Init /\ [][Next]_vars

FairSpec == Spec /\ \A a \in Attempts : WF_vars(Progress(a))

-----------------------------------------------------------------------------
(* Properties *)

Acknowledgments ==
  [uid : Attempts, objects : Pairs, state : {"ready", "partial", "not-applied"},
   data : ReleaseStates]

TypeOK ==
  /\ record \in Snapshots \cup {None}
  /\ live \in [Kinds -> Objects \cup {None}]
  /\ foreign \in Nat
  /\ pc \in [Attempts -> Locations]
  /\ mode \in [Attempts -> Modes]
  /\ row \in [Attempts -> 1..3]
  /\ before \in [Attempts -> Snapshots \cup {None}]
  /\ seen \in [Attempts -> Snapshots \cup {None}]
  /\ proof \in [Attempts -> [Kinds -> Fingerprints \cup {None}]]
  /\ outcome \in [Attempts -> [Kinds -> {"not-attempted", "unknown", "created", "updated", "reused"}]]
  /\ result \in [Attempts -> {"not-applied", "partial", "ready"}]
  /\ observed \in [Attempts -> {"none", "unknown", "pending", "ready", "completed", "partial"}]
  /\ known \in [Attempts -> BOOLEAN]
  /\ sent \in [Attempts -> Requests \cup {None}]
  /\ late \in [Attempts -> SUBSET Requests]
  /\ slots \in [Attempts -> Nat]
  /\ candidate \in [Attempts -> Acknowledgments \cup {None}]
  /\ committed \in [Attempts -> BOOLEAN]

InFlight(a) == late[a] \cup ({sent[a]} \ {None})

Writes(a, k) == \E r \in InFlight(a) : r.target = k

\* An object request of a deploy or an update that reserves, delivered or still
\* on its way, in time or late, finds the record reserved by that very attempt:
\* no crash, lost response or late delivery lets it act on a released pair.
WriteUnderReservation ==
  \A a \in Attempts, k \in Kinds :
    Shared(a) /\ Writes(a, k) => record # None /\ record.state.op = a

\* While an attempt's effect on an object is unknown, its record stays reserved:
\* no restart, update or late answer resolves it; only a teardown removes it.
UnknownBlocks ==
  \A a \in Attempts :
    /\ Shared(a) /\ \E k \in Kinds : outcome[a][k] = "unknown"
    /\ record # None /\ record.uid = seen[a].uid
    => record.state.op = a

\* A record that is not reserved describes the live pair exactly, unless somebody
\* other than kmx touched it.
FreeRecordDescribesPair ==
  foreign = 0 /\ record # None /\ record.state.op = None =>
    \A k \in Kinds : live[k] # None /\ releaseObjectFingerprint(live[k]) = record.state.baseline[k]

\* A committed private acknowledgment speaks of a revision that the shared record
\* really took over, with exactly those objects, for as long as it is retained.
AcknowledgedIsRecorded ==
  \A a \in Attempts :
    committed[a] /\ record # None /\ record.uid = candidate[a].uid =>
      LET h == record.state.history
      IN  \/ \E i \in DOMAIN h : h[i].lift = a /\ h[i].objects = candidate[a].objects
          \/ candidate[a].state = "ready" /\ Cardinality(Completed(h)) = MaxCompleted

\* What a finished attempt reports of the objects is what it did: an object it says it
\* did not attempt never carries its lift record, not even later; a "not-applied"
\* result never follows an object request.
EffectReportIsTrue ==
  \A a \in Attempts, k \in Kinds :
    outcome[a][k] = "not-attempted" \/ result[a] = "not-applied" =>
      ~Writes(a, k) /\ (live[k] # None => live[k].lift # a)

\* What a finished attempt says of the record is so, and stays so whatever arrives
\* late: a "pending" record is reserved until somebody tears it down, and a record
\* that is reserved by nobody or released is never reserved by this attempt again.
RecordReportIsTrue ==
  \A a \in Attempts :
    pc[a] = "done" /\ record # None =>
      /\ observed[a] = "pending" /\ record.uid = seen[a].uid => record.state.op = a
      /\ observed[a] \notin {"pending", "unknown"} => record.state.op # a

\* No report is contradicted by the cluster, at once or by a request that arrives late.
ReportIsHonest == EffectReportIsTrue /\ RecordReportIsTrue

\* The record an attempt writes is always one that the next reader accepts.
RecordStaysReadable ==
  record # None =>
    /\ validReleaseState(record.state)
    /\ Cardinality(Completed(record.state.history)) <= MaxCompleted

\* The four observation slots suffice on every path: none is ever missing, and
\* the fifth stays free for the acknowledgment.
SlotsSuffice ==
  \A a \in Attempts :
    /\ pc[a] \in {"recording", "persisting"} => slots[a] < 4
    /\ pc[a] = "acking" => slots[a] <= 4

\* Capacity is reserved before the first object write: an attempt is never refused
\* locally when it credits an acknowledged object or gives its record back.
ReleaseFits ==
  \A a \in Attempts :
    LET k == KindAt(row[a])
    IN  /\ pc[a] = "persisting" /\ MayRelease(a) => MayWrite(seen[a].state, Released(a), a)
        /\ pc[a] = "recording" /\ Shared(a) /\ outcome[a][k] # "unknown" =>
             MayWrite(seen[a].state, Credit(seen[a].state, k, proof[a][k]), a)

\* An attempt that reports success with a shared record has a committed private
\* acknowledgment of exactly that, so that the next update can start from it.
SuccessIsAcknowledged ==
  foreign = 0 =>
    \A a \in Attempts :
      pc[a] = "done" /\ result[a] = "ready" /\ Shared(a) =>
        committed[a] /\ candidate[a].state = "ready" /\ candidate[a].objects = proof[a]

\* An update only takes a record over whose origin and last revision are both
\* acknowledged: a lost acknowledgment blocks, however healthy everything looks.
UpdatesFollowAcknowledgment ==
  [][\A a \in Updaters :
       /\ foreign = 0 /\ record # None /\ record'  # None
       /\ record.state.op = None /\ record'.state.op = a
       => /\ committed[record.state.origin]
          /\ committed[Latest(record.state).lift]
          /\ record.state = before[a].state]_vars

\* Nobody takes a reservation over: it ends only by the write its holder sent to
\* give it back, or with the record.
NoTakeover ==
  [][\A a \in Attempts :
       (record # None /\ record.state.op = a /\ record' # None /\ record'.state.op # a)
         => /\ record'.uid = record.uid /\ record'.state.op = None
            /\ \E r \in InFlight(a) : record' = r.to]_vars

\* Giving a reservation back either restores the exact data the update found or
\* adds exactly one revision of its own, and no partial revision ever disappears.
PartialsOf(s) == {s.history[i] : i \in {j \in DOMAIN s.history : s.history[j].state = "partial"}}

ReleaseIsRestoreOrRevision ==
  [][\A a \in Attempts :
       (record # None /\ record.state.op = a /\ record' # None /\ record'.state.op = None)
         => /\ PartialsOf(record.state) \subseteq PartialsOf(record'.state)
            /\ \/ before[a] # None /\ record'.state = before[a].state
               \/ /\ Latest(record'.state).lift = a
                  /\ Latest(record'.state).before = record.state.baseline
                  /\ record'.state.baseline = Latest(record'.state).objects]_vars

\* Every reservation is given back, or its holder died, or its report says that
\* the record is still pending or unknown: none is left behind silently.
ReservationIsAccountedFor ==
  \A a \in Attempts :
    (record # None /\ record.state.op = a)
      ~> \/ record = None \/ record.state.op # a
         \/ pc[a] = "crashed"
         \/ pc[a] = "done" /\ observed[a] \in {"pending", "unknown"}

\* The protocol implements the abstract reservation.
Reservation_ == INSTANCE ReleaseReservation WITH
  Unclaimed <- Foreign, Free <- None, Absent <- None, Outsiders <- {Foreign, Evaluated},
  holder <- IF record = None THEN Foreign ELSE record.state.op,
  completers <- {a \in Attempts : mode[a] = "mixed"},
  author <- [k \in Kinds |-> IF live[k] = None THEN None ELSE live[k].lift]

ImplementsReservation == Reservation_!Spec
==============================================================================
