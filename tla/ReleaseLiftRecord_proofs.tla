---------------------- MODULE ReleaseLiftRecord_proofs -----------------------
(***************************************************************************)
(* What the shared release record says in ReleaseLift, for any number of     *)
(* attempts and hosts: every attempt that acts on it works on a copy it has     *)
(* read, so the record stays readable, remembers what was acknowledged and    *)
(* describes the pair whenever nobody holds it.                              *)
(***************************************************************************)
EXTENDS ReleaseLiftOutcome_proofs

-----------------------------------------------------------------------------
(* The data of the record *)

Sound(s) == validReleaseState(s) /\ Cardinality(Completed(s.history)) <= MaxCompleted

Unknown(a) == \E k \in Kinds : outcome[a][k] = "unknown"

\* A reservation of attempt a: what it found, with its own pending revision.
ReservationOf(a, found, s) ==
  /\ s.op = a /\ s.pending # None /\ s.pending.before = s.baseline
  /\ IF found = None
       THEN s.origin = a /\ s.baseline = None /\ s.history = << >>
       ELSE /\ s.origin = found.state.origin
            /\ s.baseline = found.state.baseline
            /\ s.history = found.state.history

\* What attempt a makes of its reservation when it gives the record back.
GivesBack(a, from, to) ==
  /\ ReservationOf(a, before[a], from)
  /\ proof[a] \in Pairs /\ to.baseline = proof[a]
  /\ \/ mode[a] = "update" /\ ~Changed(a) /\ to = before[a].state
     \/ \E verdict \in {"completed", "partial"} :
          /\ to = Terminal(from, proof[a], verdict)
          /\ verdict = "completed" /\ pc[a] = "releasing" => result[a] = "ready"

\* An attempt's copies of the record are sound, and so is everything it sends.
Copies(a) ==
  /\ seen[a] # None =>
       /\ Sound(seen[a].state)
       /\ seen[a].state.op \in {None, a}
       /\ seen[a].state.op = a => Shared(a) /\ ReservationOf(a, before[a], seen[a].state)
  /\ before[a] # None => Sound(before[a].state)
  /\ mode[a] \notin {"update", "noop"} => before[a] = None
  /\ Reserved(a) => ReservationOf(a, before[a], record.state)
  /\ \A r \in InFlight(a) : r.target = "record" =>
       /\ r.from = seen[a]
       /\ Sound(r.to.state)
       /\ r.to.state.op = a => ReservationOf(a, before[a], r.to.state)
       /\ r.to.state.op = None => GivesBack(a, r.from.state, r.to.state)

\* An attempt that does not know what became of an object keeps its reservation.
Blocked(a) ==
  /\ \A r \in InFlight(a) : r.target \in Kinds => outcome[a][r.target] = "unknown"
  /\ pc[a] \in Early => ~Unknown(a)
  /\ Shared(a) /\ pc[a] \in {"writing", "recording"} =>
       \A k \in Kinds : outcome[a][k] = "unknown" => k = KindAt(row[a])
  /\ Shared(a) /\ Unknown(a) =>
       /\ seen[a] # None /\ seen[a].state.op = a
       /\ pc[a] \in {"writing", "recording", "persisting"} \cup Stopped
       /\ pc[a] = "persisting" => ~MayRelease(a)
       /\ \A r \in InFlight(a) : r.target # "record"
       /\ record # None /\ record.uid = seen[a].uid => Reserved(a)

\* A first deploy that has not created its record yet: nobody has seen that record.
NotBorn(a) ==
  \/ mode[a] # "fresh" \/ pc[a] \in Early
  \/ \E r \in InFlight(a) : r.target = "record" /\ r.from = None

Unborn(a) ==
  /\ \A r \in InFlight(a) : r.target = "record" /\ r.from = None =>
       InFlight(a) = {r} /\ r.to.uid = a
  /\ NotBorn(a) =>
       /\ record # None => record.uid # a
       /\ \A b \in Attempts : seen[b] # None => seen[b].uid # a

\* The pending objects of a first deploy are what it has acknowledged, row by row.
CreditedTo(s, objects, n) ==
  \A i \in {1, 2} : i <= n => s.pending.objects[KindAt(i)] = objects[KindAt(i)]

AbsentFrom(objects, n) == \A i \in {1, 2} : i >= n => objects[KindAt(i)] = None

Credited(a) ==
  /\ mode[a] = "update" =>
       \A k \in Kinds : outcome[a][k] = "not-attempted" => proof[a][k] = before[a].state.baseline[k]
  /\ mode[a] = "fresh" =>
       /\ seen[a] = None \/ pc[a] \in Early \cup {"reserving"} => AbsentFrom(proof[a], 1)
       /\ pc[a] \in {"checking", "writing"} =>
            CreditedTo(seen[a].state, proof[a], row[a] - 1) /\ AbsentFrom(proof[a], row[a])
       /\ pc[a] \in {"recording", "crediting"} =>
            CreditedTo(seen[a].state, proof[a], row[a] - 1) /\ AbsentFrom(proof[a], row[a] + 1)
       /\ pc[a] = "waiting" =>
            CreditedTo(seen[a].state, proof[a], row[a]) /\ AbsentFrom(proof[a], row[a] + 1)
       /\ pc[a] = "finishing" \/ (pc[a] = "persisting" /\ result[a] = "ready") =>
            CreditedTo(seen[a].state, proof[a], 2)
       /\ pc[a] = "crediting" =>
            sent[a].to.state.pending.objects
              = [seen[a].state.pending.objects EXCEPT ![KindAt(row[a])] = proof[a][KindAt(row[a])]]

\* An attempt touches nothing before it has reserved the record.
Untried(a) ==
  /\ pc[a] \in Early => ~Changed(a)
  /\ \A r \in InFlight(a) :
       r.target = "record" /\ r.from # None /\ r.from.state.op = None => ~Changed(a)

\* While it holds the record, an attempt knows the objects whose outcome it knows.
Known(a) ==
  foreign = 0 /\ Reserved(a) =>
    \A k \in Kinds : outcome[a][k] # "unknown" /\ proof[a][k] # None =>
      live[k] # None /\ releaseObjectFingerprint(live[k]) = proof[a][k]

\* The verdict that attempt a acknowledges, and the record that took it over.
Acked(a) == pc[a] \in {"acking", "linking"} \/ committed[a]

Verdict(a) == IF pc[a] = "acking" THEN result[a] ELSE candidate[a].state

TakenOver(a, h) ==
  \/ \E i \in DOMAIN h : /\ h[i].lift = a /\ h[i].objects = proof[a]
                         /\ h[i].state = "completed" => Verdict(a) = "ready"
  \/ Verdict(a) = "ready" /\ Cardinality(Completed(h)) = MaxCompleted

Taken(a) ==
  /\ pc[a] = "releasing" => sent[a].to.state.op = None
  /\ Acked(a) =>
       /\ InFlight(a) = {} /\ seen[a] # None
       /\ record # None /\ record.uid = seen[a].uid => TakenOver(a, record.state.history)

-----------------------------------------------------------------------------
(* What an attempt asks of the record *)

\* The record as an attempt would have it next, and where it asks for that.
Asks(a, state) ==
  \/ /\ pc[a] = "prepared" /\ mode[a] = "fresh" /\ seen[a] = None
     /\ state = releaseCreateIntent(a)
  \/ /\ pc[a] = "prepared" /\ mode[a] = "update" /\ seen[a] = before[a] /\ seen[a] # None
     /\ state = Reservation(seen[a].state, a) /\ MayWrite(seen[a].state, state, a)
  \/ /\ pc[a] = "recording" /\ Shared(a) /\ Owns(a) /\ proof[a][KindAt(row[a])] # None
     /\ outcome[a][KindAt(row[a])] # "unknown"
     /\ state = Credit(seen[a].state, KindAt(row[a]), proof[a][KindAt(row[a])])
     /\ MayWrite(seen[a].state, state, a)
  \/ /\ pc[a] = "persisting" /\ Shared(a) /\ Owns(a) /\ MayRelease(a) /\ proof[a] \in Pairs
     /\ state = Released(a) /\ MayWrite(seen[a].state, state, a)

\* Everything that an attempt asks for is a record.
LEMMA AsksType ==
  ASSUME IInv, NEW a \in Attempts, NEW state, Asks(a, state)
  PROVE  state \in ReleaseStates
<1>1. TypeOK /\ seen[a] \in Snapshots \cup {None} /\ before[a] \in Snapshots \cup {None}
  BY DEF IInv, TypeOK
<1>2. seen[a] # None => seen[a].state \in ReleaseStates
  BY <1>1 DEF Snapshots
<1>3. CASE state = releaseCreateIntent(a)
  BY <1>3, IntentType
<1>4. CASE seen[a] # None /\ state = Reservation(seen[a].state, a)
  BY <1>2, <1>4, ReservationType
<1>5. CASE /\ Owns(a) /\ proof[a][KindAt(row[a])] # None
           /\ state = Credit(seen[a].state, KindAt(row[a]), proof[a][KindAt(row[a])])
  <2>1. KindAt(row[a]) \in Kinds /\ proof[a][KindAt(row[a])] \in Fingerprints
    BY <1>1, <1>5 DEF KindAt, Kinds, TypeOK
  <2>. QED
    BY <1>2, <1>5, <2>1, CreditType DEF Owns
<1>6. CASE Owns(a) /\ MayRelease(a) /\ proof[a] \in Pairs /\ state = Released(a)
  <2>1. seen[a].state \in ReleaseStates /\ seen[a].state.pending # None
    BY <1>2, <1>6 DEF Owns
  <2>2. seen[a].state.pending.objects \in Pairs
    BY <2>1 DEF ReleaseStates, Revisions
  <2>3. mode[a] = "update" => before[a].state \in ReleaseStates
    BY <1>1 DEF IInv, AttemptInv, Planned, Snapshots
  <2>4. \A v \in {"completed", "partial"} :
          /\ Terminal(seen[a].state, proof[a], v) \in ReleaseStates
          /\ Terminal(seen[a].state, seen[a].state.pending.objects, v) \in ReleaseStates
    BY <1>6, <2>1, <2>2, TerminalType
  <2>. QED
    BY <1>6, <2>3, <2>4 DEF Released
<1>. QED
  BY <1>3, <1>4, <1>5, <1>6 DEF Asks

\* A new request for the record tests the attempt's own copy.
LEMMA Asked ==
  ASSUME IInv, NEW a \in Attempts, StepOf(a), NEW r \in InFlight(a)', r \notin InFlight(a),
         r.target = "record"
  PROVE  /\ UNCHANGED <<mode, row, before, seen, proof, outcome, record, late, candidate, committed>>
         /\ sent'[a] = r /\ r.from = seen[a]
         /\ r.to.state \in ReleaseStates /\ Asks(a, r.to.state)
         /\ r.to.uid = IF seen[a] = None THEN a ELSE seen[a].uid
         /\ pc[a] = "prepared" => pc'[a] = "reserving"
         /\ pc[a] = "recording" => pc'[a] = "crediting" /\ result' = result
         /\ pc[a] = "persisting" => pc'[a] = "releasing" /\ result' = result
<1>1. TypeOK /\ AttemptInv(a) /\ a # None
  BY NoneAssumption DEF IInv
<1>2. sent'[a] # sent[a] \/ late'[a] # late[a]
  BY DEF InFlight
<1>a. ASSUME NEW state, Asks(a, state), r = RecordWrite(a, state)
      PROVE  /\ r.from = seen[a] /\ r.to.state = state /\ r.to.state \in ReleaseStates
             /\ r.to.uid = IF seen[a] = None THEN a ELSE seen[a].uid
  <2>1. state \in ReleaseStates
    BY <1>a, AsksType
  <2>2. r.from = seen[a] /\ r.to.state = state /\ (seen[a] # None => r.to.uid = seen[a].uid)
    BY <1>1, <1>a, <2>1, RecordWriteType
  <2>3. seen[a] = None => r.to.uid = a
    BY <1>a DEF RecordWrite, Create
  <2>. QED
    BY <2>1, <2>2, <2>3
<1>3. CASE Reserve(a)
  <2>1. /\ UNCHANGED <<mode, row, before, seen, proof, outcome, record, late, candidate, committed>>
        /\ pc[a] = "prepared"
        /\ \/ sent' = sent
           \/ /\ pc'[a] = "reserving" /\ mode[a] # "mixed"
              /\ sent'[a] = RecordWrite(a, IF mode[a] = "fresh" THEN releaseCreateIntent(a)
                                                                 ELSE Reservation(seen[a].state, a))
              /\ mode[a] = "update" =>
                   MayWrite(seen[a].state, Reservation(seen[a].state, a), a)
    BY <1>1, <1>3 DEF Reserve, Send, Goto, TypeOK, cluster, disk
  <2>2. sent'[a] = r /\ sent'[a] # sent[a]
    BY <1>2, <2>1 DEF InFlight
  <2>3. mode[a] \in {"fresh", "update"}
    BY <1>1, <2>1, <2>2 DEF AttemptInv, Planned
  <2>4. CASE mode[a] = "fresh"
    <3>1. Asks(a, releaseCreateIntent(a))
      BY <1>1, <2>1, <2>4 DEF Asks, AttemptInv, Planned, Early
    <3>. QED
      BY <1>a, <2>1, <2>2, <2>4, <3>1
  <2>5. CASE mode[a] = "update"
    <3>1. Asks(a, Reservation(seen[a].state, a))
      BY <1>1, <2>1, <2>2, <2>5 DEF Asks, AttemptInv, Planned, Early
    <3>. QED
      BY <1>a, <2>1, <2>2, <2>5, <3>1
  <2>. QED
    BY <2>3, <2>4, <2>5
<1>4. CASE Checkpoint(a)
  <2>. DEFINE k == KindAt(row[a])
              next == Credit(seen[a].state, k, proof[a][k])
  <2>1. /\ UNCHANGED <<mode, row, before, seen, proof, outcome, record, late, candidate, committed>>
        /\ pc[a] = "recording" /\ result' = result
        /\ \/ sent' = sent
           \/ /\ pc'[a] = "crediting" /\ Shared(a) /\ outcome[a][k] # "unknown"
              /\ sent'[a] = RecordWrite(a, next) /\ MayWrite(seen[a].state, next, a)
    BY <1>1, <1>4 DEF Checkpoint, Send, Goto, TypeOK, cluster, memory
  <2>2. sent'[a] = r /\ sent'[a] # sent[a]
    BY <1>2, <2>1 DEF InFlight
  <2>3. Owns(a) /\ proof[a][k] # None
    BY <1>1, <2>1, <2>2 DEF AttemptInv, Rows, Finalizing, Working
  <2>4. Asks(a, next)
    BY <2>1, <2>2, <2>3 DEF Asks
  <2>. QED
    BY <1>a, <2>1, <2>2, <2>4
<1>5. CASE Persist(a)
  <2>1. /\ UNCHANGED <<mode, row, before, seen, proof, outcome, record, late, candidate, committed>>
        /\ pc[a] = "persisting"
        /\ \/ sent' = sent
           \/ /\ pc'[a] = "releasing" /\ result' = result /\ MayRelease(a)
              /\ sent'[a] = RecordWrite(a, Released(a)) /\ MayWrite(seen[a].state, Released(a), a)
    BY <1>1, <1>5 DEF Persist, Send, Goto, TypeOK, cluster
  <2>2. sent'[a] = r /\ sent'[a] # sent[a]
    BY <1>2, <2>1 DEF InFlight
  <2>3. Owns(a) /\ Shared(a)
    BY <1>1, <2>1, <2>2 DEF AttemptInv, Finalizing, MayRelease, Shared
  <2>4. proof[a] \in Pairs
    BY <1>1, <2>1, <2>2 DEF AttemptInv, Planned, Rows, MayRelease
  <2>5. Asks(a, Released(a))
    BY <2>1, <2>2, <2>3, <2>4 DEF Asks
  <2>. QED
    BY <1>a, <2>1, <2>2, <2>5
<1>6. CASE CheckRow(a)
  <2>1. late' = late /\ (sent' = sent \/ sent'[a] = ObjectWrite(a, KindAt(row[a])))
    BY <1>1, <1>6 DEF CheckRow, Send, TypeOK, cluster
  <2>2. r = ObjectWrite(a, KindAt(row[a])) /\ KindAt(row[a]) \in Kinds
    BY <2>1 DEF InFlight, KindAt, Kinds
  <2>3. r.target \in Kinds
    BY <1>1, <2>2, ObjectWriteType
  <2>. QED
    BY <2>3 DEF Kinds
<1>7. CASE Answer(a) \/ GiveUp(a) \/ Crash(a) \/ DeliverLate(a)
  <2>1. InFlight(a)' \subseteq InFlight(a)
    BY <1>1, <1>7 DEF Answer, GiveUp, Crash, DeliverLate, Abandon, TypeOK, InFlight, memory
  <2>. QED
    BY <2>1
<1>8. CASE Start(a) \/ LoseMarker(a)
  BY <1>1, <1>2, <1>8 DEF Start, PlanLift, PlanUpdate, Confirm, VerifyNoop, Prepare, Refuse,
     LoseMarker, cluster
<1>9. CASE \/ RefusePrepared(a) \/ CheckpointFails(a) \/ BecomeReady(a) \/ LoopFails(a) \/ Finish(a)
           \/ Settle(a) \/ SettleFails(a) \/ PersistFails(a) \/ PublishCandidate(a) \/ Commit(a)
           \/ AcknowledgeFails(a)
  BY <1>1, <1>2, <1>9 DEF RefusePrepared, CheckpointFails, BecomeReady, LoopFails, Finish, Settle,
     SettleFails, PersistFails, PublishCandidate, Commit, AcknowledgeFails, cluster
<1>. QED
  BY <1>3, <1>4, <1>5, <1>6, <1>7, <1>8, <1>9 DEF StepOf, Progress

\* An attempt's copy of the record changes when it plans and when it is answered.
LEMMA CopyChanges ==
  ASSUME IInv, NEW a \in Attempts, StepOf(a)
  PROVE  \/ seen'[a] = seen[a]
         \/ /\ PlanUpdate(a) /\ InFlight(a) = {} /\ InFlight(a)' = {} /\ record' = record
            /\ seen'[a] = record /\ before'[a] = record /\ record # None /\ seen[a] = None
         \/ /\ sent[a] \in InFlight(a) /\ Served(sent[a]) /\ sent[a].target = "record"
            /\ seen'[a] = sent[a].to /\ InFlight(a)' = {} /\ Answer(a)
<1>1. TypeOK /\ AttemptInv(a)
  BY DEF IInv
<1>2. CASE PlanUpdate(a)
  <2>1. /\ pc[a] = "idle" /\ record # None /\ seen'[a] = record /\ before'[a] = record
        /\ record' = record /\ sent' = sent /\ late' = late
    BY <1>1, <1>2 DEF PlanUpdate, TypeOK, cluster
  <2>2. sent[a] = None /\ late[a] = {} /\ seen[a] = None
    BY <1>1, <2>1 DEF AttemptInv, Sending, Waiting, Stopped, Planned
  <2>. QED
    BY <1>2, <2>1, <2>2 DEF InFlight
<1>3. CASE Answer(a)
  <2>1. pc[a] \in Waiting /\ sent[a] # None /\ late[a] = {} /\ late' = late /\ sent'[a] = None
    BY <1>1, <1>3 DEF Answer, AttemptInv, Sending, Waiting, Stopped, TypeOK
  <2>2. InFlight(a)' = {} /\ sent[a] \in InFlight(a)
    BY <2>1 DEF InFlight
  <2>3. CASE ~Accepts(sent[a])
    BY <1>3, <2>3 DEF Answer
  <2>4. CASE Accepts(sent[a])
    <3>1. Served(sent[a]) /\ OnAccept(a)
      BY <1>3, <2>4 DEF Answer, Served
    <3>2. CASE pc[a] = "writing"
      BY <3>1, <3>2 DEF OnAccept
    <3>3. CASE pc[a] \in {"reserving", "crediting", "releasing"}
      <4>1. seen'[a] = sent[a].to
        BY <1>1, <3>1, <3>3 DEF OnAccept, TypeOK
      <4>2. sent[a].target = "record"
        BY <1>1, <3>3 DEF AttemptInv, Sending
      <4>. QED
        BY <1>3, <2>2, <3>1, <4>1, <4>2
    <3>. QED
      BY <2>1, <3>2, <3>3 DEF Waiting
  <2>. QED
    BY <2>3, <2>4
<1>4. CASE Start(a) /\ ~PlanUpdate(a)
  BY <1>4 DEF Start, PlanLift, Confirm, VerifyNoop, Prepare, Refuse, memory
<1>5. CASE DeliverLate(a) \/ Crash(a) \/ LoseMarker(a)
  BY <1>5 DEF DeliverLate, Crash, Abandon, LoseMarker, memory
<1>6. CASE Progress(a) /\ ~Answer(a)
  BY <1>6 DEF Progress, Reserve, RefusePrepared, CheckRow, Checkpoint, CheckpointFails,
              BecomeReady, LoopFails, Finish, Settle, SettleFails, Persist, PersistFails,
              PublishCandidate, Commit, AcknowledgeFails, GiveUp, Abandon, memory
<1>. QED
  BY <1>2, <1>3, <1>4, <1>5, <1>6 DEF StepOf

\* An attempt that has asked to give the record back, or has stopped, is done with
\* the objects.
LEMMA Frozen ==
  ASSUME IInv, NEW a \in Attempts, StepOf(a), pc[a] \in {"releasing", "acking", "linking"} \cup Stopped
  PROVE  /\ UNCHANGED <<mode, before, proof, outcome>>
         /\ pc'[a] \in {"releasing", "acking", "linking"} \cup Stopped
         /\ pc'[a] = "releasing" => pc[a] = "releasing" /\ result' = result
<1>1. TypeOK /\ AttemptInv(a)
  BY DEF IInv
<1>2. CASE Start(a)
  BY <1>1, <1>2 DEF Start, PlanLift, PlanUpdate, Confirm, VerifyNoop, Prepare, Refuse, Stopped
<1>3. CASE Crash(a) \/ LoseMarker(a) \/ DeliverLate(a)
  BY <1>1, <1>3 DEF Crash, Abandon, LoseMarker, DeliverLate, memory, Goto, TypeOK, Stopped
<1>4. CASE PublishCandidate(a) \/ Commit(a) \/ AcknowledgeFails(a)
  BY <1>1, <1>4 DEF PublishCandidate, Commit, AcknowledgeFails, memory, Goto, TypeOK, Stopped
<1>5. CASE Answer(a) \/ GiveUp(a)
  <2>1. pc[a] = "releasing"
    BY <1>5 DEF Answer, GiveUp, Waiting, Stopped
  <2>. QED
    BY <1>1, <1>5, <2>1 DEF Answer, GiveUp, OnAccept, OnError, Abandon, memory, Goto, TypeOK, Stopped
<1>6. CASE \/ Reserve(a) \/ RefusePrepared(a) \/ CheckRow(a) \/ Checkpoint(a) \/ CheckpointFails(a)
           \/ BecomeReady(a) \/ LoopFails(a) \/ Finish(a) \/ Settle(a) \/ SettleFails(a)
           \/ Persist(a) \/ PersistFails(a)
  BY <1>6 DEF Reserve, RefusePrepared, CheckRow, Checkpoint, CheckpointFails, BecomeReady, LoopFails,
     Finish, Settle, SettleFails, Persist, PersistFails, Stopped
<1>. QED
  BY <1>2, <1>3, <1>4, <1>5, <1>6 DEF StepOf, Progress

-----------------------------------------------------------------------------
(* Copies of the record *)

\* A sound record that nobody holds has a baseline, and one that is held names its
\* holder as the pending revision's author.
LEMMA SoundSays ==
  ASSUME NEW s \in ReleaseStates, Sound(s)
  PROVE  /\ s.op = None => s.pending = None /\ s.baseline \in Pairs
         /\ s.op # None => s.pending # None /\ s.pending.lift = s.op
         /\ s.history \in Seq(Revisions) /\ Cardinality(Completed(s.history)) <= MaxCompleted
<1>1. /\ s.pending \in Revisions \cup {None} /\ s.baseline \in Pairs \cup {None}
      /\ s.history \in Seq(Revisions)
  BY DEF ReleaseStates
<1>2. s.pending # None => s.op = s.pending.lift /\ s.pending.lift # None
  BY <1>1, NoneAssumption DEF Sound, validReleaseState, Revisions
<1>3. s.pending = None => s.op = None /\ s.baseline # None
  BY DEF Sound, validReleaseState
<1>. QED
  BY <1>1, <1>2, <1>3 DEF Sound

\* A first deploy's intent is a valid record.
LEMMA IntentSound ==
  ASSUME NEW a \in Attempts
  PROVE  Sound(releaseCreateIntent(a))
<1>1. releaseCreateIntent(a).pending # None
  BY IntentType
<1>. DEFINE s == releaseCreateIntent(a)
<1>2. /\ s.history = << >> /\ s.op = a /\ s.origin = a /\ s.baseline = None
      /\ s.pending.lift = a /\ s.pending.state = "pending"
  BY DEF releaseCreateIntent, Pending
<1>. HIDE DEF s
<1>3. DOMAIN s.history = {}
  BY <1>2
<1>4. Completed(s.history) = {} /\ LiftsOf(s) = {}
  BY <1>3 DEF Completed, LiftsOf
<1>5. Cardinality(Completed(s.history)) <= MaxCompleted
  BY <1>4, FS_EmptySet, BoundsAssumption
<1>6. validReleaseState(s)
  BY <1>1, <1>2, <1>3, <1>4 DEF validReleaseState, s
<1>. QED
  BY <1>5, <1>6 DEF Sound, s

\* What an attempt asks for is sound, and it is its own reservation or a release.
LEMMA AsksSound ==
  ASSUME IInv, NEW a \in Attempts, Copies(a), Credited(a), NEW state, Asks(a, state)
  PROVE  /\ Sound(state)
         /\ state.op = a => pc[a] # "persisting" /\ ReservationOf(a, before[a], state)
         /\ state.op # a =>
              /\ state.op = None /\ pc[a] = "persisting" /\ ReservationOf(a, before[a], seen[a].state)
              /\ proof[a] \in Pairs /\ state.baseline = proof[a]
              /\ \/ mode[a] = "update" /\ ~Changed(a) /\ state = before[a].state
                 \/ \E verdict \in {"completed", "partial"} :
                      /\ state = Terminal(seen[a].state, proof[a], verdict)
                      /\ verdict = "completed" => result[a] = "ready"
<1>1. /\ seen[a] \in Snapshots \cup {None} /\ before[a] \in Snapshots \cup {None}
      /\ proof[a] \in [Kinds -> Fingerprints \cup {None}]
  BY DEF IInv, TypeOK
<1>2. a # None /\ AttemptInv(a)
  BY NoneAssumption DEF IInv
<1>3. CASE mode[a] = "fresh" /\ state = releaseCreateIntent(a) /\ pc[a] = "prepared"
  <2>1. ReservationOf(a, before[a], state) /\ state.op = a
    BY <1>3, IntentType, ReservationSays, <1>2 DEF Copies, ReservationOf, releaseCreateIntent, Pending
  <2>. QED
    BY <1>3, <2>1, IntentSound
<1>4. CASE /\ mode[a] = "update" /\ seen[a] = before[a] /\ seen[a] # None /\ pc[a] = "prepared"
           /\ state = Reservation(seen[a].state, a) /\ MayWrite(seen[a].state, state, a)
  <2>1. seen[a].state \in ReleaseStates /\ Sound(seen[a].state)
    BY <1>1, <1>4 DEF Copies, Snapshots
  <2>2. /\ state.op = a /\ state.pending # None /\ state.pending.before = state.baseline
        /\ state.origin = seen[a].state.origin /\ state.baseline = seen[a].state.baseline
        /\ state.history = seen[a].state.history
    BY <1>4, <2>1, ReservationType, ReservationSays
  <2>3. ReservationOf(a, before[a], state)
    BY <1>4, <2>2 DEF ReservationOf
  <2>4. Sound(state)
    BY <1>4, <2>1, <2>2 DEF Sound, MayWrite
  <2>. QED
    BY <1>4, <2>2, <2>3, <2>4
<1>5. CASE /\ Owns(a) /\ proof[a][KindAt(row[a])] # None /\ pc[a] = "recording"
           /\ state = Credit(seen[a].state, KindAt(row[a]), proof[a][KindAt(row[a])])
           /\ MayWrite(seen[a].state, state, a)
  <2>1. /\ seen[a].state \in ReleaseStates /\ Sound(seen[a].state) /\ seen[a].state.pending # None
        /\ seen[a].state.op = a /\ ReservationOf(a, before[a], seen[a].state)
    BY <1>1, <1>5 DEF Copies, Snapshots, Owns
  <2>2. KindAt(row[a]) \in Kinds /\ proof[a][KindAt(row[a])] \in Fingerprints
    BY <1>1, <1>5 DEF KindAt, Kinds
  <2>3. /\ state.op = a /\ state.pending # None
        /\ state.pending.before = seen[a].state.pending.before
        /\ state.origin = seen[a].state.origin /\ state.baseline = seen[a].state.baseline
        /\ state.history = seen[a].state.history
    BY <1>5, <2>1, <2>2, CreditType, CreditSays
  <2>4. ReservationOf(a, before[a], state)
    BY <2>1, <2>3 DEF ReservationOf
  <2>5. Sound(state)
    BY <1>5, <2>1, <2>3 DEF Sound, MayWrite
  <2>. QED
    BY <1>5, <2>3, <2>4, <2>5
<1>6. CASE /\ Owns(a) /\ MayRelease(a) /\ proof[a] \in Pairs /\ Shared(a) /\ pc[a] = "persisting"
           /\ state = Released(a) /\ MayWrite(seen[a].state, state, a)
  <2>1. /\ seen[a].state \in ReleaseStates /\ Sound(seen[a].state) /\ seen[a].state.pending # None
        /\ seen[a].state.op = a /\ ReservationOf(a, before[a], seen[a].state)
    BY <1>1, <1>6 DEF Copies, Snapshots, Owns
  <2>2. validReleaseState(state)
    BY <1>6 DEF MayWrite
  <2>3. ASSUME NEW verdict \in {"completed", "partial"},
               state = Terminal(seen[a].state, proof[a], verdict),
               verdict = "completed" => result[a] = "ready"
        PROVE  Sound(state) /\ state.op = None /\ state.baseline = proof[a]
    <3>1. state.op = None /\ state.baseline = proof[a]
      BY <1>6, <2>1, <2>3, TerminalType, TerminalSays
    <3>2. PICK t \in Revisions : state.history = Roll(Append(seen[a].state.history, t))
      BY <1>6, <2>1, <2>3, TerminalSays
    <3>3. Cardinality(Completed(state.history)) <= MaxCompleted
      BY <2>1, <3>2, SoundSays, RollAppended
    <3>. QED
      BY <2>2, <3>1, <3>3 DEF Sound
  <2>4. CASE mode[a] = "update" /\ Changed(a)
    <3>1. state = Terminal(seen[a].state, proof[a], IF result[a] = "ready" THEN "completed" ELSE "partial")
      BY <1>6, <2>4 DEF Released
    <3>. DEFINE v == IF result[a] = "ready" THEN "completed" ELSE "partial"
    <3>2. v \in {"completed", "partial"} /\ (v = "completed" => result[a] = "ready")
      OBVIOUS
    <3>3. state = Terminal(seen[a].state, proof[a], v)
      BY <3>1
    <3>. HIDE DEF v
    <3>. QED
      BY <1>2, <1>6, <2>1, <2>3, <3>2, <3>3
  <2>5. CASE mode[a] = "update" /\ ~Changed(a)
    <3>1. state = before[a].state /\ before[a] # None /\ before[a].state.op = None
      BY <1>2, <1>6, <2>5 DEF Released, AttemptInv, Planned
    <3>2. Sound(state) /\ state \in ReleaseStates
      BY <1>1, <3>1 DEF Copies, Snapshots
    <3>3. state.baseline \in Pairs
      BY <3>1, <3>2, SoundSays
    <3>4. \A k \in Kinds : proof[a][k] = state.baseline[k]
      BY <2>5, <3>1 DEF Credited, Changed
    <3>5. state.baseline = proof[a]
      BY <1>6, <3>3, <3>4 DEF Pairs
    <3>. QED
      BY <1>2, <1>6, <2>1, <2>5, <3>1, <3>2, <3>5
  <2>6. CASE mode[a] = "fresh"
    <3>1. result[a] = "ready" /\ state = Terminal(seen[a].state, seen[a].state.pending.objects, "completed")
      BY <1>6, <2>6 DEF Released, MayRelease
    <3>2. seen[a].state.pending.objects \in Pairs
      BY <2>1 DEF ReleaseStates, Revisions
    <3>3. \A k \in Kinds : seen[a].state.pending.objects[k] = proof[a][k]
      <4>1. CreditedTo(seen[a].state, proof[a], 2)
        BY <1>6, <2>6, <3>1 DEF Credited
      <4>2. KindAt(1) = "Provider" /\ KindAt(2) = "Agent"
        BY DEF KindAt
      <4>. QED
        BY <4>1, <4>2 DEF CreditedTo, Kinds
    <3>4. seen[a].state.pending.objects = proof[a]
      BY <1>6, <3>2, <3>3 DEF Pairs
    <3>. QED
      BY <1>2, <1>6, <2>1, <2>3, <3>1, <3>4
  <2>. QED
    BY <1>6, <2>4, <2>5, <2>6 DEF Shared
<1>. QED
  BY <1>3, <1>4, <1>5, <1>6 DEF Asks

\* The attempt's own steps keep its copies.
LEMMA CopiesStep ==
  ASSUME IInv, IInv', NEW a \in Attempts, StepOf(a), record # None => Sound(record.state),
         Copies(a), Credited(a)
  PROVE  Copies(a)' /\ (record' # None => Sound(record'.state))
<1>1. TypeOK /\ TypeOK' /\ AttemptInv(a) /\ AttemptInv(a)' /\ a # None
  BY NoneAssumption DEF IInv
<1>2. \/ mode'[a] = mode[a] /\ before'[a] = before[a]
      \/ /\ PlanLift(a) \/ PlanUpdate(a)
         /\ seen[a] = None /\ InFlight(a) = {} /\ InFlight(a)' = {} /\ record' = record
         /\ ~Reserved(a) /\ ~Reserved(a)'
  <2>1. CASE PlanLift(a) \/ PlanUpdate(a)
    <3>1. /\ pc[a] = "idle" /\ record' = record /\ sent' = sent /\ late' = late
      BY <2>1 DEF PlanLift, PlanUpdate, cluster
    <3>2. sent[a] = None /\ late[a] = {} /\ seen[a] = None /\ ~Reserved(a)
      BY <1>1, <3>1 DEF AttemptInv, Sending, Waiting, Stopped, Planned, Named, Early
    <3>3. InFlight(a) = {} /\ InFlight(a)' = {} /\ ~Reserved(a)'
      BY <3>1, <3>2 DEF InFlight, Reserved
    <3>. QED
      BY <2>1, <3>1, <3>2, <3>3
  <2>. QED
    BY <2>1, PlannedOnce
<1>3. ASSUME NEW r \in InFlight(a), Served(r), r.target = "record"
      PROVE  /\ Sound(r.to.state) /\ record' = r.to /\ r.to # None /\ r.to.state.op \in {None, a}
             /\ r.to.state.op = a => Shared(a) /\ ReservationOf(a, before[a], r.to.state)
  BY <1>3, Serving DEF Copies
<1>4. record' # None => Sound(record'.state)
  BY <1>3, ByRequest, Serving
<1>5. seen'[a] # None =>
        /\ Sound(seen'[a].state) /\ seen'[a].state.op \in {None, a}
        /\ seen'[a].state.op = a => Shared(a)' /\ ReservationOf(a, before'[a], seen'[a].state)
  <2>1. CASE seen'[a] = seen[a]
    BY <1>2, <2>1 DEF Copies, Shared
  <2>2. CASE PlanUpdate(a) /\ seen'[a] = record /\ record # None
    <3>1. record.state.op = None
      BY <2>2 DEF PlanUpdate, Eligible
    <3>. QED
      BY <1>1, <2>2, <3>1
  <2>3. CASE /\ sent[a] \in InFlight(a) /\ Served(sent[a]) /\ sent[a].target = "record"
             /\ seen'[a] = sent[a].to /\ Answer(a)
    <3>1. mode' = mode /\ before' = before
      BY <2>3 DEF Answer
    <3>. QED
      BY <1>3, <2>3, <3>1 DEF Shared
  <2>. QED
    BY <2>1, <2>2, <2>3, CopyChanges
<1>6. /\ before'[a] # None => Sound(before'[a].state)
      /\ mode'[a] \notin {"update", "noop"} => before'[a] = None
  BY PlannedOnce DEF Copies
<1>7. Reserved(a)' => ReservationOf(a, before'[a], record'.state)
  <2>1. CASE record' = record
    BY <1>2, <2>1 DEF Copies, Reserved
  <2>2. ASSUME NEW r \in InFlight(a), Served(r), Reserved(a)'
        PROVE  ReservationOf(a, before'[a], record'.state)
    <3>1. CASE r.target = "record"
      BY <1>2, <1>3, <2>2, <3>1 DEF Reserved
    <3>2. CASE r.target # "record"
      BY <2>1, <2>2, <3>2, Serving
    <3>. QED
      BY <3>1, <3>2
  <2>. QED
    BY <2>1, <2>2, ByRequest
<1>8. ASSUME NEW r \in InFlight(a)', r.target = "record"
      PROVE  /\ r.from = seen'[a]
             /\ Sound(r.to.state)
             /\ r.to.state.op = a => ReservationOf(a, before'[a], r.to.state)
             /\ r.to.state.op = None => GivesBack(a, r.from.state, r.to.state)'
  <2>0. before'[a] = before[a]
    BY <1>2
  <2>1. CASE r \in InFlight(a)
    <3>1. /\ r.from = seen[a] /\ Sound(r.to.state)
          /\ r.to.state.op = a => ReservationOf(a, before[a], r.to.state)
          /\ r.to.state.op = None => GivesBack(a, r.from.state, r.to.state)
      BY <1>8, <2>1 DEF Copies
    <3>2. seen'[a] = seen[a]
      BY <2>1, CopyChanges
    <3>3. ASSUME r.to.state.op = None PROVE GivesBack(a, r.from.state, r.to.state)'
      <4>1. pc[a] \in {"releasing"} \cup Stopped
        BY <1>1, <1>8, <2>1, <3>3 DEF AttemptInv, Requested
      <4>2. /\ UNCHANGED <<mode, before, proof, outcome>>
            /\ pc'[a] = "releasing" => pc[a] = "releasing" /\ result' = result
        BY <4>1, Frozen
      <4>3. Changed(a)' <=> Changed(a)
        BY <4>2 DEF Changed
      <4>. QED
        BY <3>1, <3>3, <4>2, <4>3 DEF GivesBack
    <3>. QED
      BY <2>0, <3>1, <3>2, <3>3
  <2>2. CASE r \notin InFlight(a)
    <3>1. /\ UNCHANGED <<mode, before, seen, proof, outcome>> /\ r.from = seen[a]
          /\ Asks(a, r.to.state)
          /\ pc[a] = "persisting" => pc'[a] = "releasing" /\ result' = result
      BY <1>8, <2>2, Asked
    <3>2. Changed(a)' <=> Changed(a)
      BY <3>1 DEF Changed
    <3>3. Sound(r.to.state) /\ (r.to.state.op = a => ReservationOf(a, before[a], r.to.state))
      BY <3>1, AsksSound
    <3>4. r.to.state.op = None => GivesBack(a, r.from.state, r.to.state)'
      <4>. SUFFICES ASSUME r.to.state.op = None PROVE GivesBack(a, r.from.state, r.to.state)'
        OBVIOUS
      <4>1. /\ pc[a] = "persisting" /\ ReservationOf(a, before[a], seen[a].state)
            /\ proof[a] \in Pairs /\ r.to.state.baseline = proof[a]
            /\ \/ mode[a] = "update" /\ ~Changed(a) /\ r.to.state = before[a].state
               \/ \E verdict \in {"completed", "partial"} :
                    /\ r.to.state = Terminal(seen[a].state, proof[a], verdict)
                    /\ verdict = "completed" => result[a] = "ready"
        BY <1>1, <3>1, AsksSound
      <4>. QED
        BY <3>1, <3>2, <4>1 DEF GivesBack
    <3>. QED
      BY <2>0, <3>1, <3>3, <3>4
  <2>. QED
    BY <2>1, <2>2
<1>. QED
  BY <1>4, <1>5, <1>6, <1>7, <1>8 DEF Copies

\* Nobody else's step changes an attempt's copies.
LEMMA CopiesElsewhere ==
  ASSUME NEW b \in Attempts, Copies(b), Untouched(b), Reserved(b)' => record' = record
  PROVE  Copies(b)'
<1>1. \A s, t : GivesBack(b, s, t)' <=> GivesBack(b, s, t)
  BY DEF GivesBack, Untouched, Changed
<1>2. InFlight(b)' = InFlight(b) /\ (Shared(b)' <=> Shared(b))
  BY DEF InFlight, Shared, Untouched
<1>. QED
  BY <1>1, <1>2 DEF Copies, Untouched, Reserved

-----------------------------------------------------------------------------
(* What has been credited *)

\* An attempt's proof changes when it plans and when a write is acknowledged.
LEMMA ProofChanges ==
  ASSUME IInv, NEW a \in Attempts, StepOf(a)
  PROVE  \/ proof'[a] = proof[a]
         \/ PlanLift(a)
         \/ PlanUpdate(a) /\ proof'[a] = record.state.baseline
         \/ /\ Answer(a) /\ pc[a] = "writing" /\ pc'[a] = "recording"
            /\ sent[a] \in InFlight(a) /\ Served(sent[a]) /\ sent[a].target = KindAt(row[a])
            /\ InFlight(a)' = {}
            /\ UNCHANGED <<mode, before, row, seen, record, result, known, foreign>>
            /\ proof'[a] = [proof[a] EXCEPT ![KindAt(row[a])] = releaseObjectFingerprint(sent[a].to)]
            /\ \E o \in {"created", "updated"} :
                 outcome'[a] = [outcome[a] EXCEPT ![KindAt(row[a])] = o]
<1>1. TypeOK /\ AttemptInv(a)
  BY DEF IInv
<1>2. CASE PlanUpdate(a)
  BY <1>1, <1>2 DEF PlanUpdate, TypeOK
<1>3. CASE Answer(a)
  <2>1. pc[a] \in Waiting /\ sent[a] # None /\ late[a] = {} /\ late' = late /\ sent'[a] = None
    BY <1>1, <1>3 DEF Answer, AttemptInv, Sending, Waiting, Stopped, TypeOK
  <2>2. InFlight(a)' = {} /\ sent[a] \in InFlight(a)
    BY <2>1 DEF InFlight
  <2>3. CASE ~Accepts(sent[a])
    BY <1>3, <2>3 DEF Answer
  <2>4. CASE Accepts(sent[a])
    <3>1. Served(sent[a]) /\ OnAccept(a) /\ UNCHANGED <<mode, before, row, result, known, foreign>>
      BY <1>3, <2>4 DEF Answer, Served
    <3>2. CASE pc[a] = "writing"
      <4>1. sent[a].target = KindAt(row[a]) /\ KindAt(row[a]) \in Kinds /\ "record" \notin Kinds
        BY <1>1, <3>2 DEF AttemptInv, Sending, KindAt, Kinds
      <4>2. record' = record
        BY <3>1, <4>1 DEF Served, Serve
      <4>. DEFINE k == KindAt(row[a])
                  fp == releaseObjectFingerprint(sent[a].to)
                  o == IF mode[a] = "update" THEN "updated" ELSE "created"
      <4>3. /\ proof' = [proof EXCEPT ![a][k] = fp] /\ outcome' = [outcome EXCEPT ![a][k] = o]
            /\ seen' = seen /\ pc'[a] = "recording"
        BY <1>1, <3>1, <3>2 DEF OnAccept, Goto, TypeOK
      <4>4. o \in {"created", "updated"}
        OBVIOUS
      <4>. HIDE DEF k, fp, o
      <4>5. proof'[a] = [proof[a] EXCEPT ![k] = fp] /\ outcome'[a] = [outcome[a] EXCEPT ![k] = o]
        BY <1>1, <4>3 DEF TypeOK
      <4>. QED
        BY <1>3, <2>2, <3>1, <3>2, <4>1, <4>2, <4>3, <4>4, <4>5 DEF k, fp
    <3>3. CASE pc[a] \in {"reserving", "crediting", "releasing"}
      BY <3>1, <3>3 DEF OnAccept
    <3>. QED
      BY <2>1, <3>2, <3>3 DEF Waiting
  <2>. QED
    BY <2>3, <2>4
<1>4. CASE Start(a) /\ ~PlanUpdate(a)
  BY <1>4 DEF Start, Confirm, VerifyNoop, Prepare, Refuse, memory
<1>5. CASE DeliverLate(a) \/ Crash(a) \/ LoseMarker(a)
  BY <1>5 DEF DeliverLate, Crash, Abandon, LoseMarker, memory
<1>6. CASE Progress(a) /\ ~Answer(a)
  BY <1>6 DEF Progress, Reserve, RefusePrepared, CheckRow, Checkpoint, CheckpointFails,
              BecomeReady, LoopFails, Finish, Settle, SettleFails, Persist, PersistFails,
              PublishCandidate, Commit, AcknowledgeFails, GiveUp, Abandon, memory
<1>. QED
  BY <1>2, <1>3, <1>4, <1>5, <1>6 DEF StepOf

\* Where a first deploy can go from where it is, as long as it is not answered.
LEMMA FreshMoves ==
  ASSUME IInv, NEW a \in Attempts, StepOf(a), mode[a] = "fresh", ~Answer(a), Credited(a)
  PROVE  /\ UNCHANGED <<seen, proof>>
         /\ \/ pc'[a] = pc[a] /\ row'[a] = row[a] /\ sent'[a] = sent[a] /\ result'[a] = result[a]
            \/ pc[a] \in Early /\ pc'[a] \in Early \cup {"reserving"}
            \/ pc[a] = "checking" /\ pc'[a] = "writing" /\ row'[a] = row[a]
            \/ pc[a] = "writing" /\ pc'[a] = "recording" /\ row'[a] = row[a]
            \/ pc[a] = "recording" /\ pc'[a] = "crediting" /\ row'[a] = row[a]
                 /\ sent'[a] = RecordWrite(a, Credit(seen[a].state, KindAt(row[a]), proof[a][KindAt(row[a])]))
            \/ pc[a] = "waiting" /\ pc'[a] = "checking" /\ row'[a] = row[a] + 1
            \/ pc[a] = "waiting" /\ pc'[a] = "finishing" /\ row[a] = 2
            \/ pc[a] = "finishing" /\ pc'[a] = "persisting"
            \/ pc'[a] = "persisting" /\ result'[a] # "ready"
            \/ pc'[a] \in {"releasing", "acking", "linking"} \cup Stopped
<1>1. TypeOK /\ AttemptInv(a) /\ a # None
  BY NoneAssumption DEF IInv
<1>2. pc[a] \notin Ending => result[a] # "ready"
  BY <1>1 DEF AttemptInv, Rows
<1>3. CASE Start(a)
  BY <1>1, <1>3 DEF Start, PlanLift, PlanUpdate, Confirm, VerifyNoop, Prepare, Refuse, Goto, TypeOK,
     AttemptInv, Planned, Early, Stopped, memory
<1>4. CASE Reserve(a) \/ RefusePrepared(a)
  BY <1>1, <1>2, <1>4 DEF Reserve, RefusePrepared, Goto, TypeOK, Early, Stopped, Ending, memory
<1>5. CASE CheckRow(a)
  <2>1. pc[a] = "checking" /\ proof[a][KindAt(row[a])] = None
    BY <1>1, <1>5 DEF CheckRow, Credited, AbsentFrom, TypeOK
  <2>. QED
    BY <1>1, <1>5, <2>1 DEF CheckRow, Goto, TypeOK
<1>6. CASE CheckpointFails(a)
  BY <1>1, <1>2, <1>6 DEF CheckpointFails, Goto, TypeOK, Ending, Stopped, memory
<1>12. CASE Checkpoint(a)
  <2>. DEFINE k == KindAt(row[a])
              w == RecordWrite(a, Credit(seen[a].state, k, proof[a][k]))
  <2>1. UNCHANGED <<seen, proof, row, result>> /\ pc[a] = "recording" /\ result'[a] # "ready"
    BY <1>2, <1>12 DEF Checkpoint, memory, Ending, Stopped
  <2>2. \/ pc'[a] = "crediting" /\ sent'[a] = w
        \/ pc'[a] = "persisting"
        \/ pc'[a] = "waiting" /\ ~Shared(a)
    <3>. HIDE DEF w
    <3>1. \/ Send(a, w) /\ Goto(a, "crediting")
          \/ Goto(a, "persisting")
          \/ Goto(a, "waiting") /\ ~Shared(a)
      BY <1>12 DEF Checkpoint, w
    <3>. QED
      BY <1>1, <3>1 DEF Goto, Send, TypeOK
  <2>. QED
    BY <2>1, <2>2 DEF Shared
<1>7. CASE BecomeReady(a) \/ LoopFails(a) \/ Finish(a)
  BY <1>1, <1>2, <1>7 DEF BecomeReady, LoopFails, Finish, Leave, Goto, TypeOK, Ending, Stopped, memory
<1>8. CASE Settle(a) \/ SettleFails(a)
  BY <1>1, <1>8 DEF Settle, SettleFails, AttemptInv, Finalizing
<1>9. CASE Persist(a) \/ PersistFails(a) \/ PublishCandidate(a) \/ Commit(a) \/ AcknowledgeFails(a)
  BY <1>1, <1>9 DEF Persist, PersistFails, PublishCandidate, Commit, AcknowledgeFails, Goto, TypeOK,
     Stopped, memory
<1>10. CASE GiveUp(a)
  BY <1>1, <1>2, <1>10 DEF GiveUp, OnError, Waiting, Goto, TypeOK, Stopped, Ending
<1>11. CASE DeliverLate(a) \/ Crash(a) \/ LoseMarker(a)
  BY <1>1, <1>11 DEF DeliverLate, Crash, Abandon, LoseMarker, Goto, TypeOK, Stopped, memory
<1>. QED
  BY <1>3, <1>4, <1>5, <1>6, <1>7, <1>8, <1>9, <1>10, <1>11, <1>12 DEF StepOf, Progress

\* An attempt's step keeps what it has proved of the pair in step with its pending objects.
LEMMA CreditedStep ==
  ASSUME IInv, IInv', NEW a \in Attempts, StepOf(a), Copies(a), Credited(a)
  PROVE  Credited(a)'
<1>1. TypeOK /\ AttemptInv(a) /\ AttemptInv(a)' /\ a # None
  BY NoneAssumption DEF IInv
<1>2. /\ outcome[a] \in [Kinds -> {"not-attempted", "unknown", "created", "updated", "reused"}]
      /\ proof[a] \in [Kinds -> Fingerprints \cup {None}]
      /\ KindAt(row[a]) \in Kinds /\ KindAt(1) = "Provider" /\ KindAt(2) = "Agent" /\ row[a] \in 1..3
  BY <1>1 DEF TypeOK, KindAt, Kinds
<1>3. ASSUME mode'[a] = "update", NEW k \in Kinds, outcome'[a][k] = "not-attempted"
      PROVE  proof'[a][k] = before'[a].state.baseline[k]
  <2>1. outcome[a][k] = "not-attempted"
    BY <1>3, Announced
  <2>2. CASE PlanUpdate(a)
    BY <1>1, <1>3, <2>2 DEF PlanUpdate, TypeOK
  <2>3. CASE ~PlanUpdate(a)
    <3>1. ~PlanLift(a) /\ mode[a] = "update" /\ before'[a] = before[a]
      BY <1>1, <1>3, <2>3, PlannedOnce DEF PlanLift, TypeOK
    <3>2. proof[a][k] = before[a].state.baseline[k]
      BY <2>1, <3>1 DEF Credited
    <3>3. CASE proof'[a] = proof[a]
      BY <3>1, <3>2, <3>3
    <3>4. ASSUME NEW o \in {"created", "updated"}, NEW fp,
                 proof'[a] = [proof[a] EXCEPT ![KindAt(row[a])] = fp],
                 outcome'[a] = [outcome[a] EXCEPT ![KindAt(row[a])] = o]
          PROVE  proof'[a][k] = before'[a].state.baseline[k]
      <4>1. k # KindAt(row[a])
        BY <1>2, <1>3, <3>4
      <4>. QED
        BY <1>2, <3>1, <3>2, <3>4, <4>1
    <3>. QED
      BY <2>3, <3>1, <3>3, <3>4, ProofChanges
  <2>. QED
    BY <2>2, <2>3
<1>4. CASE mode'[a] = "fresh"
  <2>1. CASE PlanLift(a)
    <3>1. pc'[a] = "planned" /\ \A k \in Kinds : proof'[a][k] = None
      BY <1>1, <1>4, <2>1 DEF PlanLift, Goto, TypeOK
    <3>2. AbsentFrom(proof'[a], 1)
      BY <1>2, <3>1 DEF AbsentFrom, Kinds
    <3>. QED
      BY <1>4, <3>1, <3>2 DEF Credited
  <2>2. CASE mode[a] = "fresh" /\ ~Answer(a)
    <3>1. UNCHANGED <<seen, proof>>
      BY <2>2, FreshMoves
    <3>2. seen'[a] = seen[a] /\ proof'[a] = proof[a]
      BY <3>1
    <3>3. CASE pc'[a] = pc[a] /\ row'[a] = row[a] /\ sent'[a] = sent[a] /\ result'[a] = result[a]
      BY <1>4, <2>2, <3>1, <3>2, <3>3 DEF Credited
    <3>4. CASE pc[a] \in Early /\ pc'[a] \in Early \cup {"reserving"}
      BY <1>4, <2>2, <3>1, <3>2, <3>4 DEF Credited, Early
    <3>5. CASE \/ pc[a] = "checking" /\ pc'[a] = "writing" /\ row'[a] = row[a]
               \/ pc[a] = "finishing" /\ pc'[a] = "persisting"
               \/ pc'[a] = "persisting" /\ result'[a] # "ready"
               \/ pc'[a] \in {"releasing", "acking", "linking"} \cup Stopped
      BY <1>4, <2>2, <3>1, <3>2, <3>5 DEF Credited, Early, Stopped
    <3>6. CASE pc[a] = "writing" /\ pc'[a] = "recording" /\ row'[a] = row[a]
      <4>1. CreditedTo(seen[a].state, proof[a], row[a] - 1) /\ AbsentFrom(proof[a], row[a]) /\ (seen[a] = None => AbsentFrom(proof[a], 1))
        BY <2>2, <3>6 DEF Credited
      <4>2. AbsentFrom(proof[a], row[a] + 1)
        BY <1>2, <4>1 DEF AbsentFrom
      <4>. QED
        BY <1>4, <3>2, <3>6, <4>1, <4>2 DEF Credited, Early
    <3>7. CASE /\ pc[a] = "recording" /\ pc'[a] = "crediting" /\ row'[a] = row[a]
               /\ sent'[a] = RecordWrite(a, Credit(seen[a].state, KindAt(row[a]), proof[a][KindAt(row[a])]))
      <4>1. CreditedTo(seen[a].state, proof[a], row[a] - 1) /\ AbsentFrom(proof[a], row[a] + 1) /\ (seen[a] = None => AbsentFrom(proof[a], 1))
        BY <2>2, <3>7 DEF Credited
      <4>2. seen[a] \in Snapshots /\ seen[a].state \in ReleaseStates /\ seen[a].state.pending # None
        BY <1>1, <2>2, <3>7 DEF AttemptInv, Finalizing, Shared, Working, Owns, TypeOK, Snapshots
      <4>3. proof[a][KindAt(row[a])] \in Fingerprints
        BY <1>1, <1>2, <3>1, <3>7 DEF AttemptInv, Rows
      <4>. DEFINE next == Credit(seen[a].state, KindAt(row[a]), proof[a][KindAt(row[a])])
      <4>4. /\ next \in ReleaseStates
            /\ next.pending.objects
                 = [seen[a].state.pending.objects EXCEPT ![KindAt(row[a])] = proof[a][KindAt(row[a])]]
        BY <1>2, <4>2, <4>3, CreditType, CreditSays
      <4>. HIDE DEF next
      <4>5. RecordWrite(a, next).to.state = next
        BY <1>1, <4>4, RecordWriteType
      <4>6. sent'[a].to.state.pending.objects
              = [seen'[a].state.pending.objects EXCEPT ![KindAt(row'[a])] = proof'[a][KindAt(row'[a])]]
        BY <3>1, <3>7, <4>4, <4>5 DEF next
      <4>. QED
        BY <1>4, <3>1, <3>7, <4>1, <4>6 DEF Credited, Early
    <3>8. CASE pc[a] = "waiting" /\ pc'[a] = "checking" /\ row'[a] = row[a] + 1
      <4>1. CreditedTo(seen[a].state, proof[a], row[a]) /\ AbsentFrom(proof[a], row[a] + 1) /\ (seen[a] = None => AbsentFrom(proof[a], 1))
        BY <2>2, <3>8 DEF Credited
      <4>2. row'[a] - 1 = row[a]
        BY <1>2, <3>8
      <4>. QED
        BY <1>4, <3>1, <3>8, <4>1, <4>2 DEF Credited, Early
    <3>9. CASE pc[a] = "waiting" /\ pc'[a] = "finishing" /\ row[a] = 2
      BY <1>4, <2>2, <3>1, <3>9 DEF Credited, Early
    <3>. QED
      BY <2>2, <3>3, <3>4, <3>5, <3>6, <3>7, <3>8, <3>9, FreshMoves
  <2>3. CASE mode[a] = "fresh" /\ Answer(a)
    <3>1. /\ pc[a] \in Waiting /\ row' = row /\ mode' = mode
          /\ Accepts(sent[a]) => OnAccept(a)
          /\ ~Accepts(sent[a]) => OnError(a) /\ UNCHANGED <<seen, proof>>
      BY <2>3 DEF Answer
    <3>2. pc[a] \notin Ending => result[a] # "ready"
      BY <1>1, <2>3 DEF AttemptInv, Rows
    <3>3. pc[a] # "releasing" => result' = result
      <4>1. CASE Accepts(sent[a])
        BY <2>3, <4>1 DEF Answer
      <4>2. CASE ~Accepts(sent[a])
        BY <3>1, <4>2 DEF OnError, Waiting
      <4>. QED
        BY <4>1, <4>2
    <3>a. pc[a] \in {"writing", "crediting"} => seen[a] # None
      BY <1>1, <2>3 DEF AttemptInv, Finalizing, Shared, Working, Owns
    <3>4. CASE pc[a] = "reserving"
      <4>1. proof' = proof /\ row[a] = 1 /\ AbsentFrom(proof[a], 1) /\ pc'[a] \in {"checking", "persisting"}
        BY <1>1, <2>3, <3>1, <3>4 DEF OnAccept, OnError, Goto, TypeOK, Credited, AttemptInv, Rows
      <4>2. AbsentFrom(proof'[a], 1) /\ CreditedTo(seen'[a].state, proof'[a], 0) /\ row'[a] = 1
        BY <3>1, <4>1 DEF AbsentFrom, CreditedTo
      <4>. QED
        BY <1>4, <3>2, <3>3, <3>4, <4>1, <4>2 DEF Credited, Early, Ending, Stopped
    <3>5. CASE pc[a] = "writing"
      <4>1. /\ seen' = seen /\ pc'[a] = "recording"
            /\ \/ proof' = proof
               \/ \E fp : proof'[a] = [proof[a] EXCEPT ![KindAt(row[a])] = fp]
        BY <1>1, <2>3, <3>1, <3>5, ProofChanges DEF OnAccept, OnError, Goto, TypeOK, PlanLift, PlanUpdate
      <4>2. CreditedTo(seen[a].state, proof[a], row[a] - 1) /\ AbsentFrom(proof[a], row[a]) /\ seen[a] # None /\ row[a] \in {1, 2}
        BY <1>1, <2>3, <3>a, <3>5 DEF Credited, AttemptInv, Rows
      <4>3. \A i \in {1, 2} : i # row[a] => proof'[a][KindAt(i)] = proof[a][KindAt(i)]
        <5>1. \A i \in {1, 2} : i # row[a] => KindAt(i) \in Kinds /\ KindAt(i) # KindAt(row[a])
          BY <4>2 DEF KindAt, Kinds
        <5>. QED
          BY <1>2, <4>1, <5>1
      <4>4. CreditedTo(seen'[a].state, proof'[a], row'[a] - 1) /\ AbsentFrom(proof'[a], row'[a] + 1)
        BY <1>2, <3>1, <4>1, <4>2, <4>3 DEF CreditedTo, AbsentFrom
      <4>. QED
        BY <1>4, <4>1, <4>2, <4>4 DEF Credited, Early
    <3>6. CASE pc[a] = "crediting" /\ ~Accepts(sent[a])
      BY <1>1, <1>4, <3>1, <3>2, <3>3, <3>a, <3>6 DEF OnError, Goto, TypeOK, Credited, Early, Ending, Stopped
    <3>7. CASE pc[a] = "crediting" /\ Accepts(sent[a])
      <4>1. proof' = proof /\ seen'[a] = sent[a].to /\ pc'[a] = "waiting"
        BY <1>1, <3>1, <3>7 DEF OnAccept, Goto, TypeOK
      <4>2. /\ CreditedTo(seen[a].state, proof[a], row[a] - 1) /\ AbsentFrom(proof[a], row[a] + 1) /\ row[a] \in {1, 2}
            /\ sent[a].to.state.pending.objects
                 = [seen[a].state.pending.objects EXCEPT ![KindAt(row[a])] = proof[a][KindAt(row[a])]]
        BY <1>1, <2>3, <3>7 DEF Credited, AttemptInv, Rows
      <4>3. seen[a].state.pending.objects \in [Kinds -> Fingerprints] /\ sent[a].to # None
        <5>1. seen[a] \in Snapshots /\ seen[a].state.pending # None
          BY <1>1, <2>3, <3>7 DEF AttemptInv, Finalizing, Shared, Working, Owns, TypeOK
        <5>2. seen[a].state.pending \in Revisions
          BY <5>1 DEF Snapshots, ReleaseStates
        <5>3. sent[a] \in InFlight(a) /\ sent[a].target = "record" /\ Accepts(sent[a])
          BY <1>1, <3>7 DEF AttemptInv, Sending, InFlight, Waiting
        <5>4. Served(sent[a])
          BY <2>3, <3>7 DEF Answer, Served
        <5>. QED
          BY <5>2, <5>3, <5>4, Serving DEF Revisions, Pairs
      <4>4. CreditedTo(seen'[a].state, proof'[a], row'[a]) /\ AbsentFrom(proof'[a], row'[a] + 1)
        BY <1>2, <3>1, <4>1, <4>2, <4>3 DEF CreditedTo, AbsentFrom
      <4>. QED
        BY <1>4, <4>1, <4>3, <4>4 DEF Credited, Early
    <3>8. CASE pc[a] = "releasing"
      <4>1. proof' = proof /\ pc'[a] \in {"acking", "done"} /\ (seen'[a] = None => seen[a] = None)
        <5>1. CASE ~Accepts(sent[a])
          BY <1>1, <3>1, <3>8, <5>1 DEF OnError, Goto, TypeOK
        <5>2. CASE Accepts(sent[a])
          <6>1. sent[a] \in InFlight(a) /\ sent[a].target = "record" /\ Served(sent[a])
            BY <1>1, <2>3, <3>8, <5>2 DEF AttemptInv, Sending, InFlight, Waiting, Answer, Served
          <6>2. sent[a].to # None
            BY <6>1, Serving
          <6>. QED
            BY <1>1, <3>1, <3>8, <5>2, <6>2 DEF OnAccept, Goto, TypeOK
        <5>. QED
          BY <5>1, <5>2
      <4>2. seen'[a] = None => AbsentFrom(proof'[a], 1)
        BY <2>3, <4>1 DEF Credited, AbsentFrom
      <4>. QED
        BY <1>4, <4>1, <4>2 DEF Credited, Early
    <3>. QED
      BY <3>1, <3>4, <3>5, <3>6, <3>7, <3>8 DEF Waiting
  <2>. QED
    BY <1>4, <2>1, <2>2, <2>3, PlannedOnce
<1>. QED
  BY <1>3, <1>4 DEF Credited


\* Nobody else's step changes what has been credited.
LEMMA CreditedElsewhere ==
  ASSUME NEW b \in Attempts, Credited(b), Untouched(b)
  PROVE  Credited(b)'
  BY DEF Credited, Untouched

-----------------------------------------------------------------------------
(* What is on its way *)

\* An attempt waits for the answer to one request before it sends the next.
LEMMA OneAtATime ==
  ASSUME IInv, NEW a \in Attempts, StepOf(a), NEW r \in InFlight(a)', r \notin InFlight(a)
  PROVE  /\ InFlight(a) = {} /\ InFlight(a)' = {r}
         /\ r.target = "record" \/ (CheckRow(a) /\ pc[a] = "checking")
<1>1. TypeOK /\ AttemptInv(a)
  BY DEF IInv
<1>2. CASE r.target = "record"
  <2>1. /\ Asks(a, r.to.state) /\ sent'[a] = r /\ late' = late
    BY <1>2, Asked
  <2>2. sent[a] = None /\ late[a] = {}
    BY <1>1, <2>1 DEF Asks, AttemptInv, Sending, Finalizing, Waiting, Stopped
  <2>. QED
    BY <1>2, <2>1, <2>2 DEF InFlight
<1>3. CASE CheckRow(a)
  <2>1. pc[a] = "checking" /\ late' = late
    BY <1>3 DEF CheckRow, cluster
  <2>2. sent[a] = None /\ late[a] = {}
    BY <1>1, <2>1 DEF AttemptInv, Sending, Waiting, Stopped
  <2>. QED
    BY <1>3, <2>1, <2>2 DEF InFlight
<1>4. CASE r.target # "record" /\ ~CheckRow(a)
  <2>1. sent'[a] # sent[a] \/ late'[a] # late[a]
    BY DEF InFlight
  <2>2. CASE Reserve(a) \/ Checkpoint(a) \/ Persist(a)
    <3>1. late' = late /\ (sent' = sent \/ \E state : sent'[a] = RecordWrite(a, state))
      BY <1>1, <2>2 DEF Reserve, Checkpoint, Persist, Send, TypeOK, cluster
    <3>2. \A state : RecordWrite(a, state).target = "record"
      BY DEF RecordWrite, Create
    <3>. QED
      BY <1>4, <3>1, <3>2 DEF InFlight
  <2>3. CASE Answer(a) \/ GiveUp(a) \/ Crash(a) \/ DeliverLate(a)
    <3>1. InFlight(a)' \subseteq InFlight(a)
      BY <1>1, <2>3 DEF Answer, GiveUp, Crash, DeliverLate, Abandon, TypeOK, InFlight, memory
    <3>. QED
      BY <3>1
  <2>4. CASE Start(a) \/ LoseMarker(a)
    BY <1>1, <2>1, <2>4 DEF Start, PlanLift, PlanUpdate, Confirm, VerifyNoop, Prepare, Refuse,
       LoseMarker, cluster
  <2>5. CASE \/ RefusePrepared(a) \/ CheckpointFails(a) \/ BecomeReady(a) \/ LoopFails(a) \/ Finish(a)
             \/ Settle(a) \/ SettleFails(a) \/ PersistFails(a) \/ PublishCandidate(a) \/ Commit(a)
             \/ AcknowledgeFails(a)
    BY <1>1, <2>1, <2>5 DEF RefusePrepared, CheckpointFails, BecomeReady, LoopFails, Finish, Settle,
       SettleFails, PersistFails, PublishCandidate, Commit, AcknowledgeFails, cluster
  <2>. QED
    BY <1>4, <2>2, <2>3, <2>4, <2>5 DEF StepOf, Progress
<1>. QED
  BY <1>2, <1>3, <1>4

\* The record of an attempt's first deploy is created once.
LEMMA CreatedOnce ==
  ASSUME IInv, NEW a \in Attempts, StepOf(a), NEW r \in InFlight(a), InFlight(a) = {r}, Served(r),
         r.target = "record", r.from = None
  PROVE  InFlight(a)' = {}
<1>1. TypeOK /\ AttemptInv(a)
  BY DEF IInv
<1>2. record' # record
  BY Serving
<1>3. CASE Answer(a)
  <2>1. late[a] = {} /\ late' = late /\ sent'[a] = None
    BY <1>1, <1>3 DEF Answer, AttemptInv, Sending, Waiting, Stopped, TypeOK
  <2>. QED
    BY <2>1 DEF InFlight
<1>4. CASE DeliverLate(a)
  <2>1. PICK q \in late[a] : late' = [late EXCEPT ![a] = @ \ {q}] /\ sent' = sent
    BY <1>4 DEF DeliverLate
  <2>2. q = r /\ late[a] = {r} /\ late'[a] = {}
    BY <1>1, <2>1 DEF InFlight, TypeOK
  <2>3. sent[a] = None
    BY <1>1, <2>2 DEF AttemptInv, Sending, Waiting, Stopped
  <2>. QED
    BY <2>1, <2>2, <2>3 DEF InFlight
<1>. QED
  BY <1>2, <1>3, <1>4, QuietStep

\* Once an attempt has left its preparation, it does not come back to it.
LEMMA EarlyOnce ==
  ASSUME IInv, NEW a \in Attempts, StepOf(a), pc'[a] \in Early
  PROVE  pc[a] \in Early
<1>1. TypeOK
  BY DEF IInv
<1>2. CASE Start(a) \/ DeliverLate(a) \/ Crash(a) \/ LoseMarker(a)
  BY <1>1, <1>2 DEF Start, PlanLift, PlanUpdate, Confirm, VerifyNoop, Prepare, Refuse, DeliverLate,
     Crash, LoseMarker, Goto, TypeOK, Early
<1>3. CASE \/ Reserve(a) \/ RefusePrepared(a) \/ CheckRow(a) \/ Checkpoint(a) \/ CheckpointFails(a)
           \/ BecomeReady(a) \/ LoopFails(a) \/ Finish(a) \/ Settle(a) \/ SettleFails(a)
           \/ Persist(a) \/ PersistFails(a) \/ PublishCandidate(a) \/ Commit(a) \/ AcknowledgeFails(a)
  BY <1>1, <1>3 DEF Reserve, RefusePrepared, CheckRow, Checkpoint, CheckpointFails, BecomeReady,
     LoopFails, Finish, Settle, SettleFails, Persist, PersistFails, PublishCandidate, Commit,
     AcknowledgeFails, Leave, Goto, TypeOK, Early
<1>4. CASE GiveUp(a)
  BY <1>1, <1>4 DEF GiveUp, OnError, Waiting, Goto, TypeOK, Early
<1>5. CASE Answer(a)
  BY <1>1, <1>5 DEF Answer, OnAccept, OnError, Waiting, Goto, TypeOK, Early
<1>. QED
  BY <1>2, <1>3, <1>4, <1>5 DEF StepOf, Progress

\* The attempt's own steps create its record at most once.
LEMMA UnbornStep ==
  ASSUME IInv, IInv', NEW a \in Attempts, StepOf(a), Copies(a), Unborn(a)
  PROVE  Unborn(a)'
<1>1. TypeOK /\ AttemptInv(a) /\ TypeOK'
  BY DEF IInv
<1>2. ASSUME NEW r \in InFlight(a)', r.target = "record", r.from = None
      PROVE  InFlight(a)' = {r} /\ r.to.uid = a
  <2>1. CASE r \in InFlight(a)
    <3>1. InFlight(a) = {r} /\ r.to.uid = a
      BY <1>2, <2>1 DEF Unborn
    <3>. QED
      BY <1>2, <2>1, <3>1, OneAtATime
  <2>2. CASE r \notin InFlight(a)
    BY <1>2, <2>2, OneAtATime, Asked
  <2>. QED
    BY <2>1, <2>2
<1>3. NotBorn(a)' => NotBorn(a)
  <2>1. CASE mode'[a] # mode[a]
    BY <1>1, <2>1, PlannedOnce DEF AttemptInv, Planned, NotBorn
  <2>2. CASE pc'[a] \in Early
    BY <2>2, EarlyOnce DEF NotBorn
  <2>3. ASSUME NEW r \in InFlight(a)', r.target = "record", r.from = None
        PROVE  NotBorn(a)
    <3>1. CASE r \in InFlight(a)
      BY <2>3, <3>1 DEF NotBorn
    <3>2. CASE r \notin InFlight(a)
      <4>1. Asks(a, r.to.state) /\ seen[a] = None
        BY <2>3, <3>2, Asked
      <4>. QED
        BY <4>1 DEF Asks, NotBorn, Early, Owns
    <3>. QED
      BY <3>1, <3>2
  <2>. QED
    BY <2>1, <2>2, <2>3 DEF NotBorn
<1>4. ASSUME NotBorn(a)', record' # None
      PROVE  record'.uid # a
  <2>1. record # None => record.uid # a
    BY <1>3, <1>4 DEF Unborn, NotBorn
  <2>2. CASE record' = record
    BY <1>4, <2>1, <2>2
  <2>3. CASE record' # record
    <3>1. PICK r \in InFlight(a) : Served(r)
      BY <2>3, ByRequest
    <3>2. r.target = "record" /\ record = r.from /\ record' = r.to /\ Shared(a)
      BY <2>3, <3>1, Serving
    <3>3. CASE r.from # None
      BY <2>1, <3>1, <3>2, <3>3, Serving
    <3>4. CASE r.from = None
      <4>1. InFlight(a) = {r}
        BY <3>1, <3>2, <3>4 DEF Unborn
      <4>2. InFlight(a)' = {}
        BY <3>1, <3>2, <3>4, <4>1, CreatedOnce
      <4>3. seen[a] = None /\ mode[a] = "fresh"
        BY <1>1, <3>1, <3>2, <3>4 DEF Copies, AttemptInv, Planned, Shared
      <4>4. pc[a] \notin Early
        BY <1>1, <4>1 DEF InFlight, AttemptInv, Sending, Waiting, Stopped, Early
      <4>5. mode'[a] = "fresh" /\ pc'[a] \notin Early
        BY <4>3, <4>4, PlannedOnce, EarlyOnce
      <4>. QED
        BY <1>4, <4>2, <4>5 DEF NotBorn
    <3>. QED
      BY <3>3, <3>4
  <2>. QED
    BY <2>2, <2>3
<1>5. ASSUME NotBorn(a)', NEW b \in Attempts, seen'[b] # None
      PROVE  seen'[b].uid # a
  <2>1. /\ seen[b] # None => seen[b].uid # a
        /\ record # None => record.uid # a
    BY <1>3, <1>5 DEF Unborn, NotBorn
  <2>2. CASE seen'[b] = seen[b]
    BY <1>5, <2>1, <2>2
  <2>3. CASE seen'[b] # seen[b]
    <3>1. b = a
      BY <2>3, OthersUntouched DEF Untouched, StepOf
    <3>2. seen'[b] = record \/ seen'[b] = record'
      BY <2>3, <3>1, CopyChanges, Serving
    <3>. QED
      BY <1>4, <1>5, <2>1, <3>2
  <2>. QED
    BY <2>2, <2>3
<1>. QED
  BY <1>2, <1>4, <1>5 DEF Unborn, NotBorn

\* Another attempt creates its own record only.
LEMMA UnbornElsewhere ==
  ASSUME IInv, NEW a \in Attempts, NEW b \in Attempts \ {a}, StepOf(b), Unborn(a), Unborn(b)
  PROVE  Unborn(a)'
<1>1. Untouched(a) /\ InFlight(a)' = InFlight(a)
  BY OthersUntouched DEF StepOf, Untouched, InFlight
<1>2. NotBorn(a)' => NotBorn(a)
  BY <1>1 DEF NotBorn, Untouched
<1>3. ASSUME NotBorn(a)', record' # None
      PROVE  record'.uid # a
  <2>1. record # None => record.uid # a
    BY <1>2, <1>3 DEF Unborn, NotBorn
  <2>2. CASE record' = record
    BY <1>3, <2>1, <2>2
  <2>3. CASE record' # record
    <3>1. PICK r \in InFlight(b) : Served(r)
      BY <2>3, ByRequest
    <3>2. r.target = "record" /\ record = r.from /\ record' = r.to
      BY <2>3, <3>1, Serving
    <3>3. CASE r.from # None
      BY <2>1, <3>1, <3>2, <3>3, Serving
    <3>4. CASE r.from = None
      BY <3>1, <3>2, <3>4 DEF Unborn
    <3>. QED
      BY <3>3, <3>4
  <2>. QED
    BY <2>2, <2>3
<1>4. ASSUME NotBorn(a)', NEW c \in Attempts, seen'[c] # None
      PROVE  seen'[c].uid # a
  <2>1. /\ seen[c] # None => seen[c].uid # a
        /\ record # None => record.uid # a
    BY <1>2, <1>4 DEF Unborn, NotBorn
  <2>2. CASE seen'[c] = seen[c]
    BY <1>4, <2>1, <2>2
  <2>3. CASE seen'[c] # seen[c]
    <3>1. c = b
      BY <2>3, OthersUntouched DEF Untouched, StepOf
    <3>2. seen'[c] = record \/ seen'[c] = record'
      BY <2>3, <3>1, CopyChanges, Serving
    <3>. QED
      BY <1>3, <1>4, <2>1, <3>2
  <2>. QED
    BY <2>2, <2>3
<1>. QED
  BY <1>1, <1>3, <1>4 DEF Unborn, NotBorn

-----------------------------------------------------------------------------
(* What an unknown outcome does to the reservation *)

\* An outcome changes when the row is checked and when its write is acknowledged.
LEMMA OutcomeChanges ==
  ASSUME IInv, NEW a \in Attempts, StepOf(a), mode[a] \notin {"none", "noop"}
  PROVE  \/ outcome'[a] = outcome[a]
         \/ /\ CheckRow(a) /\ pc[a] = "checking" /\ InFlight(a) = {}
            /\ UNCHANGED <<record, live, mode, before, seen, proof, known, foreign>>
            /\ \/ /\ outcome'[a] = [outcome[a] EXCEPT ![KindAt(row[a])] = "unknown"]
                  /\ row' = row /\ pc'[a] = "writing" /\ InFlight(a)' = {ObjectWrite(a, KindAt(row[a]))}
               \/ /\ outcome'[a] = [outcome[a] EXCEPT ![KindAt(row[a])] = "reused"]
                  /\ pc'[a] \in {"finishing", "checking"} /\ InFlight(a)' = {}
                  /\ mode[a] # "update" /\ proof[a][KindAt(row[a])] # None
         \/ /\ Answer(a) /\ pc[a] = "writing" /\ pc'[a] = "recording" /\ Served(sent[a])
            /\ sent[a] \in InFlight(a) /\ InFlight(a)' = {}
            /\ UNCHANGED <<record, mode, before, row, seen, known, foreign>>
            /\ proof'[a] = [proof[a] EXCEPT ![KindAt(row[a])] = releaseObjectFingerprint(sent[a].to)]
            /\ \E o \in {"created", "updated"} :
                 outcome'[a] = [outcome[a] EXCEPT ![KindAt(row[a])] = o]
<1>1. TypeOK /\ AttemptInv(a)
  BY DEF IInv
<1>2. CASE CheckRow(a)
  <2>. DEFINE k == KindAt(row[a])
              w == ObjectWrite(a, k)
  <2>1. /\ pc[a] = "checking" /\ late' = late
        /\ UNCHANGED <<record, live, mode, before, seen, proof, known, foreign>>
        /\ \/ /\ outcome' = [outcome EXCEPT ![a][k] = "unknown"]
              /\ row' = row /\ Goto(a, "writing") /\ Send(a, w)
           \/ /\ outcome' = [outcome EXCEPT ![a][k] = "reused"] /\ sent' = sent
              /\ mode[a] # "update" /\ proof[a][k] # None
              /\ Goto(a, IF row[a] = 2 THEN "finishing" ELSE "checking")
    BY <1>2 DEF CheckRow, cluster
  <2>2. sent[a] = None /\ late[a] = {}
    BY <1>1, <2>1 DEF AttemptInv, Sending, Waiting, Stopped
  <2>3. k \in Kinds
    BY DEF KindAt, Kinds
  <2>4. w # None
    BY <1>1, <2>3, ObjectWriteType
  <2>. HIDE DEF k, w
  <2>5. CASE /\ outcome' = [outcome EXCEPT ![a][k] = "unknown"]
             /\ row' = row /\ Goto(a, "writing") /\ Send(a, w)
    <3>1. outcome'[a] = [outcome[a] EXCEPT ![k] = "unknown"]
      BY <1>1, <2>5 DEF TypeOK
    <3>2. pc'[a] = "writing" /\ sent'[a] = w
      BY <1>1, <2>5 DEF TypeOK, Goto, Send
    <3>3. InFlight(a) = {} /\ InFlight(a)' = {w}
      BY <2>1, <2>2, <2>4, <3>2 DEF InFlight
    <3>. QED
      BY <1>2, <2>1, <2>5, <3>1, <3>2, <3>3 DEF k, w
  <2>6. CASE /\ outcome' = [outcome EXCEPT ![a][k] = "reused"] /\ sent' = sent
             /\ mode[a] # "update" /\ proof[a][k] # None
             /\ Goto(a, IF row[a] = 2 THEN "finishing" ELSE "checking")
    <3>1. outcome'[a] = [outcome[a] EXCEPT ![k] = "reused"]
      BY <1>1, <2>6 DEF TypeOK
    <3>2. pc'[a] \in {"finishing", "checking"}
      BY <1>1, <2>6 DEF TypeOK, Goto
    <3>3. InFlight(a) = {} /\ InFlight(a)' = {}
      BY <2>1, <2>2, <2>6 DEF InFlight
    <3>. QED
      BY <1>2, <2>1, <2>6, <3>1, <3>2, <3>3 DEF k
  <2>. QED
    BY <2>1, <2>5, <2>6
<1>3. CASE Answer(a)
  <2>1. pc[a] \in Waiting /\ sent[a] # None /\ late[a] = {} /\ late' = late /\ sent'[a] = None
    BY <1>1, <1>3 DEF Answer, AttemptInv, Sending, Waiting, Stopped, TypeOK
  <2>2. InFlight(a)' = {} /\ sent[a] \in InFlight(a)
    BY <2>1 DEF InFlight
  <2>3. CASE ~Accepts(sent[a])
    BY <1>3, <2>3 DEF Answer
  <2>4. CASE Accepts(sent[a])
    <3>1. Served(sent[a]) /\ OnAccept(a) /\ UNCHANGED <<mode, before, row, known, foreign>>
      BY <1>3, <2>4 DEF Answer, Served
    <3>2. CASE pc[a] = "writing"
      <4>1. sent[a].target = KindAt(row[a]) /\ KindAt(row[a]) \in Kinds /\ "record" \notin Kinds
        BY <1>1, <3>2 DEF AttemptInv, Sending, KindAt, Kinds
      <4>2. record' = record
        BY <3>1, <4>1 DEF Served, Serve
      <4>. DEFINE k == KindAt(row[a])
                  fp == releaseObjectFingerprint(sent[a].to)
                  o == IF mode[a] = "update" THEN "updated" ELSE "created"
      <4>3. /\ proof' = [proof EXCEPT ![a][k] = fp] /\ outcome' = [outcome EXCEPT ![a][k] = o]
            /\ seen' = seen /\ pc'[a] = "recording"
        BY <1>1, <3>1, <3>2 DEF OnAccept, Goto, TypeOK
      <4>4. o \in {"created", "updated"}
        OBVIOUS
      <4>. HIDE DEF k, fp, o
      <4>5. proof'[a] = [proof[a] EXCEPT ![k] = fp] /\ outcome'[a] = [outcome[a] EXCEPT ![k] = o]
        BY <1>1, <4>3 DEF TypeOK
      <4>. QED
        BY <1>3, <2>2, <3>1, <3>2, <4>2, <4>3, <4>4, <4>5 DEF k, fp
    <3>3. CASE pc[a] \in {"reserving", "crediting", "releasing"}
      BY <3>1, <3>3 DEF OnAccept
    <3>. QED
      BY <2>1, <3>2, <3>3 DEF Waiting
  <2>. QED
    BY <2>3, <2>4
<1>4. CASE Start(a)
  BY <1>1, <1>4 DEF Start, PlanLift, PlanUpdate, Confirm, VerifyNoop, Prepare, Refuse, memory
<1>5. CASE DeliverLate(a) \/ Crash(a) \/ LoseMarker(a)
  BY <1>5 DEF DeliverLate, Crash, Abandon, LoseMarker, memory
<1>6. CASE Progress(a) /\ ~Answer(a) /\ ~CheckRow(a)
  BY <1>6 DEF Progress, Reserve, RefusePrepared, Checkpoint, CheckpointFails,
              BecomeReady, LoopFails, Finish, Settle, SettleFails, Persist, PersistFails,
              PublishCandidate, Commit, AcknowledgeFails, GiveUp, Abandon, memory
<1>. QED
  BY <1>2, <1>3, <1>4, <1>5, <1>6 DEF StepOf

\* With an unknown outcome, an attempt that cannot resolve it goes on to stop.
LEMMA UnknownMoves ==
  ASSUME IInv, NEW a \in Attempts, StepOf(a), Shared(a), Blocked(a), Unknown(a),
         outcome'[a] = outcome[a]
  PROVE  /\ pc'[a] \in {"recording", "persisting"} \cup Stopped
         /\ pc'[a] = "recording" => pc[a] \in {"writing", "recording"} /\ row'[a] = row[a]
         /\ pc'[a] = "persisting" => ~MayRelease(a)'
<1>1. TypeOK /\ AttemptInv(a)
  BY DEF IInv
<1>2. pc[a] \in {"writing", "recording", "persisting"} \cup Stopped
  BY DEF Blocked
<1>3. pc[a] \in {"writing", "recording"} => ~known[a] /\ (mode[a] = "fresh" => result[a] # "ready")
  BY <1>1 DEF AttemptInv, Finalizing, Rows, Ending, Stopped
<1>4. CASE Start(a)
  BY <1>2, <1>4 DEF Start, PlanLift, PlanUpdate, Confirm, VerifyNoop, Prepare, Refuse, Stopped
<1>5. CASE DeliverLate(a)
  <2>1. UNCHANGED <<pc, memory>> /\ late[a] # {}
    BY <1>5 DEF DeliverLate
  <2>2. pc[a] # "writing"
    BY <1>1, <2>1 DEF AttemptInv, Sending, Stopped
  <2>. QED
    BY <1>2, <2>1, <2>2 DEF Blocked, MayRelease, memory
<1>6. CASE Crash(a) \/ LoseMarker(a)
  BY <1>1, <1>6 DEF Crash, LoseMarker, Goto, TypeOK, Stopped
<1>7. CASE pc[a] = "writing" /\ (Answer(a) \/ GiveUp(a))
  <2>1. KindAt(row[a]) \in Kinds /\ outcome[a][KindAt(row[a])] = "unknown"
    BY <1>1, <1>7 DEF AttemptInv, Rows, KindAt, Kinds
  <2>2. OnError(a) /\ UNCHANGED <<mode, row, known>>
    <3>1. CASE GiveUp(a)
      BY <3>1 DEF GiveUp
    <3>2. CASE Answer(a)
      <4>1. ~Accepts(sent[a])
        <5>. SUFFICES ASSUME Accepts(sent[a]) PROVE FALSE
          OBVIOUS
        <5>1. OnAccept(a)
          BY <3>2 DEF Answer
        <5>2. \E o \in {"created", "updated"} : outcome' = [outcome EXCEPT ![a][KindAt(row[a])] = o]
          BY <1>7, <5>1 DEF OnAccept
        <5>3. outcome'[a][KindAt(row[a])] \in {"created", "updated"}
          BY <1>1, <2>1, <5>2 DEF TypeOK
        <5>. QED
          BY <2>1, <5>3
      <4>. QED
        BY <3>2, <4>1 DEF Answer
    <3>. QED
      BY <1>7, <3>1, <3>2
  <2>3. result' = result /\ pc'[a] \in {"recording", "persisting"}
    BY <1>1, <1>7, <2>2 DEF OnError, Goto, TypeOK
  <2>. QED
    BY <1>3, <1>7, <2>2, <2>3 DEF MayRelease
<1>8. CASE pc[a] = "recording" /\ (Checkpoint(a) \/ CheckpointFails(a))
  <2>1. outcome[a][KindAt(row[a])] = "unknown"
    BY <1>8 DEF Blocked, Unknown
  <2>2. pc'[a] = "persisting" /\ UNCHANGED memory
    BY <1>1, <1>8, <2>1 DEF Checkpoint, CheckpointFails, Goto, TypeOK
  <2>. QED
    BY <1>3, <1>8, <2>2 DEF MayRelease, memory
<1>9. CASE pc[a] = "persisting" /\ (Persist(a) \/ PersistFails(a))
  <2>1. ~MayRelease(a)
    BY <1>9 DEF Blocked
  <2>. QED
    BY <1>1, <1>9, <2>1 DEF Persist, PersistFails, Goto, TypeOK, Stopped
<1>10. CASE Progress(a)
  BY <1>2, <1>7, <1>8, <1>9, <1>10 DEF Progress, Reserve, RefusePrepared, CheckRow, Checkpoint,
     CheckpointFails, BecomeReady, LoopFails, Finish, Settle, SettleFails, Persist, PersistFails,
     PublishCandidate, Commit, AcknowledgeFails, Answer, GiveUp, Stopped, Waiting
<1>. QED
  BY <1>4, <1>5, <1>6, <1>10 DEF StepOf

\* The attempt's own steps.
LEMMA BlockedStep ==
  ASSUME IInv, IInv', NEW a \in Attempts, StepOf(a), Copies(a), Blocked(a)
  PROVE  Blocked(a)'
<1>1. TypeOK /\ TypeOK' /\ AttemptInv(a) /\ AttemptInv(a)'
  BY DEF IInv
<1>2. /\ KindAt(row[a]) \in Kinds /\ "record" \notin Kinds
      /\ outcome[a] \in [Kinds -> {"not-attempted", "unknown", "created", "updated", "reused"}]
      /\ outcome'[a] \in [Kinds -> {"not-attempted", "unknown", "created", "updated", "reused"}]
  BY <1>1 DEF TypeOK, KindAt, Kinds
<1>3. CASE mode[a] = "none"
  <2>1. pc[a] = "idle" /\ ~Unknown(a) /\ InFlight(a) = {}
    BY <1>1, <1>3 DEF AttemptInv, Planned, Sending, Waiting, Stopped, InFlight, Blocked, Early
  <2>2. outcome'[a] = outcome[a] /\ pc'[a] \in Early
    <3>1. CASE Start(a)
      BY <1>1, <1>3, <2>1, <3>1 DEF Start, PlanLift, PlanUpdate, Confirm, VerifyNoop, Prepare, Refuse,
         Goto, TypeOK, Early
    <3>2. CASE DeliverLate(a) \/ Crash(a) \/ LoseMarker(a)
      BY <2>1, <3>2 DEF DeliverLate, InFlight, Crash, LoseMarker, Locked, Stopped
    <3>3. CASE Progress(a)
      BY <2>1, <3>3 DEF Progress, Reserve, RefusePrepared, CheckRow, Checkpoint, CheckpointFails,
         BecomeReady, LoopFails, Finish, Settle, SettleFails, Persist, PersistFails, PublishCandidate,
         Commit, AcknowledgeFails, Answer, GiveUp, Waiting
    <3>. QED
      BY <3>1, <3>2, <3>3 DEF StepOf
  <2>3. ~Unknown(a)'
    BY <2>1, <2>2 DEF Unknown
  <2>4. InFlight(a)' = {}
    <3>1. sent'[a] = None /\ late'[a] = {}
      BY <1>1, <2>2 DEF AttemptInv, Sending, Waiting, Stopped, Early
    <3>. QED
      BY <3>1 DEF InFlight
  <2>. QED
    BY <2>2, <2>3, <2>4 DEF Blocked, Early, Unknown
<1>4. CASE mode[a] = "noop"
  <2>1. mode'[a] = "noop"
    BY <1>4, PlannedOnce
  <2>2. InFlight(a)' = {}
    <3>1. ASSUME NEW r \in InFlight(a)' PROVE r.target = "record" \/ r.target \in Kinds
      <4>1. r \in Requests
        BY <1>1 DEF TypeOK, InFlight
      <4>. QED
        BY <4>1 DEF Requests
    <3>. QED
      BY <1>1, <2>1, <3>1 DEF AttemptInv, Requested, Shared
  <2>3. pc'[a] \in Early => outcome'[a] = outcome[a] /\ pc[a] \in Early
    <3>1. CASE Start(a)
      BY <1>1, <1>4, <3>1 DEF Start, PlanLift, PlanUpdate, Confirm, VerifyNoop, Prepare, Refuse,
         Goto, TypeOK, Early, memory
    <3>2. CASE DeliverLate(a) \/ Crash(a) \/ LoseMarker(a)
      BY <1>1, <3>2 DEF DeliverLate, Crash, LoseMarker, memory, Goto, TypeOK, Early
    <3>3. CASE Progress(a)
      BY <1>1, <1>4, <3>3 DEF Progress, Reserve, RefusePrepared, CheckRow, Checkpoint, CheckpointFails,
         BecomeReady, LoopFails, Finish, Settle, SettleFails, Persist, PersistFails, PublishCandidate,
         Commit, AcknowledgeFails, Answer, GiveUp, Waiting, AttemptInv, Planned, Stopped
    <3>. QED
      BY <3>1, <3>2, <3>3 DEF StepOf
  <2>4. pc'[a] \in Early => ~Unknown(a)'
    BY <2>3 DEF Blocked, Unknown
  <2>. QED
    BY <2>1, <2>2, <2>4 DEF Blocked, Shared
<1>5. CASE mode[a] \notin {"none", "noop"} /\ outcome'[a] = outcome[a]
  <2>1. mode'[a] = mode[a] /\ (Shared(a)' <=> Shared(a)) /\ (Unknown(a)' <=> Unknown(a))
    BY <1>5, PlannedOnce DEF Shared, Unknown
  <2>2. pc'[a] \in Early => ~Unknown(a)'
    BY <2>1, EarlyOnce DEF Blocked
  <2>3. ASSUME NEW r \in InFlight(a)', r.target \in Kinds
        PROVE  outcome'[a][r.target] = "unknown"
    <3>1. CASE r \in InFlight(a)
      BY <1>5, <2>3, <3>1 DEF Blocked
    <3>2. CASE r \notin InFlight(a)
      <4>1. CheckRow(a) /\ InFlight(a)' = {r}
        BY <1>2, <2>3, <3>2, OneAtATime
      <4>2. sent'[a] = ObjectWrite(a, KindAt(row[a]))
             /\ outcome'[a] = [outcome[a] EXCEPT ![KindAt(row[a])] = "unknown"]
        <5>1. sent' = sent => r \in InFlight(a)
          BY <4>1 DEF InFlight, CheckRow, cluster
        <5>. QED
          BY <1>1, <3>2, <4>1, <5>1 DEF CheckRow, Send, TypeOK
      <4>3. r = ObjectWrite(a, KindAt(row[a]))
        BY <1>1, <1>2, <4>1, <4>2, ObjectWriteType DEF InFlight
      <4>4. r.target = KindAt(row[a])
        BY <1>1, <1>2, <4>3, ObjectWriteType
      <4>. QED
        BY <1>2, <4>2, <4>4
    <3>. QED
      BY <3>1, <3>2
  <2>4. CASE ~(Shared(a) /\ Unknown(a))
    BY <2>1, <2>2, <2>3, <2>4 DEF Blocked, Unknown
  <2>5. CASE Shared(a) /\ Unknown(a)
    <3>1. /\ seen[a] # None /\ seen[a].state.op = a
          /\ \A r \in InFlight(a) : r.target # "record"
          /\ record # None /\ record.uid = seen[a].uid => Reserved(a)
          /\ pc[a] \in {"writing", "recording", "persisting"} \cup Stopped
          /\ pc[a] = "persisting" => ~MayRelease(a)
      BY <2>5 DEF Blocked
    <3>2. /\ pc'[a] \in {"recording", "persisting"} \cup Stopped
          /\ pc'[a] = "recording" => pc[a] \in {"writing", "recording"} /\ row'[a] = row[a]
          /\ pc'[a] = "persisting" => ~MayRelease(a)'
      BY <1>5, <2>5, UnknownMoves
    <3>3. seen'[a] = seen[a]
      <4>1. ~PlanUpdate(a)
        BY <3>1 DEF PlanUpdate, Stopped
      <4>. QED
        BY <3>1, <4>1, CopyChanges
    <3>4. ASSUME NEW r \in InFlight(a)', r.target = "record"
          PROVE  FALSE
      <4>1. r \notin InFlight(a)
        BY <3>1, <3>4
      <4>2. Asks(a, r.to.state)
        BY <3>4, <4>1, Asked
      <4>3. pc[a] = "recording" /\ outcome[a][KindAt(row[a])] # "unknown"
        BY <2>5, <3>1, <4>2 DEF Asks, Stopped
      <4>. QED
        BY <2>5, <4>3 DEF Blocked, Unknown
    <3>5. record' = record
      <4>1. \A r \in InFlight(a) : r.target # "record"
        BY <3>1
      <4>. QED
        BY <4>1, ByRequest, Serving
    <3>6. pc'[a] = "recording" =>
            \A k \in Kinds : outcome'[a][k] = "unknown" => k = KindAt(row'[a])
      BY <1>5, <2>5, <3>2 DEF Blocked
    <3>7. Reserved(a)' <=> Reserved(a)
      BY <3>5 DEF Reserved
    <3>. QED
      BY <2>2, <2>3, <3>1, <3>2, <3>3, <3>4, <3>5, <3>6, <3>7 DEF Blocked, Stopped
  <2>. QED
    BY <2>4, <2>5
<1>6. ASSUME /\ CheckRow(a) /\ pc[a] = "checking" /\ InFlight(a) = {}
             /\ UNCHANGED <<record, live, mode, before, seen, proof, known, foreign>>
             /\ outcome'[a] = [outcome[a] EXCEPT ![KindAt(row[a])] = "unknown"]
             /\ row' = row /\ pc'[a] = "writing"
             /\ InFlight(a)' = {ObjectWrite(a, KindAt(row[a]))}
      PROVE  Blocked(a)'
  <2>1. Shared(a) => ~Unknown(a) /\ Owns(a)
    BY <1>1, <1>6 DEF Blocked, Stopped, AttemptInv, Finalizing, Working
  <2>2. ObjectWrite(a, KindAt(row[a])).target = KindAt(row[a])
    BY <1>1, <1>2, ObjectWriteType
  <2>3. Shared(a) => \A k \in Kinds : outcome'[a][k] = "unknown" => k = KindAt(row'[a])
    BY <1>2, <1>6, <2>1 DEF Unknown
  <2>4. outcome'[a][KindAt(row[a])] = "unknown"
    BY <1>2, <1>6
  <2>5. (Shared(a)' <=> Shared(a)) /\ (Reserved(a)' <=> Reserved(a))
    BY <1>6 DEF Shared, Reserved
  <2>6. \A r \in InFlight(a)' : r.target = KindAt(row[a])
    BY <1>6, <2>2
  <2>. QED
    BY <1>2, <1>6, <2>1, <2>3, <2>4, <2>5, <2>6 DEF Blocked, Early, Owns
<1>7. ASSUME /\ CheckRow(a) /\ pc[a] = "checking"
             /\ UNCHANGED <<record, live, mode, before, seen, proof, known, foreign>>
             /\ outcome'[a] = [outcome[a] EXCEPT ![KindAt(row[a])] = "reused"]
             /\ pc'[a] \in {"finishing", "checking"} /\ InFlight(a)' = {}
      PROVE  Blocked(a)'
  <2>1. Shared(a) => ~Unknown(a)
    BY <1>7 DEF Blocked, Stopped
  <2>2. Shared(a)' => ~Unknown(a)'
    BY <1>2, <1>7, <2>1 DEF Unknown, Shared
  <2>. QED
    BY <1>7, <2>2 DEF Blocked, Early
<1>8. ASSUME /\ Answer(a) /\ pc[a] = "writing" /\ pc'[a] = "recording" /\ InFlight(a)' = {}
             /\ UNCHANGED <<record, mode, before, row, seen, known, foreign>>,
             NEW o \in {"created", "updated"},
             outcome'[a] = [outcome[a] EXCEPT ![KindAt(row[a])] = o]
      PROVE  Blocked(a)'
  <2>1. Shared(a)' => Shared(a)
    BY <1>8 DEF Shared
  <2>2. Shared(a)' => ~Unknown(a)'
    BY <1>2, <1>8, <2>1 DEF Unknown, Blocked
  <2>. QED
    BY <1>8, <2>2 DEF Blocked, Early, Unknown
<1>. QED
  BY <1>3, <1>4, <1>5, <1>6, <1>7, <1>8, OutcomeChanges

\* Another attempt writes a record only under its own reservation, or a new one.
LEMMA BlockedElsewhere ==
  ASSUME IInv, NEW a \in Attempts, NEW b \in Attempts \ {a}, StepOf(b), Copies(b), Unborn(b), Blocked(a)
  PROVE  Blocked(a)'
<1>1. Still(a) /\ Untouched(a) /\ (Reserved(a)' <=> Reserved(a))
  BY OthersStill DEF Still
<1>2. /\ InFlight(a)' = InFlight(a) /\ (Shared(a)' <=> Shared(a)) /\ (Unknown(a)' <=> Unknown(a))
      /\ MayRelease(a)' <=> MayRelease(a)
  BY <1>1 DEF Untouched, InFlight, Shared, Unknown, MayRelease
<1>3. ASSUME Shared(a), Unknown(a), record' # None, record'.uid = seen[a].uid
      PROVE  Reserved(a)'
  <2>1. seen[a] # None /\ (record # None /\ record.uid = seen[a].uid => Reserved(a))
    BY <1>3 DEF Blocked
  <2>2. CASE record' = record
    BY <1>1, <1>3, <2>1, <2>2
  <2>3. CASE record' # record
    <3>1. PICK r \in InFlight(b) : Served(r)
      BY <2>3, ByRequest
    <3>2. r.target = "record" /\ record = r.from /\ record' = r.to
      BY <2>3, <3>1, Serving
    <3>3. CASE r.from # None
      BY <1>1, <1>3, <2>1, <3>1, <3>2, <3>3, Serving
    <3>4. CASE r.from = None
      <4>1. record'.uid = b
        BY <3>1, <3>2, <3>4 DEF Unborn
      <4>2. seen[a].uid # b
        BY <2>1, <3>1, <3>2, <3>4 DEF Unborn, NotBorn
      <4>. QED
        BY <1>3, <4>1, <4>2
    <3>. QED
      BY <3>3, <3>4
  <2>. QED
    BY <2>2, <2>3
<1>. QED
  BY <1>1, <1>2, <1>3 DEF Blocked, Untouched

-----------------------------------------------------------------------------
(* What the record says about the pair *)

\* An attempt's own step touches an object only after its reservation has been accepted.
LEMMA UntriedStep ==
  ASSUME IInv, NEW a \in Attempts, StepOf(a), Copies(a), Untried(a)
  PROVE  Untried(a)'
<1>1. TypeOK /\ AttemptInv(a) /\ a # None
  BY NoneAssumption DEF IInv
<1>2. ASSUME pc'[a] \in Early PROVE ~Changed(a)'
  <2>1. ~Changed(a)
    BY <1>2, EarlyOnce DEF Untried
  <2>2. outcome'[a] = outcome[a]
    <3>1. CASE Start(a)
      BY <1>1, <1>2, <3>1 DEF Start, PlanLift, PlanUpdate, Confirm, VerifyNoop, Prepare, Refuse,
         Goto, TypeOK, Early, memory
    <3>2. CASE ~Start(a)
      <4>1. pc'[a] \notin Early \/ UNCHANGED outcome
        <5>1. CASE DeliverLate(a) \/ Crash(a) \/ LoseMarker(a)
          BY <5>1 DEF DeliverLate, Crash, LoseMarker, memory
        <5>2. CASE Progress(a) /\ ~CheckRow(a) /\ ~Answer(a)
          BY <5>2 DEF Progress, Reserve, RefusePrepared, Checkpoint, CheckpointFails,
             BecomeReady, LoopFails, Finish, Settle, SettleFails, Persist, PersistFails,
             PublishCandidate, Commit, AcknowledgeFails, GiveUp, memory
        <5>3. CASE CheckRow(a) \/ Answer(a)
          BY <1>2, <5>3, EarlyOnce DEF CheckRow, Answer, Early, Waiting
        <5>. QED
          BY <3>2, <5>1, <5>2, <5>3 DEF StepOf
      <4>. QED
        BY <1>2, <4>1
    <3>. QED
      BY <3>1, <3>2
  <2>. QED
    BY <2>1, <2>2 DEF Changed
<1>3. ASSUME NEW r \in InFlight(a)', r.target = "record", r.from # None, r.from.state.op = None
      PROVE  ~Changed(a)'
  <2>1. CASE r \in InFlight(a)
    <3>1. ~Changed(a) /\ Shared(a)
      BY <1>1, <1>3, <2>1 DEF Untried, AttemptInv, Requested
    <3>2. outcome'[a] = outcome[a]
      BY <1>3, <2>1, <3>1, OutcomeChanges DEF Shared
    <3>. QED
      BY <3>1, <3>2 DEF Changed
  <2>2. CASE r \notin InFlight(a)
    <3>1. Asks(a, r.to.state) /\ r.from = seen[a] /\ outcome' = outcome
      BY <1>3, <2>2, Asked
    <3>2. pc[a] \in Early
      BY <1>1, <1>3, <3>1 DEF Asks, Owns, Early
    <3>. QED
      BY <3>1, <3>2 DEF Untried, Changed
  <2>. QED
    BY <2>1, <2>2
<1>. QED
  BY <1>2, <1>3 DEF Untried

\* Steps that leave an attempt alone keep it untried.
LEMMA UntriedElsewhere ==
  ASSUME NEW b \in Attempts, Untried(b), Untouched(b)
  PROVE  Untried(b)'
  BY DEF Untried, Untouched, Changed, InFlight

\* A record that is given back describes the pair that its holder knows.
LEMMA DescribedStep ==
  ASSUME IInv, IInv', NEW a \in Attempts, StepOf(a), Copies(a), Blocked(a), Known(a),
         FreeRecordDescribesPair
  PROVE  FreeRecordDescribesPair'
<1>1. TypeOK /\ a # None
  BY NoneAssumption DEF IInv
<1>. SUFFICES ASSUME foreign' = 0, record' # None, record'.state.op = None, NEW k \in Kinds
              PROVE  live'[k] # None /\ releaseObjectFingerprint(live'[k]) = record'.state.baseline[k]
  BY DEF FreeRecordDescribesPair
<1>2. foreign = 0
  BY ForeignGrows
<1>3. CASE record' = record /\ live' = live
  BY <1>2, <1>3 DEF FreeRecordDescribesPair
<1>4. ASSUME NEW r \in InFlight(a), Served(r), r.target # "record"
      PROVE  FALSE
  <2>1. record' = record /\ r.target \in Kinds
    BY <1>4, Serving
  <2>2. live[r.target] # None /\ ~Reserved(a)
    BY <1>1, <1>2, <2>1 DEF FreeRecordDescribesPair, Reserved
  <2>. QED
    BY <1>4, <2>2, Serving
<1>5. ASSUME NEW r \in InFlight(a), Served(r), r.target = "record"
      PROVE  live'[k] # None /\ releaseObjectFingerprint(live'[k]) = record'.state.baseline[k]
  <2>1. record' = r.to /\ live' = live /\ Shared(a) /\ Reserved(a)
    BY <1>5, Serving DEF Reserved
  <2>2. r.to.state.baseline = proof[a] /\ proof[a] \in Pairs
    BY <1>5, <2>1 DEF Copies, GivesBack
  <2>3. ~Unknown(a)
    BY <1>5, <2>1 DEF Blocked
  <2>4. proof[a][k] # None
    BY <2>2, NoneAssumption DEF Pairs
  <2>. QED
    BY <1>2, <2>1, <2>2, <2>3, <2>4 DEF Known, Unknown
<1>. QED
  BY <1>3, <1>4, <1>5, ByRequest

\* What the holder of the record knows stays true as it works.
LEMMA KnownStep ==
  ASSUME IInv, IInv', NEW a \in Attempts, StepOf(a), Copies(a), Blocked(a), Credited(a), Untried(a),
         Followed(a), Known(a), FreeRecordDescribesPair
  PROVE  Known(a)'
<1>1. TypeOK /\ TypeOK' /\ AttemptInv(a) /\ a # None
  BY NoneAssumption DEF IInv
<1>. SUFFICES ASSUME foreign' = 0, Reserved(a)', NEW k \in Kinds, outcome'[a][k] # "unknown", proof'[a][k] # None
              PROVE  live'[k] # None /\ releaseObjectFingerprint(live'[k]) = proof'[a][k]
  BY DEF Known
<1>2. foreign = 0
  BY ForeignGrows
<1>3. /\ KindAt(row[a]) \in Kinds /\ "record" \notin Kinds
      /\ outcome[a] \in [Kinds -> {"not-attempted", "unknown", "created", "updated", "reused"}]
      /\ proof[a] \in [Kinds -> Fingerprints \cup {None}]
      /\ live \in [Kinds -> Objects \cup {None}]
  BY <1>1 DEF TypeOK, KindAt, Kinds
<1>4. CASE ~Reserved(a)
  <2>1. record' # record
    BY <1>4 DEF Reserved
  <2>2. PICK r \in InFlight(a) : Served(r)
    BY <2>1, ByRequest
  <2>3. /\ r.target = "record" /\ record = r.from /\ record' = r.to /\ live' = live /\ Shared(a)
        /\ r.from # None => r.from.state.op = None
    BY <1>1, <1>4, <2>1, <2>2, Serving DEF Reserved
  <2>4. proof'[a] = proof[a] /\ outcome'[a] = outcome[a]
    <3>1. ~PlanLift(a) /\ ~PlanUpdate(a)
      BY <2>1 DEF PlanLift, PlanUpdate, cluster
    <3>2. proof'[a] = proof[a]
      BY <2>1, <3>1, ProofChanges
    <3>3. outcome'[a] = outcome[a]
      BY <2>1, <2>3, OutcomeChanges DEF Shared
    <3>. QED
      BY <3>2, <3>3
  <2>5. CASE r.from = None
    <3>1. seen[a] = None /\ mode[a] = "fresh"
      BY <1>1, <2>2, <2>3, <2>5 DEF Copies, AttemptInv, Planned, Shared
    <3>2. AbsentFrom(proof[a], 1)
      BY <3>1 DEF Credited
    <3>3. \A j \in Kinds : proof[a][j] = None
      BY <3>2 DEF AbsentFrom, KindAt, Kinds
    <3>. QED
      BY <2>4, <3>3
  <2>6. CASE r.from # None
    <3>1. mode[a] = "update" /\ r.from = before[a] /\ ~Changed(a)
      BY <2>2, <2>3, <2>6 DEF Followed, Untried
    <3>2. proof[a][k] = record.state.baseline[k]
      BY <2>3, <3>1 DEF Credited, Changed
    <3>. QED
      BY <1>2, <2>3, <2>4, <2>6, <3>2 DEF FreeRecordDescribesPair
  <2>. QED
    BY <2>5, <2>6
<1>5. CASE Reserved(a)
  <2>1. Shared(a) /\ pc[a] \notin Early /\ mode[a] \notin {"none", "noop"}
    BY <1>1, <1>5 DEF AttemptInv, Named, Shared
  <2>2. ASSUME NEW j \in Kinds, outcome[a][j] # "unknown", proof[a][j] # None
        PROVE  live[j] # None /\ releaseObjectFingerprint(live[j]) = proof[a][j]
    BY <1>2, <1>5, <2>2 DEF Known
  <2>3. CASE outcome'[a] = outcome[a]
    <3>1. proof'[a] = proof[a]
      <4>1. ~PlanLift(a) /\ ~PlanUpdate(a)
        BY <2>1 DEF PlanLift, PlanUpdate, Early
      <4>2. pc[a] = "writing" => outcome[a][KindAt(row[a])] = "unknown"
        BY <1>1 DEF AttemptInv, Rows
      <4>3. ASSUME pc[a] = "writing", NEW o \in {"created", "updated"},
                   outcome'[a] = [outcome[a] EXCEPT ![KindAt(row[a])] = o]
            PROVE  FALSE
        <5>1. outcome[a][KindAt(row[a])] = o
          BY <1>3, <2>3, <4>3
        <5>. QED
          BY <4>2, <4>3, <5>1
      <4>. QED
        BY <4>1, <4>3, ProofChanges
    <3>2. CASE live' = live
      BY <2>2, <2>3, <3>1, <3>2
    <3>3. CASE live' # live
      <4>1. PICK r \in InFlight(a) : Served(r)
        BY <3>3, ByRequest
      <4>2. r.target \in Kinds /\ live' = [live EXCEPT ![r.target] = r.to]
        BY <3>3, <4>1, Serving
      <4>3. r.target # k
        BY <2>3, <4>1, <4>2 DEF Blocked
      <4>. QED
        BY <1>3, <2>2, <2>3, <3>1, <4>2, <4>3
    <3>. QED
      BY <3>2, <3>3
  <2>4. ASSUME CheckRow(a), pc[a] = "checking", UNCHANGED <<live, proof>>
        PROVE  live'[k] # None /\ releaseObjectFingerprint(live'[k]) = proof'[a][k]
    <3>1. ~Unknown(a)
      BY <2>1, <2>4 DEF Blocked, Stopped
    <3>. QED
      BY <2>2, <2>4, <3>1 DEF Unknown
  <2>5. ASSUME pc[a] = "writing", Served(sent[a]), sent[a] \in InFlight(a),
               proof'[a] = [proof[a] EXCEPT ![KindAt(row[a])] = releaseObjectFingerprint(sent[a].to)],
               NEW o \in {"created", "updated"},
               outcome'[a] = [outcome[a] EXCEPT ![KindAt(row[a])] = o]
        PROVE  live'[k] # None /\ releaseObjectFingerprint(live'[k]) = proof'[a][k]
    <3>1. sent[a].target = KindAt(row[a])
      BY <1>1, <2>5 DEF AttemptInv, Sending
    <3>2. live' = [live EXCEPT ![KindAt(row[a])] = sent[a].to] /\ sent[a].to # None
      BY <1>3, <2>5, <3>1, Serving
    <3>3. CASE k = KindAt(row[a])
      BY <1>3, <2>5, <3>2, <3>3
    <3>4. CASE k # KindAt(row[a])
      <4>1. outcome[a][k] # "unknown" /\ proof[a][k] # None /\ proof'[a][k] = proof[a][k] /\ live'[k] = live[k]
        BY <1>3, <2>5, <3>2, <3>4
      <4>. QED
        BY <2>2, <4>1
    <3>. QED
      BY <3>3, <3>4
  <2>. QED
    BY <2>1, <2>3, <2>4, <2>5, OutcomeChanges
<1>. QED
  BY <1>4, <1>5

\* Nobody else changes the pair of the attempt that holds the record: a deploy
\* without a record only fills gaps.
LEMMA KnownElsewhere ==
  ASSUME IInv, NEW a \in Attempts, NEW b \in Attempts \ {a}, StepOf(b), Known(a)
  PROVE  Known(a)'
<1>1. Untouched(a) /\ (Reserved(a)' <=> Reserved(a)) /\ live \in [Kinds -> Objects \cup {None}]
  BY OthersStill DEF Still, IInv, TypeOK
<1>. SUFFICES ASSUME foreign' = 0, Reserved(a)', NEW k \in Kinds, outcome'[a][k] # "unknown", proof'[a][k] # None
              PROVE  live'[k] # None /\ releaseObjectFingerprint(live'[k]) = proof'[a][k]
  BY DEF Known
<1>2. live[k] # None /\ releaseObjectFingerprint(live[k]) = proof[a][k]
  BY <1>1, ForeignGrows DEF Known, Untouched
<1>3. live'[k] = live[k]
  <2>1. CASE live' = live
    BY <2>1
  <2>2. CASE live' # live
    <3>1. PICK r \in InFlight(b) : Served(r)
      BY <2>2, ByRequest
    <3>2. /\ r.target \in Kinds /\ live' = [live EXCEPT ![r.target] = r.to]
          /\ IF mode[b] = "mixed" THEN live[r.target] = None ELSE Shared(b) /\ Reserved(b)
      BY <2>2, <3>1, Serving
    <3>3. ~Reserved(b)
      BY <1>1 DEF Reserved
    <3>. QED
      BY <1>1, <1>2, <3>2, <3>3
  <2>. QED
    BY <2>1, <2>2
<1>. QED
  BY <1>1, <1>2, <1>3 DEF Untouched

-----------------------------------------------------------------------------
(* What the record remembers *)

\* What happens to the data of a record when it is replaced.
LEMMA Replaced ==
  ASSUME IInv, NEW a \in Attempts, NEW r \in InFlight(a), Served(r), r.target = "record", record # None,
         Sound(record.state), Copies(a), Followed(a)
  PROVE  /\ Sound(record'.state)
         /\ \/ /\ record'.state.history = record.state.history
               /\ record'.state.op = None => before[a] # None /\ record'.state = before[a].state
            \/ \E t \in Revisions :
                 /\ t.lift = a /\ t.before = record.state.baseline /\ t.objects = proof[a]
                 /\ record'.state.op = None /\ record'.state.baseline = proof[a]
                 /\ record'.state.history = Roll(Append(record.state.history, t))
                 /\ t.state = "completed" /\ pc[a] = "releasing" => result[a] = "ready"
<1>1. TypeOK /\ AttemptInv(a) /\ a # None
  BY NoneAssumption DEF IInv
<1>2. /\ record = r.from /\ record' = r.to /\ Shared(a) /\ r.from = seen[a]
      /\ record.state.op \in {None, a} /\ record'.state.op \in {None, a}
      /\ record'.state.op = None => record.state.op = a
      /\ Sound(record'.state)
  BY Serving DEF Copies
<1>3. record.state \in ReleaseStates /\ record.state.history \in Seq(Revisions)
  BY <1>1 DEF TypeOK, Snapshots, ReleaseStates
<1>4. record.state.op = a => ReservationOf(a, before[a], record.state)
  BY <1>2 DEF Copies
<1>5. CASE record'.state.op = a
  <2>1. ReservationOf(a, before[a], record'.state)
    BY <1>2, <1>5 DEF Copies
  <2>2. CASE record.state.op = a
    <3>1. record'.state.history = record.state.history
      BY <1>4, <2>1, <2>2 DEF ReservationOf
    <3>. QED
      BY <1>1, <1>2, <1>5, <3>1
  <2>3. CASE record.state.op = None
    <3>1. mode[a] = "update" /\ record = before[a]
      BY <1>2, <2>3 DEF Followed
    <3>2. record'.state.history = record.state.history
      BY <2>1, <3>1 DEF ReservationOf
    <3>. QED
      BY <1>1, <1>2, <1>5, <3>2
  <2>. QED
    BY <1>2, <2>2, <2>3
<1>6. CASE record'.state.op = None
  <2>1. GivesBack(a, record.state, record'.state) /\ record.state.op = a
    BY <1>2, <1>6 DEF Copies
  <2>2. CASE mode[a] = "update" /\ record'.state = before[a].state
    <3>1. before[a] # None
      BY <1>1, <2>2 DEF AttemptInv, Planned
    <3>2. record'.state.history = record.state.history
      BY <1>4, <2>1, <2>2, <3>1 DEF ReservationOf
    <3>. QED
      BY <1>2, <2>2, <3>1, <3>2
  <2>3. ASSUME NEW verdict \in {"completed", "partial"},
               record'.state = Terminal(record.state, proof[a], verdict),
               verdict = "completed" /\ pc[a] = "releasing" => result[a] = "ready"
        PROVE  \E t \in Revisions :
                 /\ t.lift = a /\ t.before = record.state.baseline /\ t.objects = proof[a]
                 /\ record'.state.op = None /\ record'.state.baseline = proof[a]
                 /\ record'.state.history = Roll(Append(record.state.history, t))
                 /\ t.state = "completed" /\ pc[a] = "releasing" => result[a] = "ready"
    <3>1. record.state.pending # None /\ record.state.pending.lift = a
      BY <1>1, <1>3, <2>1, SoundSays
    <3>2. record.state.pending.before = record.state.baseline
      BY <1>4, <2>1 DEF ReservationOf
    <3>3. proof[a] \in Pairs
      BY <2>1 DEF GivesBack
    <3>4. PICK t \in Revisions :
            /\ t.lift = record.state.pending.lift /\ t.before = record.state.pending.before
            /\ t.objects = proof[a] /\ t.state = verdict
            /\ record'.state.history = Roll(Append(record.state.history, t))
      BY <1>3, <2>3, <3>1, <3>3, TerminalSays
    <3>5. record'.state.baseline = proof[a]
      BY <1>3, <2>3, <3>1, <3>3, TerminalSays
    <3>. QED
      BY <1>6, <2>3, <3>1, <3>2, <3>4, <3>5
  <2>. QED
    BY <1>2, <2>1, <2>2, <2>3 DEF GivesBack
<1>. QED
  BY <1>2, <1>5, <1>6

\* What the record remembers of an attempt survives the revisions of others.
LEMMA Remembered ==
  ASSUME NEW a \in Attempts, NEW h \in Seq(Revisions), Cardinality(Completed(h)) <= MaxCompleted,
         TakenOver(a, h), NEW t \in Revisions
  PROVE  TakenOver(a, Roll(Append(h, t)))
<1>. DEFINE g == Roll(Append(h, t))
<1>1. /\ Cardinality(Completed(h)) = MaxCompleted => Cardinality(Completed(g)) = MaxCompleted
      /\ \A i \in DOMAIN h :
           \/ \E j \in DOMAIN g : g[j] = h[i]
           \/ h[i].state = "completed" /\ Cardinality(Completed(g)) = MaxCompleted
  BY RollAppended
<1>. HIDE DEF g
<1>2. ASSUME NEW i \in DOMAIN h, h[i].lift = a, h[i].objects = proof[a],
             h[i].state = "completed" => Verdict(a) = "ready"
      PROVE  TakenOver(a, g)
  <2>1. CASE \E j \in DOMAIN g : g[j] = h[i]
    <3>1. PICK j \in DOMAIN g : g[j] = h[i]
      BY <2>1
    <3>. QED
      BY <1>2, <3>1 DEF TakenOver
  <2>2. CASE h[i].state = "completed" /\ Cardinality(Completed(g)) = MaxCompleted
    BY <1>2, <2>2 DEF TakenOver
  <2>. QED
    BY <1>1, <2>1, <2>2
<1>3. ASSUME Verdict(a) = "ready", Cardinality(Completed(h)) = MaxCompleted
      PROVE  TakenOver(a, g)
  BY <1>1, <1>3 DEF TakenOver
<1>4. TakenOver(a, g)
  BY <1>2, <1>3 DEF TakenOver
<1>. QED
  BY <1>4 DEF g

\* An attempt comes to acknowledge by the answer that gives the record back.
LEMMA AckedMoves ==
  ASSUME IInv, NEW a \in Attempts, StepOf(a), Successful(a), Acked(a)'
  PROVE  \/ /\ Acked(a) /\ Verdict(a)' = Verdict(a) /\ proof'[a] = proof[a] /\ seen'[a] = seen[a]
         \/ /\ pc[a] = "releasing" /\ pc'[a] = "acking" /\ result' = result /\ proof' = proof
            /\ Served(sent[a]) /\ sent[a] \in InFlight(a) /\ sent[a].target = "record"
            /\ seen'[a] = sent[a].to /\ InFlight(a)' = {}
            /\ ~(mode[a] = "update" /\ ~Changed(a))
<1>1. TypeOK /\ AttemptInv(a)
  BY DEF IInv
<1>2. CASE Start(a)
  <2>1. /\ pc[a] \in {"idle", "planned", "confirmed"} /\ committed' = committed
        /\ pc'[a] \in {"planned", "confirmed", "checking", "prepared", "done"}
    BY <1>1, <1>2 DEF Start, PlanLift, PlanUpdate, Confirm, VerifyNoop, Prepare, Refuse, Goto, TypeOK, disk
  <2>. QED
    BY <2>1 DEF Acked, Successful, Stopped
<1>3. CASE DeliverLate(a) \/ LoseMarker(a) \/ Crash(a)
  <2>1. /\ UNCHANGED <<memory, candidate>> /\ (committed'[a] => committed[a])
        /\ pc'[a] = pc[a] \/ pc'[a] = "crashed"
        /\ Crash(a) => pc[a] \notin Stopped
    BY <1>1, <1>3 DEF DeliverLate, LoseMarker, Crash, Goto, TypeOK, disk, Locked, Stopped
  <2>2. pc'[a] = pc[a]
    BY <1>3, <2>1 DEF Acked, Successful, LoseMarker, DeliverLate
  <2>. QED
    BY <2>1, <2>2 DEF Acked, Verdict, memory
<1>4. CASE PublishCandidate(a)
  <2>1. /\ pc[a] = "acking" /\ pc'[a] = "linking" /\ candidate'[a] = Acknowledgment(a)
        /\ UNCHANGED <<memory, committed>>
    BY <1>1, <1>4 DEF PublishCandidate, Goto, TypeOK
  <2>. QED
    BY <2>1 DEF Acked, Verdict, Acknowledgment, memory
<1>5. CASE Commit(a)
  <2>1. /\ pc[a] = "linking" /\ pc'[a] = "done" /\ candidate' = candidate
        /\ UNCHANGED <<seen, proof>>
    BY <1>1, <1>5 DEF Commit, Goto, TypeOK
  <2>. QED
    BY <2>1 DEF Acked, Verdict
<1>6. CASE AcknowledgeFails(a)
  <2>1. /\ pc'[a] = "done" /\ UNCHANGED <<seen, proof>>
        /\ \/ pc[a] = "acking" /\ committed' = committed
           \/ pc[a] = "linking" /\ candidate' = candidate
    BY <1>1, <1>6 DEF AcknowledgeFails, Goto, TypeOK
  <2>2. pc[a] = "linking"
    BY <2>1 DEF Acked, Successful, Stopped
  <2>. QED
    BY <2>1, <2>2 DEF Acked, Verdict
<1>7. CASE Answer(a) /\ Accepts(sent[a])
  <2>1. /\ pc[a] \in Waiting /\ OnAccept(a) /\ UNCHANGED <<mode, disk, result>>
        /\ Served(sent[a]) /\ sent[a] \in InFlight(a) /\ InFlight(a)' = {}
    <3>1. pc[a] \in Waiting /\ sent[a] # None /\ late[a] = {} /\ late' = late /\ sent'[a] = None
      BY <1>1, <1>7 DEF Answer, AttemptInv, Sending, Waiting, Stopped, TypeOK
    <3>. QED
      BY <1>7, <3>1 DEF Answer, Served, InFlight
  <2>2. pc'[a] = "acking"
    BY <1>1, <2>1 DEF Acked, Successful, OnAccept, Goto, TypeOK, disk, Waiting, Stopped
  <2>3. pc[a] = "releasing" /\ ~(mode[a] = "update" /\ ~Changed(a))
    BY <1>1, <2>1, <2>2 DEF OnAccept, Goto, TypeOK, Waiting
  <2>4. seen'[a] = sent[a].to /\ proof' = proof /\ sent[a].target = "record"
    BY <1>1, <2>1, <2>3 DEF OnAccept, TypeOK, AttemptInv, Sending
  <2>. QED
    BY <2>1, <2>2, <2>3, <2>4
<1>8. CASE GiveUp(a) \/ (Answer(a) /\ ~Accepts(sent[a]))
  <2>1. pc[a] \in Waiting /\ OnError(a) /\ committed' = committed
    BY <1>8 DEF Answer, GiveUp, disk
  <2>. QED
    BY <1>1, <2>1 DEF Acked, Successful, OnError, Goto, TypeOK, Waiting, Stopped
<1>9. CASE \/ Reserve(a) \/ RefusePrepared(a) \/ CheckRow(a) \/ Checkpoint(a) \/ CheckpointFails(a)
           \/ BecomeReady(a) \/ LoopFails(a) \/ Finish(a) \/ Settle(a) \/ SettleFails(a)
           \/ Persist(a) \/ PersistFails(a)
  <2>1. /\ committed' = committed /\ pc'[a] \notin {"acking", "linking"} /\ pc[a] \notin Stopped
    BY <1>1, <1>9 DEF Reserve, RefusePrepared, CheckRow, Checkpoint, CheckpointFails, BecomeReady,
       LoopFails, Finish, Settle, SettleFails, Persist, PersistFails, Leave, Goto, TypeOK, disk, Stopped
  <2>. QED
    BY <2>1 DEF Acked, Successful
<1>. QED
  BY <1>2, <1>3, <1>4, <1>5, <1>6, <1>7, <1>8, <1>9 DEF StepOf, Progress

\* The attempt's own steps: it acknowledges what the record has taken over.
LEMMA TakenStep ==
  ASSUME IInv, IInv', NEW a \in Attempts, StepOf(a), record # None => Sound(record.state), Copies(a),
         Credited(a), Followed(a), Successful(a), Taken(a)
  PROVE  Taken(a)'
<1>1. TypeOK /\ TypeOK' /\ AttemptInv(a) /\ AttemptInv(a)' /\ a # None
  BY NoneAssumption DEF IInv
<1>2. ASSUME pc'[a] = "releasing" PROVE sent'[a].to.state.op = None
  <2>1. sent'[a] \in InFlight(a)' /\ sent'[a].target = "record"
    BY <1>1, <1>2 DEF AttemptInv, Sending, Waiting, InFlight
  <2>2. CASE sent'[a] \notin InFlight(a)
    <3>1. /\ Asks(a, sent'[a].to.state) /\ (pc[a] = "prepared" => pc'[a] = "reserving")
          /\ (pc[a] = "recording" => pc'[a] = "crediting")
      BY <2>1, <2>2, Asked
    <3>2. pc[a] = "persisting"
      BY <1>2, <3>1 DEF Asks
    <3>. QED
      BY <3>1, <3>2, AsksSound
  <2>3. CASE sent'[a] \in InFlight(a)
    <3>1. pc[a] = "releasing"
      <4>1. CASE pc[a] = "persisting"
        <5>1. Persist(a) \/ pc'[a] # "releasing"
          BY <1>1, <4>1 DEF StepOf, Start, Progress, PlanLift, PlanUpdate, Confirm, VerifyNoop, Prepare,
             Refuse, Reserve, RefusePrepared, CheckRow, Checkpoint, CheckpointFails, BecomeReady,
             LoopFails, Finish, Settle, SettleFails, PersistFails, PublishCandidate, Commit,
             AcknowledgeFails, Answer, GiveUp, DeliverLate, Crash, LoseMarker, Goto, TypeOK, Waiting
        <5>2. late[a] = {} /\ sent[a] = None
          BY <1>1, <1>2, <4>1, <5>1 DEF Persist, Goto, TypeOK, AttemptInv, Finalizing, Sending, Waiting
        <5>. QED
          BY <2>3, <5>2 DEF InFlight
      <4>2. CASE pc[a] # "persisting" /\ pc[a] # "releasing"
        <5>1. CASE Start(a) \/ DeliverLate(a) \/ Crash(a) \/ LoseMarker(a)
          BY <1>1, <1>2, <4>2, <5>1 DEF Start, PlanLift, PlanUpdate, Confirm, VerifyNoop, Prepare,
             Refuse, DeliverLate, Crash, LoseMarker, Goto, TypeOK
        <5>2. CASE Answer(a)
          <6>1. CASE Accepts(sent[a])
            BY <1>1, <1>2, <4>2, <5>2, <6>1 DEF Answer, OnAccept, Waiting, Goto, TypeOK
          <6>2. CASE ~Accepts(sent[a])
            BY <1>1, <1>2, <4>2, <5>2, <6>2 DEF Answer, OnError, Waiting, Goto, TypeOK
          <6>. QED
            BY <6>1, <6>2
        <5>3. CASE GiveUp(a)
          BY <1>1, <1>2, <4>2, <5>3 DEF GiveUp, OnError, Waiting, Goto, TypeOK
        <5>4. CASE Progress(a) /\ ~Answer(a) /\ ~GiveUp(a)
          BY <1>1, <1>2, <4>2, <5>4 DEF Progress, Reserve, RefusePrepared, CheckRow, Checkpoint,
             CheckpointFails, BecomeReady, LoopFails, Finish, Leave, Settle, SettleFails, Persist, PersistFails,
             PublishCandidate, Commit, AcknowledgeFails, Goto, TypeOK
        <5>. QED
          BY <5>1, <5>2, <5>3, <5>4 DEF StepOf
      <4>. QED
        BY <4>1, <4>2
    <3>2. sent'[a] = sent[a]
      <4>1. late[a] = {}
        BY <1>1, <3>1 DEF AttemptInv, Sending, Stopped
      <4>. QED
        BY <2>3, <4>1 DEF InFlight
    <3>. QED
      BY <3>1, <3>2 DEF Taken
  <2>. QED
    BY <2>2, <2>3
<1>3. ASSUME Acked(a)'
      PROVE  /\ InFlight(a)' = {} /\ seen'[a] # None
             /\ record' # None /\ record'.uid = seen'[a].uid => TakenOver(a, record.state.history)'
  <2>1. CASE Acked(a) /\ Verdict(a)' = Verdict(a) /\ proof'[a] = proof[a] /\ seen'[a] = seen[a]
    <3>1. InFlight(a) = {} /\ seen[a] # None
      BY <2>1 DEF Taken
    <3>2. record' = record
      BY <3>1, ByRequest
    <3>3. InFlight(a)' = {}
      <4>1. pc[a] \in {"acking", "linking"} \cup Stopped
        BY <2>1 DEF Acked, Successful
      <4>2. ASSUME NEW r \in InFlight(a)' PROVE FALSE
        <5>1. r \notin InFlight(a)
          BY <3>1
        <5>2. r.target = "record"
          BY <4>1, <5>1, OneAtATime DEF Stopped
        <5>3. Asks(a, r.to.state)
          BY <5>1, <5>2, Asked
        <5>. QED
          BY <4>1, <5>3 DEF Asks, Stopped
      <4>. QED
        BY <4>2
    <3>. QED
      BY <2>1, <3>1, <3>2, <3>3 DEF Taken, TakenOver
  <2>2. CASE /\ pc[a] = "releasing" /\ pc'[a] = "acking" /\ result' = result /\ proof' = proof
             /\ Served(sent[a]) /\ sent[a] \in InFlight(a) /\ sent[a].target = "record"
             /\ seen'[a] = sent[a].to /\ InFlight(a)' = {}
             /\ ~(mode[a] = "update" /\ ~Changed(a))
    <3>1. /\ record' = sent[a].to /\ record' # None /\ record # None
          /\ record'.state.op = None /\ record.state.op = a /\ record.state \in ReleaseStates
      <4>1. sent[a].to.state.op = None
        BY <2>2 DEF Taken
      <4>2. record' = sent[a].to /\ record' # None /\ record # None /\ record.state.op = a
        BY <2>2, <4>1, Serving
      <4>. QED
        BY <1>1, <4>1, <4>2 DEF TypeOK, Snapshots
    <3>2. PICK verdict \in {"completed", "partial"} :
            /\ record'.state = Terminal(record.state, proof[a], verdict)
            /\ verdict = "completed" => result[a] = "ready"
      BY <2>2, <3>1, Serving DEF Copies, GivesBack
    <3>3. record.state.pending # None /\ record.state.pending.lift = a /\ proof[a] \in Pairs
      <4>1. GivesBack(a, record.state, record'.state)
        BY <2>2, <3>1, Serving DEF Copies
      <4>. QED
        BY <1>1, <3>1, <4>1, SoundSays DEF GivesBack
    <3>4. PICK t \in Revisions :
            /\ t.lift = a /\ t.objects = proof[a] /\ t.state = verdict
            /\ record'.state.history = Roll(Append(record.state.history, t))
      BY <3>1, <3>2, <3>3, TerminalSays
    <3>. DEFINE g == Roll(Append(record.state.history, t))
    <3>5. g[Len(g)] = t /\ Len(g) \in DOMAIN g
      BY <3>1, SoundSays, RollAppended
    <3>6. Verdict(a)' = result[a]
      BY <2>2 DEF Verdict
    <3>7. TakenOver(a, record.state.history)'
      BY <2>2, <3>2, <3>4, <3>5, <3>6 DEF TakenOver
    <3>. QED
      BY <2>2, <3>1, <3>7
  <2>. QED
    BY <1>3, <2>1, <2>2, AckedMoves
<1>. QED
  BY <1>2, <1>3 DEF Taken

\* The revisions of others leave what an attempt has acknowledged in the record.
LEMMA TakenElsewhere ==
  ASSUME IInv, NEW a \in Attempts, NEW b \in Attempts \ {a}, StepOf(b), record # None => Sound(record.state),
         Copies(b), Followed(b), Unborn(b), Taken(a)
  PROVE  Taken(a)'
<1>1. Still(a) /\ Untouched(a) /\ InFlight(a)' = InFlight(a) /\ (Acked(a)' <=> Acked(a)) /\ TypeOK
      /\ Verdict(a)' = Verdict(a)
  BY OthersStill DEF Still, Untouched, InFlight, Acked, Verdict, IInv
<1>2. \A h : TakenOver(a, h)' <=> TakenOver(a, h)
  BY <1>1 DEF TakenOver, Untouched
<1>3. ASSUME Acked(a), record' # None, record'.uid = seen[a].uid
      PROVE  TakenOver(a, record'.state.history)
  <2>1. seen[a] # None /\ (record # None /\ record.uid = seen[a].uid => TakenOver(a, record.state.history))
    BY <1>3 DEF Taken
  <2>2. CASE record' = record
    BY <1>3, <2>1, <2>2
  <2>3. CASE record' # record
    <3>1. PICK r \in InFlight(b) : Served(r)
      BY <2>3, ByRequest
    <3>2. r.target = "record" /\ record = r.from /\ record' = r.to
      BY <2>3, <3>1, Serving
    <3>3. CASE record = None
      <4>1. record'.uid = b /\ seen[a].uid # b
        BY <2>1, <3>1, <3>2, <3>3 DEF Unborn, NotBorn
      <4>. QED
        BY <1>3, <4>1
    <3>4. CASE record # None
      <4>1. record'.uid = record.uid /\ TakenOver(a, record.state.history)
        BY <1>3, <2>1, <3>1, <3>2, <3>4, Serving
      <4>2. record.state \in ReleaseStates /\ Sound(record.state)
        BY <1>1, <3>4 DEF TypeOK, Snapshots
      <4>3. \/ record'.state.history = record.state.history
            \/ \E t \in Revisions : record'.state.history = Roll(Append(record.state.history, t))
        BY <3>1, <3>2, <3>4, <4>2, Replaced
      <4>. QED
        BY <4>1, <4>2, <4>3, SoundSays, Remembered
    <3>. QED
      BY <3>3, <3>4
  <2>. QED
    BY <2>2, <2>3
<1>. QED
  BY <1>1, <1>2, <1>3 DEF Taken, Untouched

-----------------------------------------------------------------------------
(* The invariant behind the record *)

Minding(a) ==
  Copies(a) /\ Unborn(a) /\ Blocked(a) /\ Credited(a) /\ Untried(a) /\ Known(a) /\ Taken(a)

RecordSound == record # None => Sound(record.state)

Records == RecordSound /\ FreeRecordDescribesPair /\ \A a \in Attempts : Minding(a)

\* An attempt's step keeps what every attempt minds.
LEMMA RecordsStep ==
  ASSUME IInv, IInv', Reports, NEW a \in Attempts, StepOf(a), Records
  PROVE  Records'
<1>1. \A b \in Attempts : Followed(b) /\ Successful(b)
  BY DEF Reports, Reporting
<1>2. Minding(a) /\ RecordSound
  BY DEF Records
<1>3. Copies(a)' /\ RecordSound'
  BY <1>2, CopiesStep DEF Minding, RecordSound
<1>4. FreeRecordDescribesPair'
  BY <1>2, DescribedStep DEF Minding, Records
<1>5. Unborn(a)' /\ Blocked(a)'
  BY <1>2, UnbornStep, BlockedStep DEF Minding
<1>6. Credited(a)' /\ Untried(a)'
  BY <1>2, CreditedStep, UntriedStep DEF Minding
<1>7. Known(a)'
  BY <1>1, <1>2, KnownStep DEF Minding, Records
<1>8. Taken(a)'
  BY <1>1, <1>2, TakenStep DEF Minding, RecordSound
<1>9. ASSUME NEW b \in Attempts \ {a} PROVE Minding(b)'
  <2>1. Minding(b) /\ Still(b) /\ Untouched(b) /\ (Reserved(b)' <=> Reserved(b))
    BY OthersStill DEF Records, Still
  <2>2. Reserved(b)' => record' = record
    <3>1. ASSUME Reserved(b), record' # record PROVE FALSE
      <4>1. PICK r \in InFlight(a) : Served(r)
        BY <3>1, ByRequest
      <4>2. record.state.op \in {None, a} /\ b # None
        BY <3>1, <4>1, Serving, NoneAssumption DEF Reserved
      <4>. QED
        BY <3>1, <4>2 DEF Reserved
    <3>. QED
      BY <2>1, <3>1
  <2>3. Copies(b)'
    BY <2>1, <2>2, CopiesElsewhere DEF Minding
  <2>4. Unborn(b)'
    BY <1>2, <2>1, UnbornElsewhere DEF Minding
  <2>5. Blocked(b)'
    BY <1>2, <2>1, BlockedElsewhere DEF Minding
  <2>6. Credited(b)' /\ Untried(b)'
    BY <2>1, CreditedElsewhere, UntriedElsewhere DEF Minding
  <2>7. Known(b)'
    BY <2>1, KnownElsewhere DEF Minding
  <2>8. Taken(b)'
    BY <1>1, <1>2, <2>1, TakenElsewhere DEF Minding, RecordSound
  <2>. QED
    BY <2>3, <2>4, <2>5, <2>6, <2>7, <2>8 DEF Minding
<1>10. Minding(a)'
  BY <1>3, <1>5, <1>6, <1>7, <1>8 DEF Minding
<1>. QED
  BY <1>3, <1>4, <1>9, <1>10 DEF Records

\* A step that is nobody's leaves the record alone, or removes it with the pair, and
\* as long as nothing foreign happens it keeps the identity of the objects.
LEMMA EnvironmentLeaves ==
  ASSUME IInv, TearDown \/ \E k \in Kinds : StatusUpdate(k) \/ Interfere(k)
  PROVE  /\ record' = record \/ record' = None
         /\ foreign' = 0 /\ record' # None =>
              \A k \in Kinds : live[k] # None =>
                live'[k] # None /\ releaseObjectFingerprint(live'[k]) = releaseObjectFingerprint(live[k])
<1>1. live \in [Kinds -> Objects \cup {None}] /\ foreign \in Nat
  BY DEF IInv, TypeOK
<1>2. CASE TearDown
  BY <1>2 DEF TearDown
<1>3. ASSUME NEW j \in Kinds, Interfere(j) PROVE record' = record /\ foreign' # 0
  <2>1. record' = record /\ foreign' = foreign + 1
    BY <1>3 DEF Interfere
  <2>. QED
    BY <1>1, <2>1
<1>4. ASSUME NEW j \in Kinds, StatusUpdate(j)
      PROVE  /\ record' = record
             /\ \A k \in Kinds : live[k] # None =>
                  live'[k] # None /\ releaseObjectFingerprint(live'[k]) = releaseObjectFingerprint(live[k])
  <2>. DEFINE o == live[j]
              n == o.rv + 1
  <2>1. /\ record' = record /\ o \in Objects /\ n \in Nat
        /\ \A k \in Kinds : k # j => live'[k] = live[k]
        /\ live'[j] = [o EXCEPT !.rv = n]
    BY <1>1, <1>4 DEF StatusUpdate, Missing, Objects
  <2>. HIDE DEF n
  <2>2. \A p \in Objects, i \in Nat :
          /\ [p EXCEPT !.rv = i] \in Objects
          /\ releaseObjectFingerprint([p EXCEPT !.rv = i]) = releaseObjectFingerprint(p)
    BY DEF Objects, releaseObjectFingerprint
  <2>3. live'[j] # None /\ releaseObjectFingerprint(live'[j]) = releaseObjectFingerprint(live[j])
    <3>1. live'[j] \in Objects /\ releaseObjectFingerprint(live'[j]) = releaseObjectFingerprint(o)
      BY <2>1, <2>2
    <3>. QED
      BY <3>1, NoneAssumption
  <2>4. ASSUME NEW k \in Kinds, live[k] # None
        PROVE  live'[k] # None /\ releaseObjectFingerprint(live'[k]) = releaseObjectFingerprint(live[k])
    BY <2>1, <2>3, <2>4
  <2>. QED
    BY <2>1, <2>4
<1>. QED
  BY <1>2, <1>3, <1>4

\* A step that is nobody's keeps the invariant.
LEMMA RecordsKept ==
  ASSUME \A b \in Attempts : Untouched(b), UNCHANGED <<seen, disk>>, foreign' = 0 => foreign = 0,
         record' = record \/ record' = None,
         foreign' = 0 /\ record' # None =>
           \A k \in Kinds : live[k] # None =>
             live'[k] # None /\ releaseObjectFingerprint(live'[k]) = releaseObjectFingerprint(live[k]),
         Records
  PROVE  Records'
<1>1. RecordSound' /\ FreeRecordDescribesPair'
  BY DEF Records, RecordSound, FreeRecordDescribesPair
<1>2. ASSUME NEW b \in Attempts PROVE Minding(b)'
  <2>1. Minding(b) /\ Untouched(b) /\ (Reserved(b)' => Reserved(b) /\ record' = record)
    BY DEF Records, Reserved
  <2>2. /\ InFlight(b)' = InFlight(b) /\ (Shared(b)' <=> Shared(b)) /\ (Unknown(b)' <=> Unknown(b))
        /\ (MayRelease(b)' <=> MayRelease(b)) /\ (NotBorn(b)' <=> NotBorn(b))
    BY <2>1 DEF Untouched, InFlight, Shared, Unknown, MayRelease, NotBorn
  <2>3. Copies(b)' /\ Credited(b)' /\ Untried(b)'
    BY <2>1, CopiesElsewhere, CreditedElsewhere, UntriedElsewhere DEF Minding
  <2>4. Unborn(b)'
    BY <2>1, <2>2 DEF Minding, Unborn
  <2>5. Blocked(b)'
    <3>1. record' # None /\ Reserved(b) => Reserved(b)'
      BY DEF Reserved
    <3>. QED
      BY <2>1, <2>2, <3>1 DEF Minding, Blocked, Untouched
  <2>6. Known(b)'
    <3>. SUFFICES ASSUME foreign' = 0, Reserved(b)', NEW k \in Kinds,
                         outcome'[b][k] # "unknown", proof'[b][k] # None
                  PROVE  live'[k] # None /\ releaseObjectFingerprint(live'[k]) = proof'[b][k]
      BY DEF Known
    <3>1. outcome'[b] = outcome[b] /\ proof'[b] = proof[b] /\ record' # None
      BY <2>1 DEF Untouched, Reserved
    <3>2. live[k] # None /\ releaseObjectFingerprint(live[k]) = proof[b][k]
      BY <2>1, <3>1 DEF Minding, Known
    <3>. QED
      BY <3>1, <3>2
  <2>7. Taken(b)'
    <3>1. (Acked(b)' <=> Acked(b)) /\ Verdict(b)' = Verdict(b) /\ proof'[b] = proof[b]
      BY <2>1 DEF Acked, Verdict, Untouched, disk
    <3>2. \A h : TakenOver(b, h)' <=> TakenOver(b, h)
      BY <3>1 DEF TakenOver
    <3>. QED
      BY <2>1, <2>2, <3>1, <3>2 DEF Minding, Taken, Untouched
  <2>. QED
    BY <2>3, <2>4, <2>5, <2>6, <2>7 DEF Minding
<1>. QED
  BY <1>1, <1>2 DEF Records

\* Initially there is no record, and nothing is on its way.
LEMMA RecordsInit == Init => Records
<1>. SUFFICES ASSUME Init PROVE Records
  OBVIOUS
<1>1. RecordSound /\ FreeRecordDescribesPair
  BY DEF Init, RecordSound, FreeRecordDescribesPair
<1>2. ASSUME NEW a \in Attempts PROVE Minding(a)
  <2>1. InFlight(a) = {} /\ ~Shared(a) /\ ~Unknown(a) /\ ~Changed(a) /\ ~Reserved(a) /\ ~Acked(a)
    BY DEF Init, InFlight, Shared, Unknown, Changed, Reserved, Acked
  <2>2. /\ pc[a] = "idle" /\ mode[a] = "none" /\ seen[a] = None /\ before[a] = None /\ record = None
        /\ \A b \in Attempts : seen[b] = None
    BY DEF Init
  <2>. QED
    BY <2>1, <2>2 DEF Minding, Copies, Unborn, Blocked, Credited, Untried, Known, Taken, Early
<1>. QED
  BY <1>1, <1>2 DEF Records

\* What the record says, and what the attempts know of it, is an invariant of the protocol.
LEMMA RecordsInv == Spec => []Records
<1>1. ASSUME IInv, IInv', Reports, [Next]_vars, Records
      PROVE  Records'
  <2>1. CASE UNCHANGED vars
    BY <1>1, <2>1, RecordsKept DEF vars, Untouched, disk
  <2>2. CASE \E a \in Attempts : StepOf(a)
    BY <1>1, <2>2, RecordsStep
  <2>3. CASE TearDown \/ \E k \in Kinds : StatusUpdate(k) \/ Interfere(k)
    <3>1. UNCHANGED <<seen, disk>>
      BY <1>1, <2>3, EnvironmentSigns DEF memory
    <3>. QED
      BY <1>1, <2>3, <3>1, EnvironmentSigns, EnvironmentLeaves, RecordsKept
  <2>. QED
    BY <1>1, <2>1, <2>2, <2>3 DEF Next, StepOf
<1>. QED
  BY <1>1, RecordsInit, Inductive, ReportingInv, PTL DEF Spec

(***************************************************************************)
(* Whatever createReleaseState and writeReleaseState leave in the ConfigMap is  *)
(* a record that parseReleaseState accepts, with retention applied.            *)
(***************************************************************************)
THEOREM StaysReadable == Spec => []RecordStaysReadable
<1>1. Records => RecordStaysReadable
  BY DEF Records, RecordSound, Sound, RecordStaysReadable
<1>. QED
  BY <1>1, RecordsInv, PTL

(***************************************************************************)
(* An attempt that does not know what became of an object never gives the      *)
(* record back, and nobody else does: only a teardown ends its reservation.    *)
(***************************************************************************)
THEOREM UnknownsBlock == Spec => []UnknownBlocks
<1>1. Records => UnknownBlocks
  BY DEF Records, Minding, Blocked, Unknown, Reserved, UnknownBlocks
<1>. QED
  BY <1>1, RecordsInv, PTL

(***************************************************************************)
(* A record that applyReleaseUpdate or finishReleaseCreate has given back       *)
(* describes the live Provider and Agent, unless somebody else touched them.   *)
(***************************************************************************)
THEOREM FreeRecordDescribes == Spec => []FreeRecordDescribesPair
<1>1. Records => FreeRecordDescribesPair
  BY DEF Records
<1>. QED
  BY <1>1, RecordsInv, PTL

(***************************************************************************)
(* A committed acknowledgment names a revision in the record's history, or a     *)
(* completed one that retention has dropped.                                 *)
(***************************************************************************)
THEOREM AcknowledgedRecorded == Spec => []AcknowledgedIsRecorded
<1>1. ASSUME Records, Reports PROVE AcknowledgedIsRecorded
  <2>. SUFFICES ASSUME NEW a \in Attempts, committed[a], record # None, record.uid = candidate[a].uid
                PROVE  LET h == record.state.history
                       IN  \/ \E i \in DOMAIN h : h[i].lift = a /\ h[i].objects = candidate[a].objects
                           \/ candidate[a].state = "ready" /\ Cardinality(Completed(h)) = MaxCompleted
    BY DEF AcknowledgedIsRecorded
  <2>1. /\ pc[a] \in Stopped /\ candidate[a].uid = seen[a].uid /\ candidate[a].objects = proof[a]
    BY <1>1 DEF Reports, Reporting, Successful
  <2>2. TakenOver(a, record.state.history)
    BY <1>1, <2>1 DEF Records, Minding, Taken, Acked
  <2>3. Verdict(a) = candidate[a].state
    BY <2>1 DEF Verdict, Stopped
  <2>. QED
    BY <2>1, <2>2, <2>3 DEF TakenOver
<1>. QED
  BY <1>1, RecordsInv, ReportingInv, PTL

\* What a step that gives a record back does to its data.
LEMMA GivingBack ==
  ASSUME IInv, Reports, Records, Next, NEW a \in Attempts,
         record # None, record.state.op = a, record' # None, record'.state.op = None
  PROVE  /\ PartialsOf(record.state) \subseteq PartialsOf(record'.state)
         /\ \/ before[a] # None /\ record'.state = before[a].state
            \/ /\ Latest(record'.state).lift = a
               /\ Latest(record'.state).before = record.state.baseline
               /\ record'.state.baseline = Latest(record'.state).objects
<1>1. TypeOK /\ a # None
  BY NoneAssumption DEF IInv
<1>2. record.state \in ReleaseStates /\ Sound(record.state)
  BY <1>1 DEF TypeOK, Snapshots, Records, RecordSound
<1>3. record.state.history \in Seq(Revisions) /\ Cardinality(Completed(record.state.history)) <= MaxCompleted
  BY <1>2, SoundSays
<1>4. PICK b \in Attempts : StepOf(b)
  <2>1. ~TearDown /\ \A k \in Kinds : ~StatusUpdate(k) /\ ~Interfere(k)
    BY <1>1 DEF TearDown, StatusUpdate, Interfere
  <2>. QED
    BY <2>1 DEF Next, StepOf
<1>5. PICK r \in InFlight(b) : Served(r)
  BY <1>1, <1>4, ByRequest
<1>6. r.target = "record" /\ b = a
  BY <1>1, <1>4, <1>5, Serving
<1>7. CASE /\ record'.state.history = record.state.history
           /\ before[a] # None /\ record'.state = before[a].state
  BY <1>7 DEF PartialsOf
<1>8. ASSUME NEW t \in Revisions, t.lift = a, t.before = record.state.baseline, t.objects = proof[a],
             record'.state.baseline = proof[a],
             record'.state.history = Roll(Append(record.state.history, t))
      PROVE  /\ PartialsOf(record.state) \subseteq PartialsOf(record'.state)
             /\ Latest(record'.state).lift = a
             /\ Latest(record'.state).before = record.state.baseline
             /\ record'.state.baseline = Latest(record'.state).objects
  <2>. DEFINE h == record.state.history
              g == Roll(Append(h, t))
  <2>1. g[Len(g)] = t
    BY <1>3, <1>8, RollAppended
  <2>2. Latest(record'.state) = t
    BY <1>8, <2>1 DEF Latest
  <2>3. ASSUME NEW i \in DOMAIN h, h[i].state = "partial"
        PROVE  \E j \in DOMAIN g : g[j] = h[i]
    <3>1. /\ Append(h, t) \in Seq(Revisions) /\ i \in DOMAIN Append(h, t) /\ Append(h, t)[i] = h[i]
      BY <1>3, <2>3, AppendProperties, LenProperties
    <3>. QED
      BY <2>3, <3>1, RollKeepsPartials
  <2>4. PartialsOf(record.state) \subseteq PartialsOf(record'.state)
    <3>1. ASSUME NEW p \in PartialsOf(record.state) PROVE p \in PartialsOf(record'.state)
      <4>1. PICK i \in DOMAIN h : h[i].state = "partial" /\ p = h[i]
        BY DEF PartialsOf
      <4>2. PICK j \in DOMAIN g : g[j] = p
        BY <2>3, <4>1
      <4>. HIDE DEF g
      <4>3. j \in DOMAIN record'.state.history /\ record'.state.history[j] = p /\ p.state = "partial"
        BY <1>8, <4>1, <4>2 DEF g
      <4>. QED
        BY <4>3 DEF PartialsOf
    <3>. QED
      BY <3>1
  <2>. QED
    BY <1>8, <2>2, <2>4
<1>9. Copies(a) /\ Followed(a)
  BY DEF Records, Minding, Reports, Reporting
<1>. QED
  BY <1>2, <1>5, <1>6, <1>7, <1>8, <1>9, Replaced

(***************************************************************************)
(* Giving the record back restores what the update found, or adds exactly the   *)
(* holder's own revision, and never drops a partial one.                      *)
(***************************************************************************)
THEOREM ReleasesRestoreOrRevise == Spec => ReleaseIsRestoreOrRevision
<1>. DEFINE Gives(a) ==
       (record # None /\ record.state.op = a /\ record' # None /\ record'.state.op = None)
         => /\ PartialsOf(record.state) \subseteq PartialsOf(record'.state)
            /\ \/ before[a] # None /\ record'.state = before[a].state
               \/ /\ Latest(record'.state).lift = a
                  /\ Latest(record'.state).before = record.state.baseline
                  /\ record'.state.baseline = Latest(record'.state).objects
<1>1. IInv /\ Reports /\ Records /\ [Next]_vars => [\A a \in Attempts : Gives(a)]_vars
  BY GivingBack
<1>. QED
  BY <1>1, Inductive, ReportingInv, RecordsInv, PTL DEF ReleaseIsRestoreOrRevision, Spec

-----------------------------------------------------------------------------
(* What has been reserved of the record's capacity *)

\* An update that holds the record has checked that whatever it may write will fit,
\* and an attempt knows only objects that the server has named.
Roomy(a) ==
  /\ mode[a] = "update" /\ (pc[a] = "reserving" \/ (seen[a] # None /\ seen[a].state.op = a)) =>
       reserveReleaseUpdateCapacity(Reservation(before[a].state, a))
  /\ \A k \in Kinds : proof[a][k] # None => proof[a][k].uid # None

\* A live object has an author.
LEMMA FingerprintNamed ==
  ASSUME NEW o \in Objects
  PROVE  releaseObjectFingerprint(o).uid # None
<1>1. o.uid \in Authors
  BY DEF Objects
<1>. QED
  BY <1>1, NoneAssumption DEF releaseObjectFingerprint, Authors

\* An update asks for its reservation only after it has checked the capacity for it.
LEMMA CapacityChecked ==
  ASSUME IInv, NEW a \in Attempts, StepOf(a), mode[a] = "update",
         pc[a] # "reserving", pc'[a] = "reserving"
  PROVE  reserveReleaseUpdateCapacity(Reservation(before[a].state, a))
<1>1. TypeOK /\ AttemptInv(a)
  BY DEF IInv
<1>2. CASE Reserve(a)
  <2>1. pc[a] = "prepared" /\ seen[a] = before[a]
    BY <1>1, <1>2 DEF Reserve, AttemptInv, Planned, Early
  <2>2. reserveReleaseUpdateCapacity(Reservation(seen[a].state, a))
    BY <1>1, <1>2 DEF Reserve, Goto, TypeOK
  <2>. QED
    BY <2>1, <2>2
<1>3. CASE Start(a)
  BY <1>1, <1>3 DEF Start, PlanLift, PlanUpdate, Confirm, VerifyNoop, Prepare, Refuse, Goto, TypeOK
<1>4. CASE Crash(a) \/ LoseMarker(a) \/ DeliverLate(a)
  BY <1>1, <1>4 DEF Crash, LoseMarker, DeliverLate, Goto, TypeOK
<1>5. CASE Answer(a) \/ GiveUp(a)
  BY <1>1, <1>5 DEF Answer, GiveUp, OnAccept, OnError, Goto, TypeOK, Waiting
<1>6. CASE \/ RefusePrepared(a) \/ CheckRow(a) \/ CheckpointFails(a) \/ BecomeReady(a)
           \/ LoopFails(a) \/ Finish(a) \/ Settle(a) \/ SettleFails(a) \/ Persist(a)
           \/ PersistFails(a) \/ PublishCandidate(a) \/ Commit(a) \/ AcknowledgeFails(a)
  BY <1>1, <1>6 DEF RefusePrepared, CheckRow, CheckpointFails, BecomeReady, LoopFails, Leave,
     Finish, Settle, SettleFails, Persist, PersistFails, PublishCandidate, Commit,
     AcknowledgeFails, Goto, TypeOK
<1>7. CASE Checkpoint(a)
  <2>1. Goto(a, "persisting") \/ Goto(a, "crediting") \/ Goto(a, "waiting")
    BY <1>7 DEF Checkpoint
  <2>. QED
    BY <1>1, <2>1 DEF Goto, TypeOK
<1>. QED
  BY <1>2, <1>3, <1>4, <1>5, <1>6, <1>7 DEF StepOf, Progress

\* The attempt's own steps keep what it has reserved.
LEMMA RoomyStep ==
  ASSUME IInv, IInv', NEW a \in Attempts, StepOf(a), RecordSound, Roomy(a)
  PROVE  Roomy(a)'
<1>1. TypeOK /\ AttemptInv(a) /\ a # None
  BY NoneAssumption DEF IInv
<1>2. ASSUME mode'[a] = "update", pc'[a] = "reserving" \/ (seen'[a] # None /\ seen'[a].state.op = a)
      PROVE  reserveReleaseUpdateCapacity(Reservation(before'[a].state, a))
  <2>1. CASE PlanUpdate(a)
    <3>1. pc'[a] = "planned" /\ seen'[a] = record /\ record.state.op = None
      BY <1>1, <2>1 DEF PlanUpdate, Eligible, Goto, TypeOK
    <3>. QED
      BY <1>1, <1>2, <3>1
  <2>2. CASE ~PlanUpdate(a)
    <3>1. mode[a] = "update" /\ before'[a] = before[a]
      BY <1>2, <2>2, PlannedOnce
    <3>2. CASE pc'[a] = "reserving" /\ pc[a] # "reserving"
      BY <3>1, <3>2, CapacityChecked
    <3>3. CASE pc[a] = "reserving" \/ (seen[a] # None /\ seen[a].state.op = a)
      BY <3>1, <3>3 DEF Roomy
    <3>4. CASE seen'[a] # seen[a]
      <4>1. sent[a].target = "record" /\ Answer(a)
        BY <2>2, <3>4, CopyChanges
      <4>2. pc[a] \in {"reserving", "crediting", "releasing"}
        BY <1>1, <4>1 DEF Answer, AttemptInv, Sending, Waiting, KindAt
      <4>3. pc[a] \in {"crediting", "releasing"} => Owns(a)
        BY <1>1, <3>1 DEF AttemptInv, Finalizing, Shared, Working
      <4>. QED
        BY <3>3, <4>2, <4>3 DEF Owns
    <3>. QED
      BY <1>2, <3>2, <3>3, <3>4
  <2>. QED
    BY <2>1, <2>2
<1>3. ASSUME NEW k \in Kinds, proof'[a][k] # None PROVE proof'[a][k].uid # None
  <2>1. CASE proof'[a] = proof[a]
    BY <1>3, <2>1 DEF Roomy
  <2>2. CASE PlanLift(a)
    <3>1. proof'[a][k] = IF Missing(k) THEN None ELSE releaseObjectFingerprint(live[k])
      BY <1>1, <2>2 DEF PlanLift, TypeOK
    <3>2. live[k] \in Objects /\ proof'[a][k] = releaseObjectFingerprint(live[k])
      BY <1>1, <1>3, <3>1 DEF Missing, TypeOK
    <3>. QED
      BY <3>2, FingerprintNamed
  <2>3. CASE PlanUpdate(a) /\ proof'[a] = record.state.baseline
    <3>1. record # None /\ record.state.baseline \in Pairs
      BY <1>1, <2>3, EligibleRecord DEF PlanUpdate
    <3>2. Acknowledged(record.state.baseline)
      BY <3>1, NoneAssumption DEF RecordSound, Sound, validReleaseState
    <3>. QED
      BY <2>3, <3>2 DEF Acknowledged
  <2>4. ASSUME sent[a] \in InFlight(a), Served(sent[a]), sent[a].target = KindAt(row[a]),
               proof'[a] = [proof[a] EXCEPT ![KindAt(row[a])] = releaseObjectFingerprint(sent[a].to)]
        PROVE  proof'[a][k].uid # None
    <3>1. sent[a].target # "record"
      BY <2>4 DEF KindAt
    <3>2. sent[a].to \in Objects
      BY <2>4, <3>1, Serving
    <3>3. proof[a] \in [Kinds -> Fingerprints \cup {None}]
      BY <1>1 DEF TypeOK
    <3>4. k # KindAt(row[a]) => proof'[a][k] = proof[a][k]
      BY <2>4, <3>3
    <3>5. k = KindAt(row[a]) => proof'[a][k] = releaseObjectFingerprint(sent[a].to)
      BY <2>4, <3>3
    <3>6. k = KindAt(row[a]) => proof'[a][k].uid # None
      BY <3>2, <3>5, FingerprintNamed
    <3>. QED
      BY <1>3, <3>4, <3>6 DEF Roomy
  <2>. QED
    BY <2>1, <2>2, <2>3, <2>4, ProofChanges
<1>. QED
  BY <1>2, <1>3 DEF Roomy

\* What every update has reserved stays reserved.
LEMMA RoomyInv == Spec => [](\A a \in Attempts : Roomy(a))
<1>. DEFINE Room == \A a \in Attempts : Roomy(a)
<1>1. Init => Room
  BY DEF Init, Roomy
<1>2. ASSUME IInv, IInv', RecordSound, [Next]_vars, Room
      PROVE  Room'
  <2>. SUFFICES ASSUME NEW b \in Attempts PROVE Roomy(b)'
    OBVIOUS
  <2>1. Untouched(b) => Roomy(b)'
    BY <1>2 DEF Untouched, Roomy
  <2>2. CASE UNCHANGED vars
    BY <2>1, <2>2 DEF vars, Untouched
  <2>3. ASSUME NEW a \in Attempts, StepOf(a) PROVE Roomy(b)'
    <3>1. CASE b = a
      BY <1>2, <2>3, <3>1, RoomyStep
    <3>2. CASE b # a
      BY <1>2, <2>1, <2>3, <3>2, OthersStill DEF Still
    <3>. QED
      BY <3>1, <3>2
  <2>4. CASE TearDown \/ \E k \in Kinds : StatusUpdate(k) \/ Interfere(k)
    BY <1>2, <2>1, <2>4, EnvironmentSigns
  <2>. QED
    BY <1>2, <2>2, <2>3, <2>4 DEF Next, StepOf
<1>3. Records => RecordSound
  BY DEF Records
<1>. QED
  BY <1>1, <1>2, <1>3, Inductive, RecordsInv, PTL DEF Spec

\* Whatever an update makes of the record that it has found fits into it.
UpdatedFrom(a) ==
  LET s == before[a].state
  IN  /\ Fits(s)
      /\ \A r \in ReleaseStates : Reserves(r, s) =>
           /\ Fits(r)
           /\ \A objects \in Pairs, verdict \in {"completed", "partial"} :
                Acknowledged(objects) => Fits(Terminal(r, objects, verdict))

\* An update that owns the record has room for that.
LEMMA UpdateRoom ==
  ASSUME IInv, NEW a \in Attempts, Copies(a), Roomy(a), before[a] # None,
         seen[a] # None, seen[a].state.op = a
  PROVE  UpdatedFrom(a)
<1>1. TypeOK /\ AttemptInv(a)
  BY DEF IInv
<1>2. mode[a] = "update"
  BY DEF Copies, Shared
<1>. PICK s \in ReleaseStates : s = before[a].state
  BY <1>1 DEF TypeOK, Snapshots
<1>3. Sound(s) /\ s.op = None
  BY <1>1, <1>2 DEF AttemptInv, Planned, Copies
<1>4. /\ s.pending = None /\ s.baseline \in Pairs
      /\ Cardinality(Completed(s.history)) <= MaxCompleted
  BY <1>3, SoundSays
<1>5. Acknowledged(s.baseline)
  BY <1>3, <1>4, NoneAssumption DEF Sound, validReleaseState
<1>6. reserveReleaseUpdateCapacity(Reservation(s, a))
  BY <1>2 DEF Roomy
<1>. QED
  BY <1>4, <1>5, <1>6, UpdateFits DEF UpdatedFrom

\* What writeReleaseState would refuse is none of what an attempt asks for.
LEMMA CreditAllowed ==
  ASSUME IInv, NEW a \in Attempts, Copies(a), Roomy(a), pc[a] = "recording", Shared(a),
         outcome[a][KindAt(row[a])] # "unknown"
  PROVE  MayWrite(seen[a].state, Credit(seen[a].state, KindAt(row[a]), proof[a][KindAt(row[a])]), a)
<1>1. TypeOK /\ AttemptInv(a) /\ a # None
  BY NoneAssumption DEF IInv
<1>2. Owns(a) /\ proof[a][KindAt(row[a])] # None
  BY <1>1 DEF AttemptInv, Rows, Finalizing, Working
<1>3. KindAt(row[a]) \in Kinds /\ proof[a][KindAt(row[a])] \in Fingerprints
  BY <1>1, <1>2 DEF KindAt, Kinds, TypeOK
<1>. PICK k \in Kinds, fp \in Fingerprints : k = KindAt(row[a]) /\ fp = proof[a][KindAt(row[a])]
  BY <1>3
<1>. PICK s : s = seen[a].state
  OBVIOUS
<1>4. /\ s \in ReleaseStates /\ s.op = a /\ s.pending # None
      /\ Sound(s) /\ ReservationOf(a, before[a], s)
  BY <1>1, <1>2 DEF TypeOK, Snapshots, Owns, Copies
<1>. PICK c : c = Credit(s, k, fp)
  OBVIOUS
<1>5. /\ c \in ReleaseStates /\ c.op = a /\ c.pending # None /\ c.origin = s.origin
      /\ c.baseline = s.baseline /\ c.history = s.history /\ c.pending.before = s.pending.before
  <2>1. c \in ReleaseStates /\ c.op = s.op /\ c.pending # None
    BY <1>4, CreditType
  <2>2. c.origin = s.origin /\ c.baseline = s.baseline /\ c.history = s.history
    BY <1>4, CreditSays
  <2>3. c.pending.before = s.pending.before
    BY <1>4, CreditSays
  <2>. QED
    BY <1>4, <2>1, <2>2, <2>3
<1>6. validReleaseState(c)
  BY <1>4, CreditValid DEF Sound
<1>7. Fits(c)
  <2>1. CASE before[a] = None
    <3>1. c.baseline = None /\ c.history = << >> /\ c.pending.before = None
      BY <1>4, <1>5, <2>1 DEF ReservationOf
    <3>. QED
      BY <1>5, <3>1, CreateFits
  <2>2. CASE before[a] # None
    <3>1. UpdatedFrom(a)
      BY <1>2, <2>2, UpdateRoom DEF Owns
    <3>2. Reserves(c, before[a].state)
      BY <1>4, <1>5, <2>2 DEF ReservationOf, Reserves
    <3>. QED
      BY <1>5, <3>1, <3>2 DEF UpdatedFrom
  <2>. QED
    BY <2>1, <2>2
<1>8. MayWrite(s, c, a)
  BY <1>4, <1>5, <1>6, <1>7 DEF MayWrite
<1>. QED
  BY <1>8

\* Neither is what it gives back.
LEMMA ReleaseAllowed ==
  ASSUME IInv, NEW a \in Attempts, Copies(a), Credited(a), Roomy(a), pc[a] = "persisting", MayRelease(a)
  PROVE  MayWrite(seen[a].state, Released(a), a)
<1>1. TypeOK /\ AttemptInv(a) /\ a # None
  BY NoneAssumption DEF IInv
<1>2. Owns(a) /\ Shared(a) /\ proof[a] \in Pairs
  BY <1>1 DEF AttemptInv, Planned, Rows, Finalizing, MayRelease, Shared
<1>3. Acknowledged(proof[a])
  BY <1>2, NoneAssumption DEF Roomy, Acknowledged, Pairs
<1>. PICK s : s = seen[a].state
  OBVIOUS
<1>. PICK objects \in Pairs : objects = proof[a]
  BY <1>2
<1>4. /\ s \in ReleaseStates /\ s.op = a /\ s.pending # None
      /\ Sound(s) /\ ReservationOf(a, before[a], s)
  BY <1>1, <1>2 DEF TypeOK, Snapshots, Owns, Copies
<1>5. ASSUME NEW v \in {"completed", "partial"} PROVE MayWrite(s, Terminal(s, objects, v), a)
  <2>. PICK t : t = Terminal(s, objects, v)
    OBVIOUS
  <2>1. t.op = None /\ t.origin = s.origin
    BY <1>4, TerminalType, TerminalSays
  <2>2. validReleaseState(t)
    BY <1>3, <1>4, TerminalValid DEF Sound
  <2>3. Fits(t)
    <3>1. CASE before[a] = None
      <4>1. s.baseline = None /\ s.history = << >> /\ s.pending.before = None
        BY <1>4, <3>1 DEF ReservationOf
      <4>. QED
        BY <1>3, <1>4, <4>1, CreateFits
    <3>2. CASE before[a] # None
      <4>1. UpdatedFrom(a)
        BY <1>2, <3>2, UpdateRoom DEF Owns
      <4>2. Reserves(s, before[a].state)
        BY <1>4, <3>2 DEF ReservationOf, Reserves
      <4>. QED
        BY <1>3, <1>4, <4>1, <4>2 DEF UpdatedFrom
    <3>. QED
      BY <3>1, <3>2
  <2>4. MayWrite(s, t, a)
    BY <1>4, <2>1, <2>2, <2>3 DEF MayWrite
  <2>. QED
    BY <2>4
<1>6. CASE mode[a] = "update" /\ Changed(a)
  <2>1. Released(a) = Terminal(s, objects, IF result[a] = "ready" THEN "completed" ELSE "partial")
    BY <1>6 DEF Released
  <2>. QED
    BY <1>5, <2>1
<1>7. CASE mode[a] = "update" /\ ~Changed(a)
  <2>1. /\ Released(a) = before[a].state /\ before[a] # None /\ before[a].state.op = None
        /\ Sound(before[a].state)
    BY <1>1, <1>7 DEF Released, AttemptInv, Planned, Copies
  <2>2. UpdatedFrom(a)
    BY <1>2, <2>1, UpdateRoom DEF Owns
  <2>3. s.origin = before[a].state.origin
    BY <1>4, <2>1 DEF ReservationOf
  <2>. QED
    BY <1>4, <2>1, <2>2, <2>3 DEF MayWrite, UpdatedFrom, Sound
<1>8. CASE mode[a] = "fresh"
  <2>1. result[a] = "ready" /\ Released(a) = Terminal(s, s.pending.objects, "completed")
    BY <1>8 DEF Released, MayRelease
  <2>2. s.pending.objects \in Pairs
    BY <1>4 DEF ReleaseStates, Revisions
  <2>3. \A k \in Kinds : s.pending.objects[k] = objects[k]
    <3>1. CreditedTo(s, objects, 2)
      BY <1>8, <2>1 DEF Credited
    <3>2. KindAt(1) = "Provider" /\ KindAt(2) = "Agent"
      BY DEF KindAt
    <3>. QED
      BY <3>1, <3>2 DEF CreditedTo, Kinds
  <2>4. s.pending.objects = objects
    BY <2>2, <2>3 DEF Pairs
  <2>. QED
    BY <1>5, <2>1, <2>4
<1>. QED
  BY <1>2, <1>6, <1>7, <1>8 DEF Shared

(***************************************************************************)
(* reserveReleaseUpdateCapacity sizes the record of an update before its first  *)
(* object write, and that of a first deploy is bounded: checkpointReleaseCreate, *)
(* finishReleaseCreate and the update's finalizer are never refused by           *)
(* writeReleaseState itself, neither for size nor for what they write.            *)
(***************************************************************************)
THEOREM CapacityIsReserved == Spec => []ReleaseFits
<1>1. IInv /\ Records /\ (\A a \in Attempts : Roomy(a)) => ReleaseFits
  BY CreditAllowed, ReleaseAllowed DEF Records, Minding, ReleaseFits
<1>. QED
  BY <1>1, Inductive, RecordsInv, RoomyInv, PTL
-----------------------------------------------------------------------------
(* What is reported of the record *)

\* An attempt that says neither "pending" nor "unknown".
Settled(a) == observed[a] \notin {"pending", "unknown"}

\* Nothing of an attempt is at the record, nor on its way there.
Gone(a) == InFlight(a) = {} /\ ~Reserved(a)

\* An attempt keeps its reservation, as long as there is a record.
Kept(a) ==
  /\ seen[a] # None /\ seen[a].state.op = a
  /\ \A r \in InFlight(a) : r.target = "record" => r.to.state.op = a
  /\ record # None /\ record.uid = seen[a].uid => Reserved(a)

Declared(a) ==
  /\ pc[a] \in Early => observed[a] = "none"
  /\ pc[a] = "reserving" => observed[a] = "unknown"
  /\ ~Shared(a) => observed[a] = "none"
  /\ Shared(a) =>
       /\ Settled(a) =>
            /\ Gone(a) /\ pc[a] \in Early \cup {"persisting"} \cup Stopped
            /\ pc[a] = "persisting" => ~MayRelease(a)
       /\ pc[a] \in {"acking", "linking"} => Gone(a)
       /\ observed[a] = "pending" /\ pc[a] \notin {"releasing", "acking", "linking", "crashed"} =>
            Kept(a)

\* Only the request that gives the reservation back ends it.
LEMMA KeptStep ==
  ASSUME IInv, NEW a \in Attempts, StepOf(a), Kept(a), pc'[a] # "releasing"
  PROVE  Kept(a)'
<1>1. TypeOK /\ AttemptInv(a)
  BY DEF IInv
<1>2. ASSUME sent[a] \in InFlight(a), Served(sent[a]), sent[a].target = "record",
             seen'[a] = sent[a].to, InFlight(a)' = {}
      PROVE  Kept(a)'
  <2>1. record' = sent[a].to /\ record' # None /\ sent[a].to.state.op = a
    BY <1>2, Serving DEF Kept
  <2>. QED
    BY <1>2, <2>1 DEF Kept, Reserved
<1>3. CASE seen'[a] = seen[a]
  <2>1. ASSUME NEW r \in InFlight(a)', r.target = "record"
        PROVE  r.to.state.op = a
    <3>1. CASE r \in InFlight(a)
      BY <2>1, <3>1 DEF Kept
    <3>2. CASE r \notin InFlight(a)
      <4>1. Asks(a, r.to.state) /\ (pc[a] = "persisting" => pc'[a] = "releasing")
        BY <2>1, <3>2, Asked
      <4>2. PICK s : s = r.to.state
        OBVIOUS
      <4>3. s = releaseCreateIntent(a) => s.op = a
        BY DEF releaseCreateIntent
      <4>4. s = Reservation(seen[a].state, a) => s.op = a
        <5>1. seen[a].state \in ReleaseStates
          BY <1>1 DEF Kept, TypeOK, Snapshots
        <5>. QED
          BY <5>1 DEF Reservation, ReleaseStates
      <4>5. ASSUME pc[a] = "recording", Owns(a), proof[a][KindAt(row[a])] # None,
                   s = Credit(seen[a].state, KindAt(row[a]), proof[a][KindAt(row[a])])
            PROVE  s.op = a
        <5>1. KindAt(row[a]) \in Kinds /\ proof[a][KindAt(row[a])] \in Fingerprints
          BY <1>1, <4>5 DEF KindAt, Kinds, TypeOK
        <5>2. /\ seen[a].state \in ReleaseStates /\ seen[a].state.pending # None
              /\ seen[a].state.op = a
          BY <1>1, <4>5 DEF Owns, TypeOK, Snapshots
        <5>. QED
          BY <4>5, <5>1, <5>2, CreditType
      <4>. QED
        BY <4>1, <4>2, <4>3, <4>4, <4>5 DEF Asks
    <3>. QED
      BY <3>1, <3>2
  <2>2. record' # None /\ record'.uid = seen[a].uid => Reserved(a)'
    <3>1. CASE record' = record
      BY <3>1 DEF Kept, Reserved
    <3>2. ASSUME NEW r \in InFlight(a), Served(r)
          PROVE  record' = record \/ Reserved(a)'
      <4>1. r.target = "record" => record' = r.to /\ record' # None /\ r.to.state.op = a
        BY <3>2, Serving DEF Kept
      <4>2. r.target # "record" => record' = record
        BY <3>2, Serving
      <4>. QED
        BY <4>1, <4>2 DEF Reserved
    <3>. QED
      BY <3>1, <3>2, ByRequest
  <2>. QED
    BY <1>3, <2>1, <2>2 DEF Kept
<1>4. CASE seen[a] = None
  BY <1>4 DEF Kept
<1>. QED
  BY <1>2, <1>3, <1>4, CopyChanges

\* An attempt with nothing on its way changes no record.
LEMMA GoneStep ==
  ASSUME IInv, NEW a \in Attempts, StepOf(a), Gone(a), InFlight(a)' = {}
  PROVE  Gone(a)'
  BY ByRequest DEF Gone, Reserved

\* No step changes what another attempt reports.
LEMMA ReportElsewhere ==
  ASSUME IInv, NEW a \in Attempts, NEW b \in Attempts \ {a}, StepOf(a)
  PROVE  observed'[b] = observed[b]
<1>1. TypeOK
  BY DEF IInv
<1>2. CASE Start(a) \/ DeliverLate(a) \/ Crash(a) \/ LoseMarker(a)
  BY <1>1, <1>2 DEF Start, PlanLift, PlanUpdate, Confirm, VerifyNoop, Prepare, Refuse,
              DeliverLate, Crash, LoseMarker, memory, TypeOK
<1>3. CASE Progress(a)
  BY <1>1, <1>3 DEF Progress, Reserve, RefusePrepared, CheckRow, Checkpoint, CheckpointFails,
              BecomeReady, LoopFails, Finish, Settle, SettleFails, Persist, PersistFails,
              PublishCandidate, Commit, AcknowledgeFails, Answer, GiveUp, OnAccept, OnError, Waiting,
              memory, TypeOK
<1>. QED
  BY <1>2, <1>3 DEF StepOf

\* The last revision of a record that can be read has ended.
LEMMA LatestEnded ==
  ASSUME NEW s \in ReleaseStates, Sound(s), s.history # << >>
  PROVE  Latest(s).state # "pending"
<1>. PICK h \in Seq(Revisions) : h = s.history
  BY DEF ReleaseStates
<1>1. Len(h) \in DOMAIN h
  OBVIOUS
<1>. QED
  BY <1>1 DEF Sound, validReleaseState, Latest

\* An attempt's own steps: it announces its reservation before it asks for it, and
\* withdraws what it says only with the answer to its release.
LEMMA DeclaredStep ==
  ASSUME IInv, IInv', NEW a \in Attempts, StepOf(a), Copies(a), Copies(a)', Taken(a), Declared(a)
  PROVE  Declared(a)'
<1>1. TypeOK /\ TypeOK' /\ AttemptInv(a) /\ AttemptInv(a)'
  BY DEF IInv
\* What is unknown promises nothing.
<1>2. ASSUME observed'[a] = "unknown", Shared(a), mode'[a] = mode[a],
             pc'[a] \notin Early \cup {"acking", "linking"}
      PROVE  Declared(a)'
  BY <1>2 DEF Declared, Settled, Shared
\* The steps that report nothing and keep what they have said.
<1>3. ASSUME observed'[a] = observed[a], mode'[a] = mode[a],
             pc[a] \in Working, pc'[a] \in Working \cup {"persisting", "done", "crashed"},
             Shared(a) => Shared(a)'
      PROVE  Declared(a)'
  <2>1. Shared(a)' => Shared(a)
    BY <1>3 DEF Shared
  <2>2. pc'[a] \notin Early \cup {"reserving", "releasing", "acking", "linking"}
    BY <1>3 DEF Working, Early
  <2>3. Shared(a) => ~Settled(a) /\ (observed[a] = "pending" => Kept(a))
    BY <1>3 DEF Declared, Working, Early, Stopped
  <2>4. Shared(a) /\ observed[a] = "pending" => Kept(a)'
    BY <2>2, <2>3, KeptStep
  <2>. QED
    BY <1>3, <2>1, <2>2, <2>3, <2>4 DEF Declared, Settled
\* An answer that does not come leaves the attempt with what it had said.
<1>4. ASSUME OnError(a), pc[a] \in Waiting, mode' = mode
      PROVE  Declared(a)'
  <2>1. CASE pc[a] = "reserving"
    <3>1. observed'[a] = "unknown" /\ pc'[a] = "persisting" /\ Shared(a)
      BY <1>1, <1>4, <2>1 DEF OnError, Goto, TypeOK, Declared, AttemptInv, Finalizing
    <3>. QED
      BY <1>2, <1>4, <3>1 DEF Early
  <2>2. CASE pc[a] \in {"writing", "crediting"}
    <3>1. observed' = observed /\ pc'[a] \in {"recording", "persisting"}
      BY <1>1, <1>4, <2>2 DEF OnError, Goto, TypeOK
    <3>. QED
      BY <1>4, <1>3, <2>2, <3>1 DEF Working, Shared
  <2>3. CASE pc[a] = "releasing"
    <3>1. observed'[a] = "unknown" /\ pc'[a] = "done" /\ Shared(a)
      BY <1>1, <1>4, <2>3 DEF OnError, Goto, TypeOK, AttemptInv, Finalizing
    <3>. QED
      BY <1>2, <1>4, <3>1 DEF Early
  <2>. QED
    BY <1>4, <2>1, <2>2, <2>3 DEF Waiting
<1>5. CASE Start(a)
  <2>1. /\ pc[a] \in {"idle", "planned", "confirmed"} /\ observed' = observed /\ sent' = sent /\ late' = late
        /\ pc'[a] \in Early \cup {"done", "checking"}
        /\ pc'[a] = "checking" => mode'[a] = "reuse"
    BY <1>1, <1>5 DEF Start, PlanLift, PlanUpdate, Confirm, VerifyNoop, Prepare, Refuse, Goto, TypeOK,
       memory, cluster, Early
  <2>2. InFlight(a) = {} /\ InFlight(a)' = {} /\ ~Reserved(a) /\ observed[a] = "none"
    BY <1>1, <2>1 DEF AttemptInv, Sending, Named, Waiting, Stopped, InFlight, Declared, Early
  <2>3. Gone(a)'
    BY <2>2, GoneStep DEF Gone
  <2>4. pc'[a] \in Early \cup {"done"} \/ ~Shared(a)'
    BY <2>1 DEF Shared
  <2>. QED
    BY <2>1, <2>2, <2>3, <2>4 DEF Declared, Early, Stopped
<1>6. CASE Reserve(a)
  <2>1. /\ pc[a] = "prepared" /\ mode' = mode
        /\ \/ pc'[a] = "reserving" /\ observed'[a] = "unknown" /\ mode[a] # "mixed"
           \/ pc'[a] = "checking" /\ mode'[a] = "mixed" /\ observed' = observed
    BY <1>1, <1>6 DEF Reserve, Goto, TypeOK
  <2>2. pc'[a] = "reserving" => Declared(a)'
    <3>1. mode[a] \in {"fresh", "mixed", "update"}
      BY <1>1, <2>1 DEF AttemptInv, Planned
    <3>. QED
      BY <1>2, <2>1, <3>1 DEF Early, Shared
  <2>3. pc'[a] = "checking" => Declared(a)'
    BY <2>1 DEF Declared, Shared, Early
  <2>. QED
    BY <2>1, <2>2, <2>3
<1>7. CASE RefusePrepared(a)
  <2>1. /\ pc[a] = "prepared" /\ pc'[a] = "persisting" /\ UNCHANGED memory
        /\ sent' = sent /\ late' = late
    BY <1>1, <1>7 DEF RefusePrepared, Goto, TypeOK, cluster
  <2>2. /\ InFlight(a) = {} /\ InFlight(a)' = {} /\ ~Reserved(a) /\ observed'[a] = "none"
        /\ result'[a] = "not-applied" /\ ~known'[a]
    BY <1>1, <2>1 DEF AttemptInv, Sending, Named, Rows, Finalizing, Waiting, Stopped, InFlight,
       Declared, Early, Ending, memory
  <2>3. Gone(a)' /\ ~MayRelease(a)'
    BY <2>2, GoneStep DEF Gone, MayRelease
  <2>. QED
    BY <2>1, <2>2, <2>3 DEF Declared, Early, Stopped
<1>8. CASE CheckRow(a) \/ Checkpoint(a) \/ CheckpointFails(a) \/ BecomeReady(a) \/ LoopFails(a)
           \/ Finish(a) \/ Settle(a)
  <2>1. observed' = observed /\ mode' = mode
    BY <1>8 DEF CheckRow, Checkpoint, CheckpointFails, BecomeReady, LoopFails, Finish, Settle, memory
  <2>2. pc[a] \in Working /\ pc'[a] \in Working \cup {"persisting", "done"}
    BY <1>1, <1>8 DEF CheckRow, Checkpoint, CheckpointFails, BecomeReady, LoopFails, Finish, Settle,
       Leave, Goto, TypeOK, Working
  <2>. QED
    BY <1>3, <2>1, <2>2 DEF Shared
<1>9. CASE SettleFails(a) \/ AcknowledgeFails(a)
  <2>1. /\ observed'[a] = "unknown" /\ pc'[a] \in {"persisting", "done"} /\ mode' = mode
        /\ pc[a] \in {"settling", "acking", "linking"}
    BY <1>1, <1>9 DEF SettleFails, AcknowledgeFails, Goto, TypeOK
  <2>2. Shared(a)
    BY <1>1, <2>1 DEF AttemptInv, Finalizing, Shared
  <2>. QED
    BY <1>2, <2>1, <2>2 DEF Early
<1>10. CASE Persist(a) \/ PersistFails(a)
  <2>1. /\ pc[a] = "persisting" /\ mode' = mode /\ late' = late
        /\ \/ observed'[a] = "unknown" /\ pc'[a] = "done" /\ MayRelease(a)
           \/ observed'[a] = observed[a] /\ pc'[a] = "done" /\ sent' = sent
           \/ observed'[a] = observed[a] /\ pc'[a] = "releasing" /\ MayRelease(a)
    BY <1>1, <1>10 DEF Persist, PersistFails, Goto, TypeOK, cluster
  <2>2. CASE observed'[a] = "unknown" /\ pc'[a] = "done" /\ MayRelease(a)
    BY <1>2, <2>1, <2>2 DEF Early, MayRelease, Shared
  <2>3. CASE observed'[a] = observed[a] /\ pc'[a] = "done" /\ sent' = sent
    <3>1. InFlight(a)' = InFlight(a) /\ (Shared(a)' <=> Shared(a))
      BY <2>1, <2>3 DEF InFlight, Shared
    <3>2. Shared(a) /\ Settled(a) => Gone(a)'
      BY <3>1, GoneStep DEF Declared, Gone
    <3>3. Shared(a) /\ observed[a] = "pending" => Kept(a)'
      BY <2>1, <2>3, KeptStep DEF Declared
    <3>. QED
      BY <2>3, <3>1, <3>2, <3>3 DEF Declared, Settled, Early, Stopped
  <2>4. CASE observed'[a] = observed[a] /\ pc'[a] = "releasing" /\ MayRelease(a)
    <3>1. Shared(a) /\ ~Settled(a)
      BY <2>1, <2>4 DEF Declared, MayRelease, Shared
    <3>. QED
      BY <2>1, <2>4, <3>1 DEF Declared, Settled, Shared, Early
  <2>. QED
    BY <2>1, <2>2, <2>3, <2>4
<1>11. CASE PublishCandidate(a) \/ Commit(a)
  <2>1. /\ pc[a] \in {"acking", "linking"} /\ sent' = sent /\ late' = late /\ mode' = mode
        /\ pc'[a] \in {"linking", "done"}
    BY <1>1, <1>11 DEF PublishCandidate, Commit, Goto, TypeOK, cluster, memory
  <2>2. Shared(a) /\ Gone(a) /\ Gone(a)'
    <3>1. Shared(a) /\ Gone(a)
      BY <1>1, <2>1 DEF AttemptInv, Finalizing, Declared
    <3>2. InFlight(a)' = InFlight(a)
      BY <2>1 DEF InFlight
    <3>. QED
      BY <3>1, <3>2, GoneStep DEF Gone
  <2>3. CASE PublishCandidate(a)
    <3>1. observed' = observed /\ pc'[a] = "linking" /\ pc[a] = "acking"
      BY <1>1, <2>3 DEF PublishCandidate, Goto, TypeOK, memory
    <3>2. ~Settled(a)
      BY <2>2, <3>1 DEF Declared, Early, Stopped
    <3>. QED
      BY <2>1, <2>2, <3>1, <3>2 DEF Declared, Settled, Shared, Early
  <2>4. CASE Commit(a)
    <3>1. /\ pc'[a] = "done"
          /\ observed'[a] = IF mode[a] = "fresh" THEN "ready" ELSE Latest(seen[a].state).state
      BY <1>1, <2>4 DEF Commit, Goto, TypeOK
    <3>2. observed'[a] # "pending"
      <4>1. Sound(seen[a].state) /\ seen[a].state \in ReleaseStates /\ seen[a].state.history # << >>
        BY <1>1, <2>1 DEF AttemptInv, Finalizing, Copies, TypeOK, Snapshots
      <4>. QED
        BY <3>1, <4>1, LatestEnded
    <3>. QED
      BY <2>1, <2>2, <3>1, <3>2 DEF Declared, Settled, Shared, Early, Stopped
  <2>. QED
    BY <1>11, <2>3, <2>4
<1>12. CASE DeliverLate(a)
  <2>1. late[a] # {} /\ UNCHANGED <<pc, memory>>
    BY <1>12 DEF DeliverLate
  <2>2. pc[a] \in {"recording", "persisting"} \cup Stopped
    BY <1>1, <2>1 DEF AttemptInv, Sending
  <2>3. Shared(a) => ~Settled(a) /\ (observed[a] = "pending" /\ pc[a] # "crashed" => Kept(a)')
    <3>1. InFlight(a) # {}
      BY <2>1 DEF InFlight
    <3>2. pc'[a] # "releasing"
      BY <2>1, <2>2 DEF Stopped
    <3>. QED
      BY <2>2, <3>1, <3>2, KeptStep DEF Declared, Gone, Stopped
  <2>4. observed' = observed /\ mode' = mode /\ pc' = pc
    BY <2>1 DEF memory
  <2>. QED
    BY <2>2, <2>3, <2>4 DEF Declared, Settled, Shared, Early, Stopped
<1>13. CASE Crash(a) \/ LoseMarker(a)
  <2>1. /\ UNCHANGED memory /\ InFlight(a)' = InFlight(a)
        /\ \/ pc'[a] = "crashed"
           \/ pc'[a] = pc[a] /\ pc[a] \in Stopped
    BY <1>1, <1>13 DEF Crash, LoseMarker, Abandon, Goto, TypeOK, InFlight
  <2>2. (Shared(a)' <=> Shared(a)) /\ observed' = observed
    BY <2>1 DEF Shared, memory
  <2>3. Shared(a) /\ Settled(a) => Gone(a)'
    BY <2>1, GoneStep DEF Declared, Gone
  <2>4. Shared(a) /\ observed[a] = "pending" /\ pc'[a] # "crashed" => Kept(a)'
    BY <2>1, KeptStep DEF Declared, Stopped
  <2>. QED
    BY <2>1, <2>2, <2>3, <2>4 DEF Declared, Settled, Early, Stopped
<1>14. CASE GiveUp(a)
  <2>1. pc[a] \in Waiting /\ OnError(a) /\ mode' = mode /\ InFlight(a)' = InFlight(a)
    BY <1>1, <1>14 DEF GiveUp, Abandon, TypeOK, InFlight
  <2>. QED
    BY <1>4, <2>1
<1>15. CASE Answer(a)
  <2>1. pc[a] \in Waiting /\ mode' = mode
    BY <1>15 DEF Answer
  <2>2. CASE ~Accepts(sent[a])
    <3>1. OnError(a)
      BY <1>15, <2>2 DEF Answer
    <3>. QED
      BY <1>4, <2>1, <3>1
  <2>3. CASE Accepts(sent[a])
    <3>1. OnAccept(a) /\ Served(sent[a]) /\ sent[a] \in InFlight(a) /\ InFlight(a)' = {}
          /\ result' = result /\ before' = before
      <4>1. late[a] = {} /\ late' = late /\ sent'[a] = None /\ sent[a] # None
        BY <1>1, <1>15, <2>1 DEF Answer, AttemptInv, Sending, Waiting, Stopped, TypeOK
      <4>. QED
        BY <1>15, <2>3, <4>1 DEF Answer, Served, InFlight
    <3>2. CASE pc[a] = "reserving"
      <4>1. /\ sent[a].target = "record" /\ sent[a].to.state.op = a
            /\ seen'[a] = sent[a].to /\ observed'[a] = "pending" /\ pc'[a] = "checking"
        BY <1>1, <3>1, <3>2 DEF AttemptInv, Sending, OnAccept, Goto, TypeOK
      <4>2. record' = sent[a].to /\ record' # None
        BY <3>1, <4>1, Serving
      <4>3. Kept(a)'
        BY <3>1, <4>1, <4>2 DEF Kept, Reserved
      <4>4. Shared(a)
        BY <1>1, <3>2 DEF AttemptInv, Finalizing
      <4>. QED
        BY <2>1, <4>1, <4>3, <4>4 DEF Declared, Settled, Shared, Early
    <3>3. CASE pc[a] \in {"writing", "crediting"}
      <4>1. observed' = observed /\ pc'[a] \in {"recording", "waiting"}
        BY <1>1, <3>1, <3>3 DEF OnAccept, Goto, TypeOK
      <4>. QED
        BY <1>3, <2>1, <3>3, <4>1 DEF Working, Shared
    <3>4. CASE pc[a] = "releasing"
      <4>1. /\ sent[a].target = "record" /\ sent[a].to.state.op = None
            /\ pc'[a] \in {"done", "acking"} /\ seen' = [seen EXCEPT ![a] = sent[a].to]
            /\ pc'[a] = "done" => /\ mode[a] = "update"
                                  /\ observed'[a] = Latest(before[a].state).state
            /\ pc'[a] = "acking" => observed' = observed
        BY <1>1, <3>1, <3>4 DEF AttemptInv, Sending, Taken, OnAccept, Goto, TypeOK
      <4>2. record' = sent[a].to /\ a # None
        BY <3>1, <4>1, Serving, NoneAssumption
      <4>3. Gone(a)'
        BY <3>1, <4>1, <4>2 DEF Gone, Reserved
      <4>4. pc'[a] = "done" => observed'[a] # "pending"
        <5>. SUFFICES ASSUME pc'[a] = "done" PROVE observed'[a] # "pending"
          OBVIOUS
        <5>1. Sound(before[a].state) /\ before[a].state \in ReleaseStates /\ before[a].state.history # << >>
          BY <1>1, <4>1 DEF AttemptInv, Planned, Copies, TypeOK, Snapshots
        <5>. QED
          BY <4>1, <5>1, LatestEnded
      <4>5. pc'[a] = "acking" => ~Settled(a)'
        <5>1. Shared(a) /\ ~Settled(a)
          BY <1>1, <3>4 DEF AttemptInv, Finalizing, Declared, Early, Stopped
        <5>. QED
          BY <4>1, <5>1 DEF Settled
      <4>6. Shared(a)
        BY <1>1, <3>4 DEF AttemptInv, Finalizing
      <4>. QED
        BY <2>1, <4>1, <4>3, <4>4, <4>5, <4>6 DEF Declared, Settled, Shared, Early, Stopped
    <3>. QED
      BY <2>1, <3>2, <3>3, <3>4 DEF Waiting
  <2>. QED
    BY <2>2, <2>3
<1>. QED
  BY <1>5, <1>6, <1>7, <1>8, <1>9, <1>10, <1>11, <1>12, <1>13, <1>14, <1>15 DEF StepOf, Progress

\* The steps of the others.
LEMMA DeclaredElsewhere ==
  ASSUME IInv, NEW a \in Attempts, NEW b \in Attempts \ {a}, StepOf(b), Unborn(b), Declared(a)
  PROVE  Declared(a)'
<1>1. Still(a) /\ Untouched(a) /\ (Reserved(a)' <=> Reserved(a)) /\ observed'[a] = observed[a]
  BY OthersStill, ReportElsewhere DEF Still
<1>2. /\ InFlight(a)' = InFlight(a) /\ (Shared(a)' <=> Shared(a)) /\ (Settled(a)' <=> Settled(a))
      /\ (MayRelease(a)' <=> MayRelease(a)) /\ (Gone(a)' <=> Gone(a))
  BY <1>1 DEF Untouched, InFlight, Shared, Settled, MayRelease, Gone
<1>3. Kept(a) => Kept(a)'
  <2>. SUFFICES ASSUME Kept(a), record' # None, record'.uid = seen[a].uid PROVE Reserved(a)'
    BY <1>1, <1>2 DEF Kept, Untouched
  <2>1. CASE record' = record
    BY <1>1, <2>1 DEF Kept
  <2>2. CASE record' # record
    <3>1. PICK r \in InFlight(b) : Served(r)
      BY <2>2, ByRequest
    <3>2. r.target = "record" /\ record = r.from /\ record' = r.to
      BY <2>2, <3>1, Serving
    <3>3. CASE r.from # None
      BY <1>1, <3>1, <3>2, <3>3, Serving DEF Kept
    <3>4. CASE r.from = None
      <4>1. record'.uid = b
        BY <3>1, <3>2, <3>4 DEF Unborn
      <4>2. seen[a].uid # b
        BY <3>1, <3>2, <3>4 DEF Kept, Unborn, NotBorn
      <4>. QED
        BY <4>1, <4>2
    <3>. QED
      BY <3>3, <3>4
  <2>. QED
    BY <2>1, <2>2
<1>. QED
  BY <1>1, <1>2, <1>3 DEF Declared, Untouched

\* What is said of the record is an invariant of the protocol.
LEMMA DeclaredInv == Spec => [](\A a \in Attempts : Declared(a))
<1>. DEFINE Said == \A a \in Attempts : Declared(a)
<1>1. Init => Said
  BY DEF Init, Declared, Shared, Early
<1>2. ASSUME IInv, IInv', Records, Records', [Next]_vars, Said
      PROVE  Said'
  <2>. SUFFICES ASSUME NEW b \in Attempts PROVE Declared(b)'
    OBVIOUS
  <2>1. ASSUME Untouched(b), observed'[b] = observed[b], record' = record \/ record' = None
        PROVE  Declared(b)'
    <3>1. /\ InFlight(b)' = InFlight(b) /\ (Shared(b)' <=> Shared(b)) /\ (Settled(b)' <=> Settled(b))
          /\ (MayRelease(b)' <=> MayRelease(b)) /\ (Reserved(b)' => Reserved(b))
      BY <2>1 DEF Untouched, InFlight, Shared, Settled, MayRelease, Reserved
    <3>2. (Gone(b) => Gone(b)') /\ (Kept(b) => Kept(b)')
      BY <2>1, <3>1 DEF Gone, Kept, Untouched, Reserved
    <3>3. Declared(b)
      BY <1>2
    <3>. QED
      BY <2>1, <3>1, <3>2, <3>3 DEF Declared, Untouched
  <2>2. CASE UNCHANGED vars
    BY <2>1, <2>2 DEF vars, Untouched
  <2>3. ASSUME NEW a \in Attempts, StepOf(a) PROVE Declared(b)'
    <3>1. CASE b = a
      BY <1>2, <2>3, <3>1, DeclaredStep DEF Records, Minding
    <3>2. CASE b # a
      BY <1>2, <2>3, <3>2, DeclaredElsewhere DEF Records, Minding
    <3>. QED
      BY <3>1, <3>2
  <2>4. CASE TearDown \/ \E k \in Kinds : StatusUpdate(k) \/ Interfere(k)
    <3>1. Untouched(b) /\ observed' = observed
      BY <1>2, <2>4, EnvironmentSigns DEF memory
    <3>2. record' = record \/ record' = None
      BY <2>4 DEF TearDown, StatusUpdate, Interfere
    <3>. QED
      BY <2>1, <3>1, <3>2
  <2>. QED
    BY <1>2, <2>2, <2>3, <2>4 DEF Next, StepOf
<1>. QED
  BY <1>1, <1>2, Inductive, RecordsInv, PTL DEF Spec

(***************************************************************************)
(* What ApplyReleaseLift and applyReleaseUpdate report of the shared record:    *)
(* "pending" is said of a record that stays reserved until it is torn down, and  *)
(* an attempt that claims no reservation has none and will get none from a        *)
(* request that arrives late.  Only "unknown" leaves it open.                      *)
(***************************************************************************)
THEOREM RecordReported == Spec => []RecordReportIsTrue
<1>1. IInv /\ (\A a \in Attempts : Declared(a)) => RecordReportIsTrue
  <2>. SUFFICES ASSUME IInv, NEW a \in Attempts, Declared(a), pc[a] = "done", record # None
                PROVE  /\ observed[a] = "pending" /\ record.uid = seen[a].uid => record.state.op = a
                       /\ observed[a] \notin {"pending", "unknown"} => record.state.op # a
    BY DEF RecordReportIsTrue
  <2>1. CASE Shared(a)
    BY <2>1 DEF Declared, Kept, Gone, Settled, Reserved
  <2>2. CASE ~Shared(a)
    BY <2>2 DEF IInv, AttemptInv, Named, Reserved, Declared
  <2>. QED
    BY <2>1, <2>2
<1>. QED
  BY <1>1, Inductive, DeclaredInv, PTL

(***************************************************************************)
(* What is printed at the end of a deploy or an update, of its objects and of   *)
(* its record, is contradicted by nothing that happens in the cluster later.     *)
(***************************************************************************)
THEOREM ReportsAreHonest == Spec => []ReportIsHonest
<1>1. EffectReportIsTrue /\ RecordReportIsTrue => ReportIsHonest
  BY DEF ReportIsHonest
<1>. QED
  BY <1>1, EffectsReported, RecordReported, PTL
==============================================================================
