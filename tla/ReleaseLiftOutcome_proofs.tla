---------------------- MODULE ReleaseLiftOutcome_proofs ----------------------
(***************************************************************************)
(* What the reservation protocol of ReleaseLift achieves for any number of   *)
(* attempts and hosts: it implements ReleaseReservation, an attempt reports    *)
(* what it did, and what it acknowledges is what the next update relies on.     *)
(***************************************************************************)
EXTENDS ReleaseLift_proofs

-----------------------------------------------------------------------------
(* What a step changes *)

StepOf(a) == Start(a) \/ Progress(a) \/ DeliverLate(a) \/ Crash(a) \/ LoseMarker(a)

\* Request r is served in this step.
Served(r) == Accepts(r) /\ Serve(r)

\* The steps of an attempt other than answers keep the cluster, apart from requests
\* that nobody waits for any more.
LEMMA QuietStep ==
  ASSUME IInv, NEW a \in Attempts, StepOf(a), ~Answer(a), ~DeliverLate(a)
  PROVE  record' = record /\ live' = live
<1>1. CASE Start(a) \/ Crash(a) \/ LoseMarker(a)
  BY <1>1 DEF Start, PlanLift, PlanUpdate, Confirm, VerifyNoop, Prepare, Refuse,
              Crash, Abandon, LoseMarker, cluster
<1>2. CASE Progress(a)
  BY <1>2 DEF Progress, Reserve, RefusePrepared, CheckRow, Checkpoint, CheckpointFails,
              BecomeReady, LoopFails, Finish, Settle, SettleFails, Persist, PersistFails,
              PublishCandidate, Commit, AcknowledgeFails, GiveUp, Abandon, cluster
<1>. QED
  BY <1>1, <1>2 DEF StepOf

\* An attempt changes the record and the pair by its requests only.
LEMMA ByRequest ==
  ASSUME IInv, NEW a \in Attempts, StepOf(a)
  PROVE  \/ record' = record /\ live' = live
         \/ \E r \in InFlight(a) : Served(r)
<1>1. CASE Answer(a)
  <2>1. Accepts(sent[a]) => Serve(sent[a]) /\ sent[a] \in InFlight(a)
    BY <1>1 DEF Answer, IInv, AttemptInv, Sending, InFlight
  <2>2. ~Accepts(sent[a]) => record' = record /\ live' = live
    BY <1>1 DEF Answer
  <2>. QED
    BY <2>1, <2>2 DEF Served
<1>2. CASE DeliverLate(a)
  BY <1>2 DEF DeliverLate, InFlight, Served
<1>. QED
  BY <1>1, <1>2, QuietStep

\* What a request is and what it does.
LEMMA Serving ==
  ASSUME IInv, NEW a \in Attempts, NEW r \in InFlight(a), Served(r)
  PROVE  /\ r.target = "record" =>
              /\ record = r.from /\ record' = r.to /\ record' \in Snapshots /\ record' # None
              /\ live' = live /\ Shared(a)
              /\ record # None => record.state.op \in {None, a} /\ record'.uid = record.uid
              /\ record'.state.op \in {None, a}
              /\ record'.state.op = None => record # None /\ record.state.op = a
         /\ r.target # "record" =>
              /\ r.target \in Kinds /\ record' = record
              /\ live' = [live EXCEPT ![r.target] = r.to]
              /\ r.to \in Objects /\ r.to # None /\ r.to.lift = a
              /\ live[r.target] = r.from
              /\ IF mode[a] = "mixed" THEN live[r.target] = None ELSE Shared(a) /\ Reserved(a)
<1>1. r \in Requests /\ AttemptInv(a) /\ TypeOK
  BY DEF IInv, TypeOK, InFlight
<1>2. CASE r.target = "record"
  <2>1. r.to \in Snapshots /\ r.to # None
    BY <1>1, <1>2, NoneAssumption DEF Requests, Kinds
  <2>. QED
    BY <1>1, <1>2, <2>1 DEF Served, Accepts, Serve, AttemptInv, Requested
<1>3. CASE r.target # "record"
  <2>1. r.target \in Kinds /\ r.to \in Objects /\ r.to # None
    BY <1>1, <1>3, NoneAssumption DEF Requests
  <2>. QED
    BY <1>1, <1>3, <2>1 DEF Served, Accepts, Serve, AttemptInv, Requested, Shared
<1>. QED
  BY <1>2, <1>3

-----------------------------------------------------------------------------
(* The protocol implements the abstract reservation *)

Holder == IF record = None THEN Foreign ELSE record.state.op

Completers == {a \in Attempts : mode[a] = "mixed"}

AuthorOf(k) == IF live[k] = None THEN None ELSE live[k].lift

Author == [k \in Kinds |-> AuthorOf(k)]

\* Initially nobody holds the slot and nobody has completed.
LEMMA ReservationInit ==
  ASSUME Init
  PROVE  Reservation_!Init
<1>1. Holder = Foreign /\ Completers = {}
  BY DEF Init, Holder, Completers
<1>2. \A k \in Kinds : AuthorOf(k) \in {None} \cup {Foreign, Evaluated}
  BY DEF Init, AuthorOf, EvaluatedObject
<1>3. Author \in [Kinds -> {None} \cup {Foreign, Evaluated}]
  BY <1>2 DEF Author
<1>. QED
  BY <1>1, <1>3 DEF Reservation_!Init, Holder, Completers, Author, AuthorOf

\* The plans are made by their own attempts.
LEMMA CompletersChange ==
  ASSUME IInv, NEW a \in Attempts, StepOf(a)
  PROVE  \/ Completers' = Completers
         \/ PlanLift(a) /\ Completers' = Completers \cup {a}
<1>1. TypeOK
  BY DEF IInv
<1>2. CASE PlanLift(a)
  <2>1. mode' = [mode EXCEPT ![a] = mode'[a]] /\ mode[a] = "none"
    BY <1>1, <1>2 DEF PlanLift, IInv, AttemptInv, Planned, TypeOK
  <2>. QED
    BY <1>1, <1>2, <2>1 DEF Completers, TypeOK
<1>3. CASE PlanUpdate(a)
  <2>1. mode' = [mode EXCEPT ![a] = mode'[a]] /\ mode[a] = "none" /\ mode'[a] # "mixed"
    BY <1>1, <1>3 DEF PlanUpdate, IInv, AttemptInv, Planned, TypeOK
  <2>. QED
    BY <1>1, <2>1 DEF Completers, TypeOK
<1>4. CASE ~PlanLift(a) /\ ~PlanUpdate(a)
  <2>1. mode' = mode
    <3>1. CASE Start(a) \/ DeliverLate(a) \/ Crash(a) \/ LoseMarker(a)
      BY <1>4, <3>1 DEF Start, Confirm, VerifyNoop, Prepare, Refuse, DeliverLate,
                  Crash, Abandon, LoseMarker, memory
    <3>2. CASE Progress(a)
      BY <3>2 DEF Progress, Reserve, RefusePrepared, CheckRow, Checkpoint, CheckpointFails,
                  BecomeReady, LoopFails, Finish, Settle, SettleFails, Persist, PersistFails,
                  PublishCandidate, Commit, AcknowledgeFails, Answer, GiveUp, Abandon, memory
    <3>. QED
      BY <3>1, <3>2 DEF StepOf
  <2>. QED
    BY <2>1 DEF Completers
<1>. QED
  BY <1>2, <1>3, <1>4

\* A step of an attempt is one operation on the reservation, or none.
LEMMA ReservationStep ==
  ASSUME IInv, IInv', NEW a \in Attempts, StepOf(a)
  PROVE  Reservation_!Next \/ UNCHANGED <<Holder, Completers, Author>>
<1>1. TypeOK /\ AttemptInv(a) /\ a # None /\ a # Foreign
  BY NoneAssumption, AuthorsAssumption DEF IInv
<1>2. CASE PlanLift(a)
  <2>1. record' = record /\ live' = live
    BY <1>2 DEF PlanLift, cluster
  <2>2. Holder' = Holder /\ Author' = Author
    BY <2>1 DEF Holder, Author, AuthorOf
  <2>3. Holder # a
    BY <1>1, <1>2 DEF Holder, PlanLift, AttemptInv, Named, Reserved, Early
  <2>4. CASE Completers' = Completers \cup {a}
    BY <2>2, <2>3, <2>4
       DEF Reservation_!Next, Reservation_!Enlist, Holder, Completers, Author, AuthorOf
  <2>. QED
    BY <2>2, <2>4, <1>2, CompletersChange
<1>3. CASE ~PlanLift(a)
  <2>1. Completers' = Completers
    BY <1>3, CompletersChange
  <2>2. CASE record' = record /\ live' = live
    BY <2>1, <2>2 DEF Holder, Author, AuthorOf
  <2>3. ASSUME NEW r \in InFlight(a), Served(r), r.target = "record"
        PROVE  Reservation_!Next \/ UNCHANGED <<Holder, Completers, Author>>
    <3>1. /\ Author' = Author
          /\ Holder \in {Foreign, None, a} /\ Holder' \in {None, a}
          /\ Holder' = None => Holder = a
      BY <2>3, Serving DEF Author, AuthorOf, Holder
    <3>2. a \notin Completers
      BY <2>3, Serving DEF Completers, Shared
    <3>3. CASE Holder' = a /\ Holder # a
      BY <2>1, <3>1, <3>2, <3>3
         DEF Reservation_!Next, Reservation_!Claim, Holder, Completers, Author, AuthorOf
    <3>4. CASE Holder' = None
      BY <2>1, <3>1, <3>4
         DEF Reservation_!Next, Reservation_!Release, Holder, Completers, Author, AuthorOf
    <3>. QED
      BY <2>1, <3>1, <3>3, <3>4
  <2>4. ASSUME NEW r \in InFlight(a), Served(r), r.target # "record"
        PROVE  Reservation_!Next \/ UNCHANGED <<Holder, Completers, Author>>
    <3>. DEFINE k == r.target
    <3>1. /\ k \in Kinds /\ Holder' = Holder
          /\ live' = [live EXCEPT ![k] = r.to] /\ r.to # None /\ r.to.lift = a
          /\ IF mode[a] = "mixed" THEN live[k] = None ELSE Holder = a
      BY <2>4, Serving DEF Holder, Reserved
    <3>. HIDE DEF k
    <3>2. \A j \in Kinds : AuthorOf(j)' = IF j = k THEN a ELSE AuthorOf(j)
      BY <1>1, <3>1 DEF AuthorOf, TypeOK
    <3>3. Author' = [Author EXCEPT ![k] = a]
      BY <3>2 DEF Author
    <3>4. mode[a] = "mixed" => a \in Completers /\ Author[k] = None
      BY <3>1 DEF Completers, Author, AuthorOf
    <3>5. CASE mode[a] = "mixed"
      BY <2>1, <3>1, <3>3, <3>4, <3>5
         DEF Reservation_!Next, Reservation_!Complete, Holder, Completers, Author, AuthorOf
    <3>6. CASE mode[a] # "mixed"
      BY <2>1, <3>1, <3>3, <3>6
         DEF Reservation_!Next, Reservation_!Write, Holder, Completers, Author, AuthorOf
    <3>. QED
      BY <3>5, <3>6
  <2>. QED
    BY <2>2, <2>3, <2>4, ByRequest
<1>. QED
  BY <1>2, <1>3

\* Everybody else can delete, occupy and re-sign an object, or tear all down.
LEMMA ReservationElsewhere ==
  ASSUME IInv, TearDown \/ \E k \in Kinds : StatusUpdate(k) \/ Interfere(k)
  PROVE  Reservation_!Next \/ UNCHANGED <<Holder, Completers, Author>>
<1>1. TypeOK /\ mode' = mode
  BY DEF IInv, TearDown, StatusUpdate, Interfere, memory
<1>2. Completers' = Completers
  BY <1>1 DEF Completers
<1>3. CASE TearDown
  <2>1. Holder' = Foreign /\ Author' = [k \in Kinds |-> None]
    BY <1>3 DEF TearDown, Holder, Author, AuthorOf
  <2>. QED
    BY <1>2, <2>1 DEF Reservation_!Next, Reservation_!TearDown, Holder, Completers, Author, AuthorOf
<1>4. ASSUME NEW k \in Kinds, StatusUpdate(k) \/ Interfere(k)
      PROVE  Reservation_!Next \/ UNCHANGED <<Holder, Completers, Author>>
  <2>1. Holder' = Holder
    BY <1>4 DEF StatusUpdate, Interfere, Holder
  <2>2. live' = [live EXCEPT ![k] = live'[k]]
    BY <1>1, <1>4 DEF StatusUpdate, Interfere, TypeOK
  <2>3. \A j \in Kinds : AuthorOf(j)' = IF j = k THEN AuthorOf(k)' ELSE AuthorOf(j)
    BY <1>1, <2>2 DEF AuthorOf, TypeOK
  <2>4. Author' = [Author EXCEPT ![k] = AuthorOf(k)']
    BY <2>3 DEF Author
  <2>5. AuthorOf(k)' \in {AuthorOf(k), None, Foreign}
    <3>1. live \in [Kinds -> Objects \cup {None}]
      BY <1>1 DEF TypeOK
    <3>2. \A o \in Objects, n, g \in Nat :
            /\ [o EXCEPT !.rv = n].lift = o.lift
            /\ [o EXCEPT !.gen = g, !.rv = n, !.spec = Foreign].lift = o.lift
            /\ [o EXCEPT !.rv = n, !.lift = Foreign].lift = Foreign
      BY DEF Objects
    <3>3. live[k] # None => live[k] \in Objects /\ live[k].rv + 1 \in Nat /\ live[k].gen + 1 \in Nat
      BY <3>1 DEF Objects
    <3>4. CASE live[k] = None
      <4>. DEFINE o == [uid |-> Foreign, gen |-> 1, rv |-> 1, spec |-> Foreign, lift |-> Foreign]
      <4>1. o.lift = Foreign
        OBVIOUS
      <4>. HIDE DEF o
      <4>2. live' = [live EXCEPT ![k] = o]
        BY <1>4, <3>4 DEF StatusUpdate, Interfere, Missing, o
      <4>3. live'[k] = o
        BY <3>1, <4>2
      <4>. QED
        BY <4>1, <4>3 DEF AuthorOf
    <3>5. CASE live[k] # None
      <4>. DEFINE n == live[k].rv + 1
                  g == live[k].gen + 1
      <4>1. \/ live'[k] = [live[k] EXCEPT !.rv = n]
            \/ live'[k] = [live[k] EXCEPT !.gen = g, !.rv = n, !.spec = Foreign]
            \/ live'[k] = [live[k] EXCEPT !.rv = n, !.lift = Foreign]
            \/ live'[k] = None
        BY <1>4, <3>1, <3>3, <3>5 DEF StatusUpdate, Interfere, Missing, Objects
      <4>2. n \in Nat /\ g \in Nat /\ live[k] \in Objects
        BY <3>3, <3>5
      <4>. HIDE DEF n, g
      <4>. DEFINE o == live[k]
      <4>. HIDE DEF o
      <4>3. \/ live'[k] = [o EXCEPT !.rv = n]
            \/ live'[k] = [o EXCEPT !.gen = g, !.rv = n, !.spec = Foreign]
            \/ live'[k] = [o EXCEPT !.rv = n, !.lift = Foreign]
            \/ live'[k] = None
        BY <4>1 DEF o
      <4>4. o \in Objects
        BY <4>2 DEF o
      <4>5. live'[k] = None \/ live'[k].lift \in {o.lift, Foreign}
        <5>1. CASE live'[k] = [o EXCEPT !.rv = n]
          BY <3>2, <4>2, <4>4, <5>1
        <5>2. CASE live'[k] = [o EXCEPT !.gen = g, !.rv = n, !.spec = Foreign]
          BY <3>2, <4>2, <4>4, <5>2
        <5>3. CASE live'[k] = [o EXCEPT !.rv = n, !.lift = Foreign]
          BY <3>2, <4>2, <4>4, <5>3
        <5>. QED
          BY <4>3, <5>1, <5>2, <5>3
      <4>. QED
        BY <3>5, <4>5 DEF AuthorOf, o
    <3>. QED
      BY <3>4, <3>5
  <2>6. CASE AuthorOf(k)' = AuthorOf(k)
    <3>1. Author' = Author
      BY <2>4, <2>6 DEF Author
    <3>. QED
      BY <1>2, <2>1, <3>1
  <2>7. CASE AuthorOf(k)' \in {None, Foreign}
    <3>1. \E who \in {Foreign, Evaluated} \cup {None} : Author' = [Author EXCEPT ![k] = who]
      BY <2>4, <2>7
    <3>. QED
      BY <1>2, <2>1, <3>1
         DEF Reservation_!Next, Reservation_!Interfere, Holder, Completers, Author, AuthorOf
  <2>. QED
    BY <2>5, <2>6, <2>7
<1>. QED
  BY <1>3, <1>4

(***************************************************************************)
(* ApplyReleaseLift and applyReleaseUpdate keep the promise of the release    *)
(* record to everybody: one holder at a time, the pair changes only under a   *)
(* reservation, and only its holder gives it back.                          *)
(***************************************************************************)
THEOREM ReservationImplemented == Spec => ImplementsReservation
<1>1. Init => Reservation_!Init
  BY ReservationInit
<1>2. IInv /\ IInv' /\ [Next]_vars => [Reservation_!Next]_(Reservation_!vars)
  <2>. SUFFICES ASSUME IInv, IInv', [Next]_vars
                PROVE  Reservation_!Next \/ UNCHANGED <<Holder, Completers, Author>>
    BY DEF Reservation_!vars, Holder, Completers, Author, AuthorOf
  <2>1. CASE UNCHANGED vars
    BY <2>1 DEF vars, Holder, Completers, Author, AuthorOf
  <2>2. CASE Next
    BY <2>2, ReservationStep, ReservationElsewhere DEF Next, StepOf
  <2>. QED
    BY <2>1, <2>2
<1>. QED
  BY <1>1, <1>2, Inductive, PTL DEF Spec, ImplementsReservation, Reservation_!Spec

-----------------------------------------------------------------------------
(* The steps of an attempt, as it sees them itself *)

\* A step of another attempt leaves this one's disk alone, too.
Still(b) ==
  /\ Untouched(b) /\ (Reserved(b)' <=> Reserved(b))
  /\ slots'[b] = slots[b] /\ candidate'[b] = candidate[b] /\ committed'[b] = committed[b]

\* A step of one attempt leaves the memory, the files and the reservation of another alone.
LEMMA OthersStill ==
  ASSUME IInv, NEW a \in Attempts, NEW b \in Attempts \ {a}, StepOf(a)
  PROVE  Still(b)
<1>1. TypeOK
  BY DEF IInv
<1>2. slots'[b] = slots[b] /\ candidate'[b] = candidate[b] /\ committed'[b] = committed[b]
  <2>1. CASE Start(a) \/ DeliverLate(a) \/ Crash(a) \/ LoseMarker(a)
    BY <1>1, <2>1 DEF Start, PlanLift, PlanUpdate, Confirm, VerifyNoop, Prepare, Refuse,
                DeliverLate, Crash, LoseMarker, disk, TypeOK
  <2>2. CASE Progress(a)
    BY <1>1, <2>2 DEF Progress, Reserve, RefusePrepared, CheckRow, Checkpoint, CheckpointFails,
                BecomeReady, LoopFails, Finish, Settle, SettleFails, Persist, PersistFails,
                PublishCandidate, Commit, AcknowledgeFails, Answer, GiveUp, disk, TypeOK
  <2>. QED
    BY <2>1, <2>2 DEF StepOf
<1>. QED
  BY <1>2, OthersUntouched DEF Still, StepOf

\* Only the loss of a marker counts as foreign among the steps of attempts.
LEMMA ForeignGrows ==
  ASSUME IInv, NEW a \in Attempts, StepOf(a)
  PROVE  /\ ~LoseMarker(a) => foreign' = foreign
         /\ LoseMarker(a) => foreign' # 0 /\ record' = record /\ live' = live
<1>1. CASE Start(a) \/ DeliverLate(a) \/ Crash(a)
  BY <1>1 DEF Start, PlanLift, PlanUpdate, Confirm, VerifyNoop, Prepare, Refuse, LoseMarker,
              DeliverLate, Crash, Abandon, cluster, IInv, TypeOK
<1>2. CASE Progress(a)
  BY <1>2 DEF Progress, Reserve, RefusePrepared, CheckRow, Checkpoint, CheckpointFails,
              BecomeReady, LoopFails, Finish, Settle, SettleFails, Persist, PersistFails, LoseMarker,
              PublishCandidate, Commit, AcknowledgeFails, Answer, GiveUp, Abandon, cluster, IInv, TypeOK
<1>3. CASE LoseMarker(a)
  BY <1>3 DEF LoseMarker, IInv, TypeOK
<1>. QED
  BY <1>1, <1>2, <1>3 DEF StepOf

-----------------------------------------------------------------------------
(* Snapshots of the private directory *)

\* Every row spends one slot, and so does every persisted result.
Spent(a) ==
  /\ pc[a] \in {"idle", "planned", "confirmed"} => slots[a] = 0
  /\ pc[a] \in {"prepared", "reserving"} => slots[a] <= 1
  /\ pc[a] \in {"checking", "writing", "recording"} => slots[a] <= row[a]
  /\ pc[a] \in {"crediting", "waiting"} => slots[a] <= row[a] + 1
  /\ pc[a] \in {"finishing", "settling", "persisting"} => slots[a] <= 3
  /\ pc[a] \in {"releasing", "acking"} => slots[a] <= 4

\* An attempt's step takes a slot only where its row, or its release, has one left.
LEMMA SpentStep ==
  ASSUME IInv, NEW a \in Attempts, StepOf(a), Spent(a)
  PROVE  Spent(a)'
<1>1. TypeOK /\ slots[a] \in Nat /\ row[a] \in 1..3 /\ AttemptInv(a)
  BY DEF IInv, TypeOK
<1>2. Rows(a) /\ Planned(a)
  BY <1>1 DEF AttemptInv
<1>3. CASE PlanLift(a) \/ PlanUpdate(a) \/ Confirm(a) \/ VerifyNoop(a) \/ Prepare(a) \/ Refuse(a)
  BY <1>1, <1>2, <1>3 DEF PlanLift, PlanUpdate, Confirm, VerifyNoop, Prepare, Refuse, Goto, Spent,
     TypeOK, memory, disk
<1>4. CASE Reserve(a) \/ RefusePrepared(a)
  BY <1>1, <1>2, <1>4 DEF Reserve, RefusePrepared, Goto, Spent, TypeOK, memory, disk, Rows, Early
<1>5. CASE CheckRow(a)
  <2>1. /\ slots' = slots /\ pc[a] = "checking" /\ row[a] \in {1, 2}
        /\ \/ row'[a] = row[a] /\ pc'[a] = "writing"
           \/ row'[a] = row[a] + 1 /\ pc'[a] = IF row[a] = 2 THEN "finishing" ELSE "checking"
    BY <1>1, <1>5 DEF CheckRow, Goto, TypeOK, disk
  <2>. QED
    BY <1>1, <2>1 DEF Spent
<1>6. CASE Checkpoint(a) \/ CheckpointFails(a)
  <2>1. /\ slots'[a] = slots[a] + 1 /\ pc[a] = "recording" /\ row'[a] = row[a]
        /\ pc'[a] \in {"persisting", "crediting", "waiting"}
    BY <1>1, <1>6 DEF Checkpoint, CheckpointFails, Goto, TypeOK, memory
  <2>. QED
    BY <1>1, <1>2, <2>1 DEF Spent, Rows
<1>7. CASE BecomeReady(a) \/ LoopFails(a) \/ Finish(a) \/ Settle(a) \/ SettleFails(a)
  <2>1. CASE BecomeReady(a)
    <3>1. /\ slots' = slots /\ pc[a] = "waiting" /\ row'[a] = row[a] + 1
          /\ pc'[a] = IF row[a] = 2 THEN "finishing" ELSE "checking"
      BY <1>1, <2>1 DEF BecomeReady, Goto, TypeOK, disk
    <3>. QED
      BY <1>1, <1>2, <3>1 DEF Spent, Rows
  <2>2. CASE LoopFails(a) \/ Finish(a) \/ Settle(a) \/ SettleFails(a)
    <3>1. /\ slots' = slots /\ row' = row
          /\ pc[a] \in {"checking", "waiting", "finishing", "settling"}
          /\ pc'[a] \in {"done", "settling", "persisting"}
      BY <1>1, <2>2 DEF LoopFails, Finish, Settle, SettleFails, Leave, Goto, TypeOK, memory, disk
    <3>. QED
      BY <1>1, <1>2, <3>1 DEF Spent, Rows
  <2>. QED
    BY <1>7, <2>1, <2>2
<1>8. CASE Persist(a) \/ PersistFails(a)
  <2>1. /\ slots'[a] = slots[a] + 1 /\ pc[a] = "persisting" /\ pc'[a] \in {"releasing", "done"}
    BY <1>1, <1>8 DEF Persist, PersistFails, Goto, TypeOK
  <2>. QED
    BY <1>1, <2>1 DEF Spent
<1>9. CASE PublishCandidate(a) \/ Commit(a) \/ AcknowledgeFails(a) \/ Crash(a)
  <2>1. pc'[a] \in {"linking", "done", "crashed"}
    BY <1>1, <1>9 DEF PublishCandidate, Commit, AcknowledgeFails, Crash, Goto, TypeOK
  <2>. QED
    BY <2>1 DEF Spent
<1>10. CASE Answer(a) \/ GiveUp(a)
  <2>1. slots' = slots /\ row' = row /\ pc[a] \in Waiting
    BY <1>10 DEF Answer, GiveUp, disk
  <2>2. \/ pc[a] = "reserving" /\ pc'[a] = "checking"
        \/ pc[a] = "writing" /\ pc'[a] \in {"recording"}
        \/ pc[a] = "crediting" /\ pc'[a] = "waiting"
        \/ pc[a] = "releasing" /\ pc'[a] \in {"done", "acking"}
        \/ pc[a] \in {"reserving", "writing", "crediting"} /\ pc'[a] = "persisting"
    BY <1>1, <1>10, <2>1 DEF Answer, GiveUp, OnAccept, OnError, Waiting, Goto, TypeOK
  <2>. QED
    BY <1>1, <1>2, <2>1, <2>2 DEF Spent, Rows
<1>11. CASE DeliverLate(a) \/ LoseMarker(a)
  BY <1>11 DEF DeliverLate, LoseMarker, memory, disk, Spent
<1>. QED
  BY <1>3, <1>4, <1>5, <1>6, <1>7, <1>8, <1>9, <1>10, <1>11 DEF StepOf, Start, Progress

-----------------------------------------------------------------------------
(* What an attempt reports *)

\* Nothing was sent for an object that is reported as untouched.
Honest(a) ==
  \A k \in Kinds :
    outcome[a][k] = "not-attempted" \/ result[a] = "not-applied" =>
      ~Writes(a, k) /\ (live[k] # None => live[k].lift # a)

\* An outcome and a result are never withdrawn, and a write is announced.
LEMMA Announced ==
  ASSUME IInv, NEW a \in Attempts, NEW k \in Kinds, StepOf(a)
  PROVE  /\ outcome'[a][k] = "not-attempted" => outcome[a][k] = "not-attempted"
         /\ result'[a] = "not-applied" => result[a] = "not-applied"
         /\ Writes(a, k)' => Writes(a, k) \/ (outcome'[a][k] = "unknown" /\ result'[a] = "partial")
<1>1. TypeOK /\ AttemptInv(a) /\ "record" \notin Kinds
  BY DEF IInv, Kinds
<1>2. outcome[a] \in [Kinds -> {"not-attempted", "unknown", "created", "updated", "reused"}]
  BY <1>1 DEF TypeOK
<1>3. CASE PlanLift(a) \/ PlanUpdate(a) \/ Confirm(a) \/ VerifyNoop(a) \/ Prepare(a) \/ Refuse(a)
  BY <1>1, <1>3 DEF PlanLift, PlanUpdate, Confirm, VerifyNoop, Prepare, Refuse, TypeOK,
     memory, cluster, Writes, InFlight
<1>4. CASE Reserve(a)
  <2>1. /\ outcome' = outcome /\ late' = late /\ result'[a] \in {result[a], "partial"}
        /\ \/ sent' = sent
           \/ \E state : sent'[a] = RecordWrite(a, state)
    BY <1>1, <1>4 DEF Reserve, Send, TypeOK, cluster
  <2>2. \A state : RecordWrite(a, state).target = "record"
    BY DEF RecordWrite, Create
  <2>. QED
    BY <1>1, <2>1, <2>2 DEF Writes, InFlight
<1>5. CASE CheckRow(a)
  <2>. DEFINE i == KindAt(row[a])
  <2>1. i \in Kinds
    BY DEF KindAt, Kinds
  <2>2. /\ late' = late
        /\ \/ /\ sent' = [sent EXCEPT ![a] = ObjectWrite(a, i)]
              /\ outcome' = [outcome EXCEPT ![a][i] = "unknown"] /\ result'[a] = "partial"
           \/ /\ outcome' = [outcome EXCEPT ![a][i] = "reused"] /\ result' = result /\ sent' = sent
    BY <1>1, <1>5 DEF CheckRow, Send, TypeOK, cluster
  <2>. HIDE DEF i
  <2>3. /\ outcome'[a][k] \in {outcome[a][k], "unknown", "reused"}
        /\ result'[a] \in {result[a], "partial"}
    BY <1>1, <1>2, <2>1, <2>2 DEF TypeOK
  <2>4. CASE sent' = [sent EXCEPT ![a] = ObjectWrite(a, i)]
                /\ outcome' = [outcome EXCEPT ![a][i] = "unknown"] /\ result'[a] = "partial"
    <3>1. outcome'[a][i] = "unknown"
      BY <1>1, <1>2, <2>1, <2>4 DEF TypeOK
    <3>2. ObjectWrite(a, i).target = i
      BY <1>1, <2>1, ObjectWriteType
    <3>3. sent'[a] = ObjectWrite(a, i)
      BY <1>1, <2>4 DEF TypeOK
    <3>. QED
      BY <2>2, <2>3, <2>4, <3>1, <3>2, <3>3 DEF Writes, InFlight
  <2>5. CASE outcome' = [outcome EXCEPT ![a][i] = "reused"] /\ result' = result /\ sent' = sent
    BY <2>2, <2>3, <2>5 DEF Writes, InFlight
  <2>. QED
    BY <2>2, <2>4, <2>5
<1>6. CASE Checkpoint(a) \/ Persist(a)
  <2>1. /\ outcome' = outcome /\ late' = late
        /\ result'[a] = "not-applied" => result[a] = "not-applied"
        /\ \/ sent' = sent
           \/ \E state : sent'[a] = RecordWrite(a, state)
    BY <1>1, <1>6 DEF Checkpoint, Persist, Send, Downgrade, TypeOK, cluster, memory
  <2>2. \A state : RecordWrite(a, state).target = "record"
    BY DEF RecordWrite, Create
  <2>. QED
    BY <1>1, <2>1, <2>2 DEF Writes, InFlight
<1>7. CASE \/ RefusePrepared(a) \/ CheckpointFails(a) \/ BecomeReady(a) \/ LoopFails(a) \/ Finish(a)
           \/ Settle(a) \/ SettleFails(a) \/ PersistFails(a) \/ PublishCandidate(a) \/ Commit(a)
           \/ AcknowledgeFails(a) \/ LoseMarker(a)
  <2>1. /\ outcome' = outcome /\ late' = late /\ sent' = sent
        /\ result'[a] = "not-applied" => result[a] = "not-applied"
    BY <1>1, <1>7 DEF RefusePrepared, CheckpointFails, BecomeReady, LoopFails, Finish, Settle,
       SettleFails, PersistFails, PublishCandidate, Commit, AcknowledgeFails, Downgrade, LoseMarker,
       TypeOK, cluster, memory
  <2>. QED
    BY <2>1 DEF Writes, InFlight
<1>8. CASE Answer(a)
  <2>1. InFlight(a)' \subseteq InFlight(a)
    BY <1>1, <1>8 DEF Answer, TypeOK, InFlight
  <2>2. result'[a] = "not-applied" => result[a] = "not-applied"
    BY <1>1, <1>8 DEF Answer, OnError, Waiting, Downgrade, TypeOK
  <2>3. outcome' = outcome \/ \E o \in {"updated", "created"} :
                                outcome' = [outcome EXCEPT ![a][KindAt(row[a])] = o]
    BY <1>1, <1>8 DEF Answer, OnAccept, Waiting
  <2>4. outcome'[a][k] \in {outcome[a][k], "updated", "created"}
    BY <1>1, <1>2, <2>3 DEF TypeOK
  <2>. QED
    BY <2>1, <2>2, <2>4 DEF Writes
<1>9. CASE GiveUp(a) \/ Crash(a) \/ DeliverLate(a)
  <2>1. InFlight(a)' \subseteq InFlight(a) /\ outcome' = outcome
    BY <1>1, <1>9 DEF GiveUp, Crash, DeliverLate, Abandon, TypeOK, InFlight, memory
  <2>2. result'[a] = "not-applied" => result[a] = "not-applied"
    BY <1>1, <1>9 DEF GiveUp, Crash, DeliverLate, OnError, Waiting, Downgrade, TypeOK, memory
  <2>. QED
    BY <2>1, <2>2 DEF Writes
<1>. QED
  BY <1>3, <1>4, <1>5, <1>6, <1>7, <1>8, <1>9 DEF StepOf, Start, Progress

\* A served request of an attempt only signs what it has announced.
LEMMA HonestStep ==
  ASSUME IInv, NEW a \in Attempts, NEW b \in Attempts, StepOf(a), Honest(b)
  PROVE  Honest(b)'
<1>. SUFFICES ASSUME NEW k \in Kinds, outcome'[b][k] = "not-attempted" \/ result'[b] = "not-applied"
              PROVE  ~Writes(b, k)' /\ (live'[k] # None => live'[k].lift # b)
  BY DEF Honest
<1>1. TypeOK
  BY DEF IInv
<1>2. /\ outcome[b][k] = "not-attempted" \/ result[b] = "not-applied"
      /\ ~Writes(b, k)'
  <2>1. CASE a = b
    BY <2>1, Announced DEF Honest
  <2>2. CASE a # b
    BY <2>2, OthersUntouched DEF Honest, Untouched, StepOf, Writes, InFlight
  <2>. QED
    BY <2>1, <2>2
<1>3. ~Writes(b, k) /\ (live[k] # None => live[k].lift # b)
  BY <1>2 DEF Honest
<1>4. CASE live' = live
  BY <1>2, <1>3, <1>4
<1>5. CASE live' # live
  <2>1. PICK r \in InFlight(a) : Served(r)
    BY <1>5, ByRequest
  <2>2. /\ r.target # "record" /\ r.target \in Kinds /\ r.to.lift = a
        /\ live' = [live EXCEPT ![r.target] = r.to]
    BY <1>5, <2>1, Serving
  <2>3. CASE r.target = k
    <3>1. Writes(a, k) /\ live'[k] = r.to
      BY <1>1, <2>1, <2>2, <2>3 DEF Writes, TypeOK
    <3>. QED
      BY <1>2, <1>3, <2>2, <3>1
  <2>4. CASE r.target # k
    BY <1>1, <1>2, <1>3, <2>2, <2>4 DEF TypeOK
  <2>. QED
    BY <2>3, <2>4
<1>. QED
  BY <1>4, <1>5

-----------------------------------------------------------------------------
(* Success and its acknowledgment *)

\* An update reports success only for something it wrote and re-proved, and what it
\* publishes for that is what it knows.
Successful(a) ==
  /\ Shared(a) /\ result[a] = "ready" => pc[a] \in {"settling"} \cup Ending
  /\ mode[a] = "update" /\ (row[a] # 1 \/ pc[a] \in {"writing", "recording", "crediting", "waiting"}) =>
       Changed(a)
  /\ mode[a] = "update" /\ result[a] = "ready" => Changed(a)
  /\ mode[a] = "update" /\ pc[a] = "persisting" /\ result[a] = "ready" => known[a]
  /\ committed[a] => pc[a] \in Stopped
  /\ pc[a] = "linking" \/ committed[a] =>
       /\ Shared(a) /\ seen[a] # None
       /\ candidate[a].uid = seen[a].uid /\ candidate[a].data = seen[a].state
       /\ candidate[a].objects = proof[a]
       /\ pc[a] = "linking" \/ result[a] = "ready" => candidate[a].state = result[a]
  /\ foreign = 0 /\ pc[a] = "done" /\ result[a] = "ready" /\ Shared(a) => committed[a]

\* An attempt that has written something says so in every later state.
LEMMA ChangedForGood ==
  ASSUME IInv, NEW a \in Attempts, StepOf(a), Changed(a)
  PROVE  Changed(a)'
  BY Announced DEF Changed

\* An attempt's step commits only the success that its persisted acknowledgment names.
LEMMA SuccessfulStep ==
  ASSUME IInv, IInv', NEW a \in Attempts, StepOf(a), Successful(a)
  PROVE  Successful(a)'
<1>1. /\ TypeOK /\ AttemptInv(a)
      /\ Planned(a) /\ Rows(a) /\ Finalizing(a)
  BY DEF IInv, AttemptInv
<1>2. outcome[a] \in [Kinds -> {"not-attempted", "unknown", "created", "updated", "reused"}]
  BY <1>1 DEF TypeOK
<1>3. CASE PlanLift(a) \/ PlanUpdate(a) \/ Confirm(a) \/ VerifyNoop(a) \/ Prepare(a) \/ Refuse(a)
  <2>1. /\ pc[a] \in {"idle", "planned", "confirmed"} /\ candidate' = candidate /\ committed' = committed
        /\ row' = row /\ row[a] = 1 /\ ~committed[a] /\ foreign' = foreign
        /\ pc'[a] \in {"planned", "confirmed", "checking", "prepared", "done"}
        /\ Shared(a)' => result'[a] = "not-applied"
    BY <1>1, <1>3 DEF PlanLift, PlanUpdate, Confirm, VerifyNoop, Prepare, Refuse, Goto, TypeOK,
       memory, disk, cluster, Successful, Stopped, Early, Rows, Shared
  <2>. QED
    BY <2>1 DEF Successful, Shared, Ending, Stopped
<1>4. CASE Reserve(a) \/ RefusePrepared(a)
  <2>1. /\ pc[a] = "prepared" /\ candidate' = candidate /\ committed' = committed
        /\ row' = row /\ row[a] = 1 /\ ~committed[a] /\ foreign' = foreign
        /\ pc'[a] \in {"checking", "reserving", "persisting"}
        /\ mode' = mode /\ result'[a] # "ready"
    BY <1>1, <1>4 DEF Reserve, RefusePrepared, Goto, TypeOK,
       memory, disk, cluster, Successful, Stopped, Early, Rows, Shared
  <2>. QED
    BY <2>1 DEF Successful, Shared, Ending, Stopped
<1>5. CASE CheckRow(a)
  <2>1. /\ pc[a] = "checking" /\ candidate' = candidate /\ committed' = committed
        /\ ~committed[a] /\ foreign' = foreign
        /\ mode' = mode /\ known' = known
        /\ \/ /\ outcome' = [outcome EXCEPT ![a][KindAt(row[a])] = "unknown"]
              /\ result'[a] = "partial" /\ pc'[a] = "writing"
           \/ /\ outcome' = [outcome EXCEPT ![a][KindAt(row[a])] = "reused"]
              /\ result'[a] = result[a] /\ pc'[a] \in {"checking", "finishing"}
    BY <1>1, <1>5 DEF CheckRow, Goto, TypeOK, memory, disk, cluster, Successful, Stopped
  <2>2. KindAt(row[a]) \in Kinds
    BY DEF KindAt, Kinds
  <2>3. outcome'[a][KindAt(row[a])] \in {"unknown", "reused"}
    BY <1>1, <1>2, <2>1, <2>2 DEF TypeOK
  <2>4. Changed(a)'
    BY <2>2, <2>3 DEF Changed
  <2>. QED
    BY <2>1, <2>4 DEF Successful, Shared, Ending, Stopped
<1>6. CASE \/ Checkpoint(a) \/ CheckpointFails(a) \/ BecomeReady(a) \/ LoopFails(a) \/ Finish(a)
           \/ Settle(a) \/ SettleFails(a)
  <2>1. /\ candidate' = candidate /\ committed' = committed /\ foreign' = foreign
        /\ ~committed[a]
        /\ mode' = mode /\ outcome' = outcome
        /\ pc'[a] \in {"persisting", "crediting", "waiting", "finishing", "checking", "settling", "done"}
    BY <1>1, <1>6 DEF Checkpoint, CheckpointFails, BecomeReady, LoopFails, Finish, Settle, SettleFails,
       Leave, Goto, TypeOK, memory, disk, cluster, Successful, Stopped
  <2>2. Changed(a)' <=> Changed(a)
    BY <2>1 DEF Changed
  <2>3. CASE Checkpoint(a) \/ CheckpointFails(a) \/ BecomeReady(a)
    <3>1. /\ result' = result /\ known' = known /\ pc[a] \in {"recording", "waiting"}
          /\ pc'[a] \in {"persisting", "crediting", "waiting", "finishing", "checking"}
      BY <1>1, <2>3 DEF Checkpoint, CheckpointFails, BecomeReady, Goto, TypeOK, memory
    <3>. QED
      BY <2>1, <2>2, <3>1 DEF Successful, Shared, Ending, Stopped
  <2>4. CASE LoopFails(a)
    <3>1. /\ result' = result /\ known' = known /\ pc[a] \in {"checking", "waiting", "finishing"}
          /\ row' = row
          /\ pc'[a] = IF mode[a] = "reuse" THEN "done"
                      ELSE IF mode[a] = "update" THEN "settling" ELSE "persisting"
      BY <1>1, <2>4 DEF LoopFails, Leave, Goto, TypeOK, memory
    <3>. QED
      BY <2>1, <2>2, <3>1 DEF Successful, Shared, Ending, Stopped
  <2>5. CASE Finish(a)
    <3>1. /\ result'[a] = "ready" /\ known' = known /\ pc[a] = "finishing" /\ row' = row /\ row[a] = 3
          /\ pc'[a] = IF mode[a] = "reuse" THEN "done"
                      ELSE IF mode[a] = "update" THEN "settling" ELSE "persisting"
      BY <1>1, <2>5 DEF Finish, Leave, Goto, TypeOK, Rows
    <3>. QED
      BY <2>1, <2>2, <3>1 DEF Successful, Shared, Ending, Stopped
  <2>6. CASE Settle(a)
    <3>1. result' = result /\ known'[a] = TRUE /\ pc[a] = "settling" /\ row' = row /\ pc'[a] = "persisting"
      BY <1>1, <2>6 DEF Settle, Goto, TypeOK
    <3>. QED
      BY <2>1, <2>2, <3>1 DEF Successful, Shared, Ending, Stopped
  <2>7. CASE SettleFails(a)
    <3>1. result'[a] # "ready" /\ pc[a] = "settling" /\ row' = row /\ pc'[a] = "persisting"
      BY <1>1, <2>7 DEF SettleFails, Downgrade, Goto, TypeOK
    <3>. QED
      BY <2>1, <2>2, <3>1 DEF Successful, Shared, Ending, Stopped
  <2>. QED
    BY <1>6, <2>3, <2>4, <2>5, <2>6, <2>7
<1>7. CASE Persist(a) \/ PersistFails(a)
  <2>1. /\ candidate' = candidate /\ committed' = committed /\ foreign' = foreign
        /\ ~committed[a] /\ pc[a] = "persisting"
        /\ mode' = mode /\ outcome' = outcome /\ known' = known /\ row' = row
        /\ \/ pc'[a] = "done" /\ result'[a] # "ready"
           \/ pc'[a] = "done" /\ result'[a] = result[a] /\ ~MayRelease(a)
           \/ pc'[a] = "releasing" /\ result'[a] = result[a]
    BY <1>1, <1>7 DEF Persist, PersistFails, Downgrade, Goto, TypeOK, cluster, Successful, Stopped
  <2>2. Changed(a)' <=> Changed(a)
    BY <2>1 DEF Changed
  <2>3. result'[a] = "ready" => result[a] = "ready"
    BY <1>1, <1>7 DEF Persist, PersistFails, Downgrade, TypeOK
  <2>. QED
    BY <2>1, <2>2, <2>3 DEF Successful, Shared, Ending, Stopped, MayRelease
<1>8. CASE PublishCandidate(a)
  <2>1. /\ pc[a] = "acking" /\ pc'[a] = "linking" /\ candidate'[a] = Acknowledgment(a)
        /\ UNCHANGED <<cluster, memory, sent, committed>>
    BY <1>1, <1>8 DEF PublishCandidate, Goto, TypeOK
  <2>2. Shared(a) /\ proof[a] \in Pairs /\ seen[a] # None
    BY <1>1, <2>1 DEF Finalizing
  <2>3. ~committed[a]
    BY <2>1 DEF Successful, Stopped
  <2>. QED
    BY <2>1, <2>2, <2>3 DEF Successful, Shared, Ending, Stopped, Changed, Acknowledgment, cluster, memory
<1>9. CASE Commit(a)
  <2>1. /\ pc[a] = "linking" /\ pc'[a] = "done" /\ candidate' = candidate /\ committed'[a]
        /\ UNCHANGED <<cluster, mode, row, before, seen, proof, outcome, result, known>>
    BY <1>1, <1>9 DEF Commit, Goto, TypeOK
  <2>. QED
    BY <1>1, <2>1 DEF Successful, Shared, Ending, Stopped, Changed, cluster
<1>10. CASE AcknowledgeFails(a)
  <2>1. /\ pc[a] \in {"acking", "linking"} /\ pc'[a] = "done"
        /\ candidate'[a] \in {candidate[a], Acknowledgment(a)}
        /\ pc[a] = "acking" => committed' = committed
        /\ pc[a] = "linking" => candidate' = candidate
        /\ pc[a] = "acking" => ~committed[a]
        /\ result'[a] # "ready"
        /\ UNCHANGED <<cluster, mode, row, before, seen, proof, outcome, known>>
    BY <1>1, <1>10 DEF AcknowledgeFails, Downgrade, Goto, TypeOK, Successful, Stopped
  <2>2. Shared(a) /\ seen[a] # None
    BY <1>1, <2>1 DEF Finalizing
  <2>. QED
    BY <2>1, <2>2 DEF Successful, Shared, Ending, Stopped, Changed, Acknowledgment, cluster
<1>11. CASE Answer(a) /\ Accepts(sent[a])
  <2>1. /\ pc[a] \in Waiting /\ OnAccept(a) /\ UNCHANGED <<foreign, mode, row, before, known, disk, result>>
    BY <1>11 DEF Answer
  <2>2. candidate' = candidate /\ committed' = committed /\ ~committed[a]
    BY <2>1 DEF disk, Successful, Waiting, Stopped
  <2>3. Changed(a) => Changed(a)'
    BY ChangedForGood
  <2>4. CASE pc[a] \in {"reserving", "writing", "crediting"}
    <3>1. pc'[a] \in {"checking", "recording", "waiting"}
      BY <1>1, <2>1, <2>4 DEF OnAccept, Goto, TypeOK
    <3>2. pc[a] \in {"writing", "crediting"} \/ pc'[a] = "checking"
      BY <1>1, <2>1, <2>4 DEF OnAccept, Goto, TypeOK
    <3>. QED
      BY <2>1, <2>2, <2>3, <2>4, <3>1, <3>2 DEF Successful, Shared, Ending, Stopped
  <2>5. CASE pc[a] = "releasing"
    <3>1. pc'[a] = "acking" \/ (pc'[a] = "done" /\ mode[a] = "update" /\ ~Changed(a))
      BY <1>1, <2>1, <2>5 DEF OnAccept, Goto, TypeOK
    <3>. QED
      BY <2>1, <2>2, <2>3, <2>5, <3>1 DEF Successful, Shared, Ending, Stopped
  <2>. QED
    BY <2>1, <2>4, <2>5 DEF Waiting
<1>12. CASE GiveUp(a) \/ (Answer(a) /\ ~Accepts(sent[a]))
  <2>1. /\ pc[a] \in Waiting /\ OnError(a)
        /\ UNCHANGED <<foreign, mode, row, before, known, disk, outcome>>
    BY <1>12 DEF Answer, GiveUp, Abandon
  <2>2. candidate' = candidate /\ committed' = committed /\ ~committed[a]
    BY <2>1 DEF disk, Successful, Waiting, Stopped
  <2>3. Changed(a)' <=> Changed(a)
    BY <2>1 DEF Changed
  <2>4. /\ pc'[a] \in {"persisting", "recording", "done"}
        /\ pc[a] = "releasing" => pc'[a] = "done" /\ result'[a] # "ready"
        /\ pc[a] # "releasing" => result' = result /\ pc'[a] # "done"
        /\ pc'[a] = "recording" => pc[a] = "writing"
    BY <1>1, <2>1 DEF OnError, Waiting, Downgrade, Goto, TypeOK
  <2>. QED
    BY <2>1, <2>2, <2>3, <2>4 DEF Successful, Shared, Ending, Stopped, Waiting
<1>13. CASE Crash(a)
  <2>1. pc'[a] = "crashed" /\ UNCHANGED <<foreign, memory, disk>>
    BY <1>1, <1>13 DEF Crash, Abandon, Goto, TypeOK
  <2>. QED
    BY <2>1 DEF Successful, Shared, Ending, Stopped, Changed, memory, disk
<1>14. CASE DeliverLate(a) \/ LoseMarker(a)
  <2>1. /\ UNCHANGED <<pc, memory, candidate>>
        /\ committed'[a] => committed[a]
        /\ foreign' = 0 => foreign = 0 /\ committed' = committed
    BY <1>1, <1>14 DEF DeliverLate, LoseMarker, TypeOK, disk
  <2>. QED
    BY <2>1 DEF Successful, Shared, Ending, Stopped, Changed, memory
<1>. QED
  BY <1>3, <1>4, <1>5, <1>6, <1>7, <1>8, <1>9, <1>10, <1>11, <1>12, <1>13, <1>14 DEF StepOf, Start, Progress

-----------------------------------------------------------------------------
(* What an update relies on *)

\* While no marker was lost, the acknowledgments an update has planned with are there,
\* and it asks for the very record that it has planned with.
Followed(a) ==
  /\ mode[a] \in {"update", "noop"} /\ foreign = 0 =>
       committed[before[a].state.origin] /\ committed[Latest(before[a].state).lift]
  /\ \A r \in InFlight(a) :
       r.target = "record" /\ r.from # None /\ r.from.state.op = None =>
         mode[a] = "update" /\ r.from = before[a]

\* Only an update asks for a record that it has not reserved yet.
LEMMA FollowedRequests ==
  ASSUME IInv, NEW a \in Attempts, StepOf(a), NEW r \in InFlight(a)', r \notin InFlight(a),
         r.target = "record", r.from # None, r.from.state.op = None
  PROVE  mode'[a] = "update" /\ r.from = before'[a]
<1>1. TypeOK /\ AttemptInv(a) /\ a # None
  BY NoneAssumption DEF IInv
<1>2. sent'[a] # sent[a] \/ late'[a] # late[a]
  BY DEF InFlight
<1>3. CASE Reserve(a)
  <2>1. /\ late' = late /\ mode' = mode /\ before' = before /\ pc[a] = "prepared"
        /\ sent' = sent \/ \E state : sent'[a] = RecordWrite(a, state) /\ mode[a] # "mixed"
    BY <1>1, <1>3 DEF Reserve, Send, TypeOK, cluster
  <2>2. PICK state : r = RecordWrite(a, state) /\ mode[a] # "mixed"
    BY <2>1 DEF InFlight
  <2>3. r.from = seen[a]
    <3>1. seen[a] # None => RecordWrite(a, state).from = seen[a]
      BY DEF RecordWrite
    <3>2. seen[a] = None => RecordWrite(a, state).from = None
      BY DEF RecordWrite, Create
    <3>. QED
      BY <2>2, <3>1, <3>2
  <2>4. mode[a] = "update" /\ seen[a] = before[a]
    BY <1>1, <2>1, <2>2, <2>3 DEF AttemptInv, Planned, Early
  <2>. QED
    BY <2>1, <2>3, <2>4
<1>4. CASE Checkpoint(a) \/ Persist(a)
  <2>1. /\ late' = late
        /\ \/ sent' = sent
           \/ /\ \E state : sent'[a] = RecordWrite(a, state)
              /\ Owns(a)
    BY <1>1, <1>4 DEF Checkpoint, Persist, Send, TypeOK, cluster, AttemptInv, Finalizing, Working
  <2>2. PICK state : r = RecordWrite(a, state) /\ Owns(a)
    BY <2>1 DEF InFlight
  <2>3. r.from = seen[a]
    BY <2>2 DEF RecordWrite, Owns
  <2>. QED
    BY <1>1, <2>2, <2>3 DEF Owns
<1>5. CASE CheckRow(a)
  <2>1. /\ late' = late
        /\ sent' = sent \/ sent'[a] = ObjectWrite(a, KindAt(row[a]))
    BY <1>1, <1>5 DEF CheckRow, Send, TypeOK, cluster
  <2>2. r = ObjectWrite(a, KindAt(row[a])) /\ KindAt(row[a]) \in Kinds
    BY <2>1 DEF InFlight, KindAt, Kinds
  <2>3. r.target \in Kinds
    BY <1>1, <2>2, ObjectWriteType
  <2>. QED
    BY <2>3 DEF Kinds
<1>6. CASE Answer(a) \/ GiveUp(a) \/ Crash(a) \/ DeliverLate(a)
  <2>1. InFlight(a)' \subseteq InFlight(a)
    BY <1>1, <1>6 DEF Answer, GiveUp, Crash, DeliverLate, Abandon, TypeOK, InFlight, memory
  <2>. QED
    BY <2>1
<1>7. CASE Start(a) \/ LoseMarker(a)
  BY <1>1, <1>2, <1>7 DEF Start, PlanLift, PlanUpdate, Confirm, VerifyNoop, Prepare, Refuse,
     LoseMarker, cluster
<1>8. CASE \/ RefusePrepared(a) \/ CheckpointFails(a) \/ BecomeReady(a) \/ LoopFails(a) \/ Finish(a)
           \/ Settle(a) \/ SettleFails(a) \/ PersistFails(a) \/ PublishCandidate(a) \/ Commit(a)
           \/ AcknowledgeFails(a)
  BY <1>1, <1>2, <1>8 DEF RefusePrepared, CheckpointFails, BecomeReady, LoopFails, Finish, Settle,
     SettleFails, PersistFails, PublishCandidate, Commit, AcknowledgeFails, cluster
<1>. QED
  BY <1>3, <1>4, <1>5, <1>6, <1>7, <1>8 DEF StepOf, Progress

\* An attempt chooses its mode and its record once.
LEMMA PlannedOnce ==
  ASSUME IInv, NEW a \in Attempts, StepOf(a)
  PROVE  \/ mode'[a] = mode[a] /\ before'[a] = before[a]
         \/ PlanLift(a) /\ mode[a] = "none" /\ mode'[a] \in {"fresh", "mixed", "reuse"}
              /\ before'[a] = before[a]
         \/ PlanUpdate(a) /\ mode[a] = "none" /\ mode'[a] \in {"update", "noop"}
              /\ before'[a] = record /\ seen'[a] = record
<1>1. TypeOK /\ AttemptInv(a)
  BY DEF IInv
<1>2. CASE PlanLift(a)
  BY <1>1, <1>2 DEF PlanLift, TypeOK, AttemptInv, Planned
<1>3. CASE PlanUpdate(a)
  BY <1>1, <1>3 DEF PlanUpdate, TypeOK, AttemptInv, Planned
<1>4. CASE ~PlanLift(a) /\ ~PlanUpdate(a)
  <2>1. CASE Start(a) \/ DeliverLate(a) \/ Crash(a) \/ LoseMarker(a)
    BY <1>4, <2>1 DEF Start, Confirm, VerifyNoop, Prepare, Refuse, DeliverLate,
                Crash, Abandon, LoseMarker, memory
  <2>2. CASE Progress(a)
    BY <2>2 DEF Progress, Reserve, RefusePrepared, CheckRow, Checkpoint, CheckpointFails,
                BecomeReady, LoopFails, Finish, Settle, SettleFails, Persist, PersistFails,
                PublishCandidate, Commit, AcknowledgeFails, Answer, GiveUp, Abandon, memory
  <2>. QED
    BY <2>1, <2>2 DEF StepOf
<1>. QED
  BY <1>2, <1>3, <1>4

\* The origin and the last reviser of a record with a history are attempts.
LEMMA Revised ==
  ASSUME NEW s \in Snapshots, s.state.history # << >>
  PROVE  /\ s.state.origin \in Attempts /\ Latest(s.state) \in Revisions
         /\ Latest(s.state).lift \in Attempts
<1>1. s.state \in ReleaseStates /\ s.state.history \in Seq(Revisions)
  BY DEF Snapshots, ReleaseStates
<1>2. Latest(s.state) \in Revisions
  BY <1>1, LenProperties, EmptySeq, ElementOfSeq DEF Latest
<1>. QED
  BY <1>1, <1>2 DEF ReleaseStates, Revisions

\* No step takes a marker away, but the loss of one.
LEMMA MarkersStay ==
  ASSUME IInv, NEW a \in Attempts, StepOf(a), foreign' = 0, NEW b \in Attempts, committed[b]
  PROVE  committed'[b] /\ foreign = 0
<1>1. TypeOK
  BY DEF IInv
<1>2. foreign = 0 /\ ~LoseMarker(a)
  BY ForeignGrows
<1>3. CASE Commit(a) \/ AcknowledgeFails(a)
  BY <1>1, <1>2, <1>3 DEF Commit, AcknowledgeFails, TypeOK
<1>4. CASE ~Commit(a) /\ ~AcknowledgeFails(a)
  <2>1. committed' = committed
    <3>1. CASE Start(a) \/ DeliverLate(a) \/ Crash(a)
      BY <3>1 DEF Start, PlanLift, PlanUpdate, Confirm, VerifyNoop, Prepare, Refuse,
                  DeliverLate, Crash, disk
    <3>2. CASE Progress(a)
      BY <1>4, <3>2 DEF Progress, Reserve, RefusePrepared, CheckRow, Checkpoint, CheckpointFails,
                  BecomeReady, LoopFails, Finish, Settle, SettleFails, Persist, PersistFails,
                  PublishCandidate, Answer, GiveUp, disk
    <3>. QED
      BY <1>2, <3>1, <3>2 DEF StepOf
  <2>. QED
    BY <1>2, <2>1
<1>. QED
  BY <1>3, <1>4

\* An attempt's step plans an update only from revisions that are acknowledged, and none
\* of them is withdrawn unless something foreign happens.
LEMMA FollowedStep ==
  ASSUME IInv, IInv', NEW a \in Attempts, StepOf(a), NEW b \in Attempts, Followed(b)
  PROVE  Followed(b)'
<1>1. TypeOK /\ AttemptInv(b) /\ AttemptInv(b)' /\ TypeOK'
  BY DEF IInv
<1>2. ASSUME mode'[b] \in {"update", "noop"}, foreign' = 0
      PROVE  committed'[before'[b].state.origin] /\ committed'[Latest(before'[b].state).lift]
  <2>1. before'[b] \in Snapshots /\ before'[b].state.history # << >>
    BY <1>1, <1>2 DEF TypeOK, AttemptInv, Planned
  <2>2. before'[b].state.origin \in Attempts /\ Latest(before'[b].state).lift \in Attempts
    BY <2>1, Revised
  <2>3. CASE mode'[b] = mode[b] /\ before'[b] = before[b]
    <3>1. committed[before[b].state.origin] /\ committed[Latest(before[b].state).lift]
      BY <1>2, <2>3, ForeignGrows DEF Followed
    <3>. QED
      BY <1>2, <2>2, <2>3, <3>1, MarkersStay
  <2>4. CASE a = b /\ PlanUpdate(a) /\ before'[b] = record
    <3>1. Retained(record.state.origin) /\ Retained(Latest(record.state).lift)
      BY <2>4 DEF PlanUpdate, Eligible
    <3>2. committed' = committed
      BY <2>4 DEF PlanUpdate, disk
    <3>. QED
      BY <2>4, <3>1, <3>2 DEF Retained
  <2>. QED
    BY <1>2, <2>3, <2>4, PlannedOnce, OthersUntouched DEF Untouched, StepOf
<1>3. ASSUME NEW r \in InFlight(b)', r.target = "record", r.from # None, r.from.state.op = None
      PROVE  mode'[b] = "update" /\ r.from = before'[b]
  <2>1. CASE r \in InFlight(b)
    <3>1. mode[b] = "update" /\ r.from = before[b]
      BY <1>3, <2>1 DEF Followed
    <3>. QED
      BY <3>1, PlannedOnce, OthersUntouched DEF Untouched, StepOf
  <2>2. CASE r \notin InFlight(b)
    <3>1. a = b
      BY <2>2, OthersUntouched DEF Untouched, StepOf, InFlight
    <3>. QED
      BY <1>3, <2>2, <3>1, FollowedRequests
  <2>. QED
    BY <2>1, <2>2
<1>. QED
  BY <1>2, <1>3 DEF Followed

-----------------------------------------------------------------------------
(* The invariant behind the reports *)

Reporting(a) == Spent(a) /\ Honest(a) /\ Successful(a) /\ Followed(a)

\* Nobody else's step changes what an attempt has spent or published.
LEMMA ReportingElsewhere ==
  ASSUME NEW b \in Attempts, Untouched(b), UNCHANGED disk, foreign' = 0 => foreign = 0,
         \A k \in Kinds : live'[k] # None => live'[k].lift # b \/ (live[k] # None /\ live[k].lift = b),
         Reporting(b)
  PROVE  Reporting(b)'
<1>1. Spent(b)' /\ Honest(b)'
  BY DEF Reporting, Spent, Honest, Untouched, Writes, InFlight, disk
<1>2. Successful(b)'
  BY DEF Reporting, Successful, Untouched, Shared, Changed, disk
<1>3. Followed(b)'
  BY DEF Reporting, Followed, Untouched, InFlight, disk
<1>. QED
  BY <1>1, <1>2, <1>3 DEF Reporting

\* An attempt's step keeps what every attempt reports, its own and the others'.
LEMMA ReportingStep ==
  ASSUME IInv, IInv', NEW a \in Attempts, StepOf(a), \A b \in Attempts : Reporting(b)
  PROVE  \A b \in Attempts : Reporting(b)'
<1>1. ASSUME NEW b \in Attempts PROVE Reporting(b)'
  <2>1. Honest(b)' /\ Followed(b)'
    BY HonestStep, FollowedStep DEF Reporting
  <2>2. Spent(b)' /\ Successful(b)'
    <3>1. CASE b = a
      BY <3>1, SpentStep, SuccessfulStep DEF Reporting
    <3>2. CASE b # a
      <4>1. Still(b) /\ (foreign' = 0 => foreign = 0)
        BY <3>2, OthersStill, ForeignGrows
      <4>. QED
        BY <4>1 DEF Reporting, Still, Untouched, Spent, Successful, Shared, Changed
    <3>. QED
      BY <3>1, <3>2
  <2>. QED
    BY <2>1, <2>2 DEF Reporting
<1>. QED
  BY <1>1

\* The environment signs nothing for an attempt.
LEMMA EnvironmentSigns ==
  ASSUME IInv, TearDown \/ \E k \in Kinds : StatusUpdate(k) \/ Interfere(k)
  PROVE  /\ foreign' = 0 => foreign = 0
         /\ UNCHANGED <<late, pc, memory, sent, disk>>
         /\ \A b \in Attempts : Untouched(b)
         /\ \A b \in Attempts, k \in Kinds :
              live'[k] # None => live'[k].lift # b \/ (live[k] # None /\ live[k].lift = b)
<1>1. TypeOK
  BY DEF IInv
<1>2. UNCHANGED <<late, pc, memory, sent, disk>> /\ (foreign' = 0 => foreign = 0)
  <2>1. CASE TearDown
    BY <2>1 DEF TearDown
  <2>2. ASSUME NEW k \in Kinds, StatusUpdate(k)
        PROVE  UNCHANGED <<late, pc, memory, sent, disk>> /\ (foreign' = 0 => foreign = 0)
    BY <2>2 DEF StatusUpdate
  <2>3. ASSUME NEW k \in Kinds, Interfere(k)
        PROVE  UNCHANGED <<late, pc, memory, sent, disk>> /\ (foreign' = 0 => foreign = 0)
    <3>1. foreign \in Nat /\ foreign' = foreign + 1
      BY <1>1, <2>3 DEF Interfere, TypeOK
    <3>2. UNCHANGED <<late, pc, memory, sent, disk>>
      BY <2>3 DEF Interfere
    <3>. QED
      BY <3>1, <3>2
  <2>. QED
    BY <2>1, <2>2, <2>3
<1>3. \A b \in Attempts : Untouched(b)
  BY <1>2 DEF Untouched, memory
<1>4. ASSUME NEW b \in Attempts, NEW k \in Kinds, live'[k] # None
      PROVE  live'[k].lift # b \/ (live[k] # None /\ live[k].lift = b)
  <2>1. ~TearDown
    BY <1>4 DEF TearDown
  <2>2. PICK j \in Kinds : StatusUpdate(j) \/ Interfere(j)
    BY <2>1
  <2>3. b # Foreign
    BY AuthorsAssumption
  <2>. DEFINE o == live[j]
  <2>4. live[j] # None => o \in Objects /\ o.rv + 1 \in Nat /\ o.gen + 1 \in Nat
    BY <1>1 DEF TypeOK, Objects
  <2>5. \/ live' = [live EXCEPT ![j].rv = @ + 1] /\ live[j] # None
        \/ live' = [live EXCEPT ![j].gen = @ + 1, ![j].rv = @ + 1, ![j].spec = Foreign] /\ live[j] # None
        \/ live' = [live EXCEPT ![j].rv = @ + 1, ![j].lift = Foreign] /\ live[j] # None
        \/ live' = [live EXCEPT ![j] = None]
        \/ live' = [live EXCEPT ![j] =
                     [uid |-> Foreign, gen |-> 1, rv |-> 1, spec |-> Foreign, lift |-> Foreign]]
    BY <2>2 DEF StatusUpdate, Interfere, Missing
  <2>6. \A p \in Objects, n, g \in Nat :
          /\ [p EXCEPT !.rv = n].lift = p.lift
          /\ [p EXCEPT !.gen = g, !.rv = n, !.spec = Foreign].lift = p.lift
          /\ [p EXCEPT !.rv = n, !.lift = Foreign].lift = Foreign
    BY DEF Objects
  <2>7. live \in [Kinds -> Objects \cup {None}]
    BY <1>1 DEF TypeOK
  <2>8. CASE k = j
    <3>1. CASE live[j] # None /\ live' = [live EXCEPT ![j].rv = @ + 1]
      <4>. DEFINE n == o.rv + 1
      <4>1. live'[k] = [o EXCEPT !.rv = n]
        BY <2>4, <2>7, <2>8, <3>1 DEF Objects
      <4>2. o \in Objects /\ n \in Nat
        BY <2>4, <3>1
      <4>. HIDE DEF o, n
      <4>3. live'[k].lift = o.lift
        BY <2>6, <4>1, <4>2
      <4>. QED
        BY <2>8, <3>1, <4>3 DEF o
    <3>2. CASE live[j] # None /\ live' = [live EXCEPT ![j].gen = @ + 1, ![j].rv = @ + 1, ![j].spec = Foreign]
      <4>. DEFINE n == o.rv + 1
                  g == o.gen + 1
      <4>1. live'[k] = [o EXCEPT !.gen = g, !.rv = n, !.spec = Foreign]
        BY <2>4, <2>7, <2>8, <3>2 DEF Objects
      <4>2. o \in Objects /\ n \in Nat /\ g \in Nat
        BY <2>4, <3>2
      <4>. HIDE DEF o, n, g
      <4>3. live'[k].lift = o.lift
        BY <2>6, <4>1, <4>2
      <4>. QED
        BY <2>8, <3>2, <4>3 DEF o
    <3>3. CASE live[j] # None /\ live' = [live EXCEPT ![j].rv = @ + 1, ![j].lift = Foreign]
      <4>. DEFINE n == o.rv + 1
      <4>1. live'[k] = [o EXCEPT !.rv = n, !.lift = Foreign]
        BY <2>4, <2>7, <2>8, <3>3 DEF Objects
      <4>2. o \in Objects /\ n \in Nat
        BY <2>4, <3>3
      <4>. HIDE DEF o, n
      <4>3. live'[k].lift = Foreign
        BY <2>6, <4>1, <4>2
      <4>. QED
        BY <2>3, <4>3
    <3>4. CASE live' = [live EXCEPT ![j] = None]
      BY <1>4, <2>7, <2>8, <3>4
    <3>5. CASE live' = [live EXCEPT ![j] =
                     [uid |-> Foreign, gen |-> 1, rv |-> 1, spec |-> Foreign, lift |-> Foreign]]
      BY <2>3, <2>7, <2>8, <3>5
    <3>. QED
      BY <2>5, <3>1, <3>2, <3>3, <3>4, <3>5
  <2>9. CASE k # j
    BY <1>4, <2>5, <2>7, <2>9
  <2>. QED
    BY <2>8, <2>9
<1>. QED
  BY <1>2, <1>3, <1>4

Reports == \A a \in Attempts : Reporting(a)

\* What the attempts report is an invariant of the protocol.
LEMMA ReportingInv == Spec => []Reports
<1>1. ASSUME Init PROVE Reports
  <2>1. ASSUME NEW a \in Attempts PROVE Spent(a) /\ Successful(a) /\ Followed(a)
    BY <1>1 DEF Init, Spent, Successful, Followed, Shared, InFlight, Stopped
  <2>2. ASSUME NEW a \in Attempts PROVE Honest(a)
    BY <1>1, AuthorsAssumption DEF Init, Honest, Writes, InFlight, EvaluatedObject
  <2>. QED
    BY <2>1, <2>2 DEF Reporting, Reports
<1>2. ASSUME IInv, IInv', [Next]_vars, Reports
      PROVE  Reports'
  <2>. SUFFICES ASSUME \A a \in Attempts : Reporting(a)
                PROVE  \A a \in Attempts : Reporting(a)'
    BY <1>2 DEF Reports
  <2>1. CASE UNCHANGED vars
    BY <1>2, <2>1, ReportingElsewhere DEF vars, Untouched, disk
  <2>2. CASE \E a \in Attempts : StepOf(a)
    BY <1>2, <2>2, ReportingStep
  <2>3. CASE TearDown \/ \E k \in Kinds : StatusUpdate(k) \/ Interfere(k)
    BY <1>2, <2>3, EnvironmentSigns, ReportingElsewhere
  <2>. QED
    BY <1>2, <2>1, <2>2, <2>3 DEF Next, StepOf
<1>. QED
  BY <1>1, <1>2, Inductive, PTL DEF Spec

(***************************************************************************)
(* The numbered snapshots of an attempt directory never run out: the fifth is  *)
(* free when the acknowledgment is published.                               *)
(***************************************************************************)
THEOREM SlotsAreEnough == Spec => []SlotsSuffice
<1>1. ASSUME IInv, NEW a \in Attempts, Reporting(a)
      PROVE  /\ pc[a] \in {"recording", "persisting"} => slots[a] < 4
             /\ pc[a] = "acking" => slots[a] <= 4
  <2>1. /\ slots[a] \in Nat /\ row[a] \in 1..3
        /\ pc[a] = "recording" => row[a] \in {1, 2}
    BY <1>1 DEF IInv, TypeOK, AttemptInv, Rows
  <2>. QED
    BY <1>1, <2>1 DEF Reporting, Spent
<1>2. IInv /\ Reports => SlotsSuffice
  BY <1>1 DEF SlotsSuffice, Reports
<1>. QED
  BY <1>2, ReportingInv, Inductive, PTL

(***************************************************************************)
(* The outcome of an object is announced before its request is sent, so an     *)
(* object that a report calls untouched never carries the lift of that attempt. *)
(***************************************************************************)
THEOREM EffectsReported == Spec => []EffectReportIsTrue
<1>1. Reports => EffectReportIsTrue
  BY DEF Reports, Reporting, Honest, EffectReportIsTrue
<1>. QED
  BY <1>1, ReportingInv, PTL

(***************************************************************************)
(* ApplyReleaseLift and applyReleaseUpdate return success only after their      *)
(* acknowledgment of exactly that pair was committed.                       *)
(***************************************************************************)
THEOREM SuccessAcknowledged == Spec => []SuccessIsAcknowledged
<1>1. Reports => SuccessIsAcknowledged
  BY DEF Reports, Reporting, Successful, SuccessIsAcknowledged
<1>. QED
  BY <1>1, ReportingInv, PTL

(***************************************************************************)
(* prepareReleaseUpdate's eligibility still holds when the reservation is       *)
(* made: the record is the one it was planned with, acknowledged from its       *)
(* origin to its last revision.                                             *)
(***************************************************************************)
THEOREM UpdatesFollow == Spec => UpdatesFollowAcknowledgment
<1>. DEFINE Follows(a) ==
       /\ foreign = 0 /\ record # None /\ record' # None
       /\ record.state.op = None /\ record'.state.op = a
       => /\ committed[record.state.origin]
          /\ committed[Latest(record.state).lift]
          /\ record.state = before[a].state
<1>1. ASSUME IInv, Reports, Next, NEW a \in Updaters,
             foreign = 0, record # None, record' # None, record.state.op = None, record'.state.op = a
      PROVE  /\ committed[record.state.origin]
             /\ committed[Latest(record.state).lift]
             /\ record.state = before[a].state
  <2>1. a \in Attempts /\ a # None
    BY UpdatersAssumption, NoneAssumption
  <2>2. PICK b \in Attempts : StepOf(b)
    <3>1. ~TearDown /\ \A k \in Kinds : ~StatusUpdate(k) /\ ~Interfere(k)
      BY <1>1, <2>1 DEF TearDown, StatusUpdate, Interfere
    <3>. QED
      BY <1>1, <3>1 DEF Next, StepOf
  <2>3. PICK r \in InFlight(b) : Served(r)
    BY <1>1, <2>1, <2>2, ByRequest
  <2>4. r.target = "record" /\ r.from = record /\ b = a
    BY <1>1, <2>1, <2>3, Serving
  <2>. QED
    BY <1>1, <2>1, <2>3, <2>4 DEF Reports, Reporting, Followed
<1>2. IInv /\ Reports /\ [Next]_vars =>
        [\A a \in Updaters : Follows(a)]_vars
  BY <1>1
<1>. QED
  BY <1>2, Inductive, ReportingInv, PTL DEF UpdatesFollowAcknowledgment, Spec

=============================================================================
