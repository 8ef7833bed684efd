----------------------- MODULE ModelConnection_proofs -----------------------
(***************************************************************************)
(* What ModelConnection promises for any number of runs, Pods, kinds and     *)
(* faults.  Only one run is under way at a time, so the argument is about     *)
(* what the record says: which effects it names, which it has retired, and    *)
(* what a request that arrives late can still find.                        *)
(***************************************************************************)
EXTENDS ModelConnection, WellFoundedInduction, TLAPS

-----------------------------------------------------------------------------
(* The inductive invariant *)

Resting == {"idle", "done"}

\* An object of connection c under the name of kind k.
Owned(c, k) == object[k] # None /\ object[k].uid = c

\* Nothing of the gateway of connection c is left.
Gone(c) ==
  /\ ~Owned(c, "Deployment")
  /\ replicas # None => replicas.owner # c
  /\ \A p \in Pods : pod[p].owner = c => ~pod[p].running /\ ~pod[p].api

\* And nothing is under way that could bring it back.
Dead(c) == Gone(c) /\ \A r \in requests : r.verb = "create" => r.by # c

\* Only the holder of the lock is under way, and nobody else remembers anything.
Alone(a) ==
  /\ (lock = a) = (pc[a] \notin Resting)
  /\ pc[a] \notin {"creating", "deleting"} => asked[a] = None /\ reply[a] = "none"

\* The record of a connection, whoever works on it.
Chain(c) ==
  /\ pc[c] \in {"idle", "absent", "family"} => family[c] = NoFamily
  /\ family[c].stage # "saved" \/ family[c].complete =>
       family[c].resources = {} /\ family[c].pending = None
  /\ family[c].stage # "saved" => ~family[c].complete

OneUnfinished == \A c, e \in Connects : Unfinished(c) /\ Unfinished(e) => c = e

\* A gateway that the record does not name is dead.
Accounted(c) ==
  "Deployment" \in family[c].resources \/ IsPending(c, "create", "Deployment") \/ Gone(c)

\* A DELETE on its way finds the object it was sent for as it was read, or in vain.
Late(q) ==
  /\ pc[q.uid] = "done"
  /\ family[q.uid].pending # None => family[q.uid].pending.verb = "delete"
  /\ Owned(q.uid, q.kind) =>
       /\ q.version <= object[q.kind].version
       /\ object[q.kind].terminating => q.version < object[q.kind].version
       /\ q.version = object[q.kind].version =>
            /\ ~object[q.kind].edited
            /\ q.kind \in family[q.uid].resources
            /\ IsPending(q.uid, "delete", q.kind)

Creating(c) == [verb |-> "create", by |-> c, kind |-> work[c], uid |-> c, version |-> 0]

Connecting(c) ==
  /\ pc[c] \in {"absent", "family"} => conn[c] = c /\ anchor = None /\ AllFinished
  /\ pc[c] = "absent" => work[c] \in Kinds
  /\ pc[c] = "anchor" => conn[c] = c /\ anchor = None /\ family[c].stage = "made"
  /\ pc[c] = "zero" => conn[c] = c /\ anchor = c /\ family[c].stage = "made"
  /\ pc[c] \in {"intent", "create", "creating"} =>
       conn[c] = c /\ anchor = c /\ Unfinished(c) /\ family[c].stage = "saved" /\ work[c] \in Kinds
  /\ pc[c] = "intent" => family[c].pending = None
  /\ pc[c] \in {"create", "creating"} =>
       family[c].pending = [verb |-> "create", kind |-> work[c], by |-> c, children |-> {}]
  /\ pc[c] = "create" => \A r \in requests : r.verb = "delete"
  /\ pc[c] = "creating" =>
       /\ asked[c] = Creating(c)
       /\ \A r \in requests : r.verb = "create" => r = asked[c] /\ reply[c] = "none"
  /\ pc[c] \in {"reuse", "serving", "recheck", "ready"} =>
       /\ conn[c] = anchor /\ anchor # None
       /\ family[anchor].stage = "saved" /\ ~family[anchor].complete
       /\ family[anchor].pending = None

AtRoot == {"intent", "reread", "send", "deleting", "wait", "closure", "processes", "retire"}

Disconnecting(d) ==
  LET c == conn[d]
      k == work[d]
  IN pc[d] # "idle" =>
       /\ c = anchor /\ anchor # None /\ pc[c] = "done"
       /\ family[c].stage = "saved"
       /\ family[c].complete = (pc[d] = "finish")
       /\ family[c].pending # None => family[c].pending.verb = "delete"
       /\ stopped[d] => Dead(c)
       /\ pc[d] \in AtRoot =>
            /\ k \in family[c].resources
            /\ family[c].pending # None => family[c].pending.kind = k
       /\ pc[d] \in {"reread", "send", "deleting"} => family[c].pending # None
       /\ pc[d] \in {"closure", "processes", "retire"} => ~Owned(c, k)
       /\ pc[d] = "processes" => k = "Deployment" /\ ChildrenOf(c) = {}
       /\ pc[d] = "retire" /\ k = "Deployment" => stopped[d]

Reported ==
  report.state = "stopped" =>
    report.of \in Connects /\ Dead(report.of) /\ pc[report.of] = "done"

Aged(k) ==
  object[k] # None => object[k].version <= faults + (IF object[k].terminating THEN 1 ELSE 0)

Created(r) == r.uid = r.by /\ r.version = 0

WorldTypes ==
  /\ object \in [Kinds -> Objects \cup {None}]
  /\ replicas \in ReplicaSets \cup {None}
  /\ pod \in [Pods -> [owner : Connects \cup {None}, api : BOOLEAN, running : BOOLEAN]]
  /\ requests \subseteq Requests
  /\ anchor \in Connects \cup {None}
  /\ family \in [Connects -> Families]
  /\ faults \in 0 .. MaxFaults

Places ==
  /\ \A c \in Connects : pc[c] \in ConnectSteps
  /\ \A d \in Disconnects : pc[d] \in DisconnectSteps
  /\ DOMAIN pc = Attempts

LocalTypes ==
  /\ conn \in [Attempts -> Connects \cup {None}]
  /\ work \in [Attempts -> Kinds \cup {None}]
  /\ seen \in [Attempts -> SUBSET Children]
  /\ kids \in [Disconnects -> SUBSET Children]
  /\ asked \in [Attempts -> Requests \cup {None}]
  /\ reply \in [Attempts -> {"ok", "refused", "none"}]
  /\ stopped \in [Disconnects -> BOOLEAN]

ReportType == report \in [of : Connects \cup {None}, state : {"unknown", "ready", "stopped"}]

\* What the record and the cluster say of each other.
World ==
  /\ \A c \in Connects : Chain(c)
  /\ OneUnfinished
  /\ EffectsAreRecorded
  /\ \A c \in Connects : Accounted(c)
  /\ \A q \in requests : IF q.verb = "delete" THEN Late(q) ELSE Created(q)
  /\ \A k \in Kinds : Aged(k)
  /\ Reported

\* What a run knows.
Runs ==
  /\ \A a \in Attempts : Alone(a)
  /\ \A c \in Connects : Connecting(c)
  /\ \A d \in Disconnects : Disconnecting(d)

IInv == TypeOK /\ World /\ Runs

-----------------------------------------------------------------------------
(* Kinds and constants *)

\* Every nonempty set of numbers has a smallest.
LEMMA Smallest ==
  ASSUME NEW T, T \subseteq Nat, T # {}
  PROVE  \E m \in T : \A j \in T : ~(j < m)
<1>1. \E m \in T : \A j \in T : ~(<<j, m>> \in OpToRel(<, Nat))
  BY NatLessThanWellFounded, WFMin
<1>. QED
  BY <1>1 DEF OpToRel

\* The kind that disconnect deletes next is one of those left.
LEMMA NextIsLeft ==
  ASSUME NEW left, left \subseteq Kinds, left # {}
  PROVE  NextToDelete(left) \in left
<1>. DEFINE T == {i \in DOMAIN DeleteOrder : DeleteOrder[i] \in left}
<1>1. DOMAIN DeleteOrder = 1 .. Len(DeleteOrder) /\ Len(DeleteOrder) \in Nat
  BY OrdersAssumption
<1>2. T \subseteq Nat /\ T # {}
  BY <1>1, OrdersAssumption
<1>. HIDE DEF T
<1>3. PICK m \in T : \A j \in T : ~(j < m)
  BY <1>2, Smallest
<1>4. m \in DOMAIN DeleteOrder /\ DeleteOrder[m] \in left
  BY DEF T
<1>5. ASSUME NEW j \in 1 .. m - 1 PROVE DeleteOrder[j] \notin left
  BY <1>1, <1>3, <1>4 DEF T
<1>. QED
  BY <1>4, <1>5 DEF NextToDelete

\* The order of the kinds names kinds, and ends.
LEMMA KindsNamed ==
  /\ First \in Kinds /\ "Deployment" \in Kinds /\ None \notin Kinds
  /\ \A k \in Kinds : After(k) \in Kinds \cup {None}
<1>1. /\ DOMAIN CreateOrder = 1 .. Len(CreateOrder) /\ Len(CreateOrder) \in Nat
      /\ CreateOrder \in Seq(Kinds)
  BY OrdersAssumption
<1>2. Len(CreateOrder) >= 1
  BY <1>1, OrdersAssumption DEF Kinds
<1>3. ASSUME NEW k \in Kinds PROVE After(k) \in Kinds \cup {None}
  <2>. DEFINE i == CHOOSE i \in DOMAIN CreateOrder : CreateOrder[i] = k
  <2>1. i \in DOMAIN CreateOrder
    BY <1>3 DEF Kinds
  <2>. HIDE DEF i
  <2>2. i # Len(CreateOrder) => CreateOrder[i + 1] \in Kinds
    BY <1>1, <2>1 DEF Kinds
  <2>. QED
    BY <2>2 DEF After, i
<1>. QED
  BY <1>1, <1>2, <1>3, OrdersAssumption DEF First, Kinds

\* None is nothing that is stored in a variable.
LEMMA NotNone ==
  /\ None \notin Attempts /\ None \notin Pods /\ None \notin Connects /\ Foreign \notin Connects
  /\ None \notin Pending /\ None \notin Objects /\ None \notin Requests /\ None \notin ReplicaSets
  /\ \A a \in Disconnects : a \notin Connects
BY NoneAssumption, AttemptsAssumption DEF Attempts

-----------------------------------------------------------------------------
(* How a run moves *)

\* The types, by the parts that steps leave alone together.
LEMMA Types ==
  TypeOK <=> WorldTypes /\ Places /\ lock \in Attempts \cup {None} /\ LocalTypes /\ ReportType
BY DEF TypeOK, WorldTypes, Places, LocalTypes, ReportType

\* The same of the next state.
LEMMA TypesAfter ==
  TypeOK' <=> WorldTypes' /\ Places' /\ lock' \in Attempts \cup {None} /\ LocalTypes' /\ ReportType'
BY DEF TypeOK, WorldTypes, Places, LocalTypes, ReportType

\* What is untouched keeps its type.
LEMMA SameWorldTypes ==
  ASSUME WorldTypes, UNCHANGED <<cluster, requests, record, faults>>
  PROVE  WorldTypes'
BY DEF WorldTypes, cluster, record

\* A move changes the place of one run.
LEMMA Moved ==
  ASSUME Places, NEW a \in Attempts, NEW step, Go(a, step),
         a \in Connects => step \in ConnectSteps,
         a \in Disconnects => step \in DisconnectSteps
  PROVE  /\ Places' /\ pc'[a] = step
         /\ \A o \in Attempts : o # a => pc'[o] = pc[o]
<1>1. DOMAIN pc = Attempts /\ pc' = [pc EXCEPT ![a] = step]
  BY DEF Places, Go
<1>2. DOMAIN pc' = Attempts /\ pc'[a] = step /\ \A o \in Attempts : o # a => pc'[o] = pc[o]
  BY <1>1
<1>. QED
  BY <1>2 DEF Places, Attempts

\* Whoever is not under way knows nothing that could become wrong.
LEMMA OthersRest ==
  ASSUME IInv, NEW a \in Attempts, lock \in {None, a}, lock' \in {None, a},
         \A o \in Attempts : o # a => pc'[o] = pc[o] /\ asked'[o] = asked[o] /\ reply'[o] = reply[o]
  PROVE  \A o \in Attempts : o # a =>
           /\ Alone(o)'
           /\ o \in Connects => Connecting(o)'
           /\ o \in Disconnects => Disconnecting(o)'
<1>. SUFFICES ASSUME NEW o \in Attempts, o # a
              PROVE  /\ Alone(o)'
                     /\ o \in Connects => Connecting(o)'
                     /\ o \in Disconnects => Disconnecting(o)'
  OBVIOUS
<1>1. lock # o /\ lock' # o
  BY NotNone
<1>2. pc[o] \in Resting /\ pc'[o] = pc[o] /\ asked'[o] = None /\ reply'[o] = "none"
  BY <1>1 DEF IInv, Runs, Alone, Resting
<1>3. Alone(o)'
  BY <1>1, <1>2 DEF Alone
<1>4. ASSUME o \in Connects PROVE Connecting(o)'
  BY <1>2 DEF Connecting, Resting
<1>5. ASSUME o \in Disconnects PROVE Disconnecting(o)'
  <2>1. pc[o] = "idle"
    BY <1>2, <1>5 DEF IInv, TypeOK, DisconnectSteps, Resting
  <2>. QED
    BY <1>2, <2>1 DEF Disconnecting
<1>. QED
  BY <1>3, <1>4, <1>5

\* For a step of the run with the lock only its own part has to be shown.
LEMMA RunStep ==
  ASSUME IInv, NEW a \in Attempts, lock \in {None, a}, lock' \in {None, a},
         \A o \in Attempts : o # a => pc'[o] = pc[o] /\ asked'[o] = asked[o] /\ reply'[o] = reply[o],
         TypeOK', World', Alone(a)',
         a \in Connects => Connecting(a)',
         a \in Disconnects => Disconnecting(a)'
  PROVE  IInv'
<1>1. \A o \in Attempts : Alone(o)'
  BY OthersRest
<1>2. \A c \in Connects : Connecting(c)'
  BY OthersRest DEF Attempts
<1>3. \A d \in Disconnects : Disconnecting(d)'
  BY OthersRest DEF Attempts
<1>. QED
  BY <1>1, <1>2, <1>3 DEF IInv, Runs

\* A run that touches neither the cluster nor the record.
LEMMA SameWorld ==
  ASSUME IInv, UNCHANGED <<cluster, requests, record>>,
         faults \in Nat, faults' \in Nat, faults <= faults',
         \A c \in Connects : pc[c] = "done" => pc'[c] = "done",
         \A c \in Connects : pc'[c] \in {"idle", "absent", "family"} =>
                               pc[c] \in {"idle", "absent", "family"},
         Reported'
  PROVE  World'
<1>1. /\ object' = object /\ replicas' = replicas /\ pod' = pod /\ requests' = requests
      /\ anchor' = anchor /\ family' = family
  BY DEF cluster, record
<1>2. \A c \in Connects : Chain(c)'
  BY <1>1 DEF IInv, World, Chain
<1>3. OneUnfinished'
  BY <1>1 DEF IInv, World, OneUnfinished, Unfinished
<1>4. EffectsAreRecorded'
  BY <1>1 DEF IInv, World, EffectsAreRecorded, Unfinished, IsPending
<1>5. \A c \in Connects : Accounted(c)'
  BY <1>1 DEF IInv, World, Accounted, IsPending, Gone, Owned
<1>6. ASSUME NEW q \in requests PROVE (IF q.verb = "delete" THEN Late(q) ELSE Created(q))'
  <2>1. CASE q.verb = "delete"
    <3>1. Late(q) /\ q.uid \in Connects
      BY <2>1 DEF IInv, World, TypeOK, Requests
    <3>. QED
      BY <1>1, <2>1, <3>1 DEF Late, Owned, IsPending
  <2>2. CASE q.verb # "delete"
    BY <2>2 DEF IInv, World, Created
  <2>. QED
    BY <2>1, <2>2
<1>7. \A k \in Kinds : Aged(k)'
  <2>. SUFFICES ASSUME NEW k \in Kinds, object[k] # None PROVE Aged(k)'
    BY <1>1 DEF Aged
  <2>1. Aged(k) /\ object[k].version \in Nat /\ object[k].terminating \in BOOLEAN
    BY FaultsAssumption DEF IInv, World, TypeOK, Objects, Versions
  <2>. QED
    BY <1>1, <2>1 DEF Aged
<1>. QED
  BY <1>1, <1>2, <1>3, <1>4, <1>5, <1>6, <1>7 DEF World

\* What was reported stays true as long as nothing new is sent for a finished connection.
LEMMA SameReport ==
  ASSUME IInv, report' = report, UNCHANGED cluster,
         \A c \in Connects : pc[c] = "done" => pc'[c] = "done",
         \A r \in requests' : r \in requests \/ r.verb = "delete" \/ pc[r.by] # "done"
  PROVE  Reported'
<1>1. object' = object /\ replicas' = replicas /\ pod' = pod
  BY DEF cluster
<1>. QED
  BY <1>1 DEF IInv, World, Reported, Dead, Gone, Owned

\* A step of the run under way, or its first one, that touches nothing but its memory.
LEMMA QuietStep ==
  ASSUME IInv, NEW a \in Attempts, NEW step, lock \in {None, a}, lock' = a, Go(a, step),
         step \notin Resting, pc[a] # "done",
         a \in Connects => step \in ConnectSteps,
         a \in Disconnects => step \in DisconnectSteps,
         step \in {"absent", "family"} => pc[a] \in {"idle", "absent", "family"},
         \A o \in Attempts : o # a => asked'[o] = asked[o] /\ reply'[o] = reply[o],
         asked'[a] = None, reply'[a] = "none",
         UNCHANGED <<cluster, requests, record, report, faults>>,
         LocalTypes',
         a \in Connects => Connecting(a)',
         a \in Disconnects => Disconnecting(a)'
  PROVE  IInv'
<1>1. Places' /\ pc'[a] = step /\ \A o \in Attempts : o # a => pc'[o] = pc[o]
  BY Moved, Types DEF IInv
<1>2. TypeOK'
  BY <1>1, Types, TypesAfter, SameWorldTypes DEF IInv, ReportType
<1>3. /\ \A c \in Connects : pc[c] = "done" => pc'[c] = "done"
      /\ \A c \in Connects : pc'[c] \in {"idle", "absent", "family"} =>
                               pc[c] \in {"idle", "absent", "family"}
  BY <1>1 DEF Attempts, Resting
<1>4. Reported'
  BY <1>3, SameReport
<1>5. faults \in Nat /\ faults' \in Nat /\ faults <= faults'
  BY FaultsAssumption DEF IInv, TypeOK
<1>6. World'
  BY <1>3, <1>4, <1>5, SameWorld
<1>7. Alone(a)'
  BY <1>1 DEF Alone
<1>. QED
  BY <1>1, <1>2, <1>6, <1>7, RunStep

\* The run ends and forgets.
LEMMA Ending ==
  ASSUME IInv, NEW a \in Attempts, lock = a, NEW result \in {"unknown", "ready", "stopped"},
         End(a, result)
  PROVE  /\ Places' /\ LocalTypes' /\ ReportType' /\ lock' = None
         /\ pc'[a] = IF a \in Connects THEN "done" ELSE "idle"
         /\ \A o \in Attempts : o # a => pc'[o] = pc[o] /\ asked'[o] = asked[o] /\ reply'[o] = reply[o]
         /\ Alone(a)'
         /\ a \in Connects => Connecting(a)'
         /\ a \in Disconnects => Disconnecting(a)'
<1>. DEFINE step == IF a \in Connects THEN "done" ELSE "idle"
<1>1. Places' /\ pc'[a] = step /\ \A o \in Attempts : o # a => pc'[o] = pc[o]
  <2>1. Go(a, step)
    BY DEF End
  <2>2. /\ a \in Connects => step \in ConnectSteps
        /\ a \in Disconnects => step \in DisconnectSteps
    BY NotNone DEF ConnectSteps, DisconnectSteps
  <2>. QED
    BY <2>1, <2>2, Moved, Types DEF IInv
<1>2. /\ LocalTypes' /\ asked'[a] = None /\ reply'[a] = "none"
      /\ \A o \in Attempts : o # a => asked'[o] = asked[o] /\ reply'[o] = reply[o]
  BY DEF End, LocalTypes, IInv, TypeOK
<1>3. ReportType'
  BY DEF End, ReportType, Unknown, IInv, TypeOK
<1>4. lock' = None
  BY DEF End
<1>5. pc'[a] \in Resting
  BY <1>1 DEF Resting
<1>6. Alone(a)'
  BY <1>2, <1>4, <1>5, NotNone DEF Alone
<1>7. a \in Connects => Connecting(a)'
  BY <1>1 DEF Connecting
<1>8. a \in Disconnects => Disconnecting(a)'
  BY <1>1, NotNone DEF Disconnecting
<1>. QED
  BY <1>1, <1>2, <1>3, <1>4, <1>6, <1>7, <1>8

\* A run may end anywhere, and may claim what it knows.
LEMMA EndStep ==
  ASSUME IInv, NEW a \in Attempts, lock = a, NEW result \in {"unknown", "ready", "stopped"},
         End(a, result), result = "stopped" => a \in Disconnects /\ stopped[a],
         UNCHANGED <<cluster, requests, record>>,
         faults' \in 0 .. MaxFaults, faults <= faults'
  PROVE  IInv'
<1>1. /\ Places' /\ LocalTypes' /\ ReportType' /\ lock' = None
      /\ pc'[a] = IF a \in Connects THEN "done" ELSE "idle"
      /\ \A o \in Attempts : o # a => pc'[o] = pc[o] /\ asked'[o] = asked[o] /\ reply'[o] = reply[o]
      /\ Alone(a)'
      /\ a \in Connects => Connecting(a)'
      /\ a \in Disconnects => Disconnecting(a)'
  BY Ending
<1>2. WorldTypes'
  BY Types DEF WorldTypes, IInv, cluster, record
<1>3. TypeOK'
  BY <1>1, <1>2, TypesAfter
<1>4. /\ \A c \in Connects : pc[c] = "done" => pc'[c] = "done"
      /\ \A c \in Connects : pc'[c] \in {"idle", "absent", "family"} =>
                               pc[c] \in {"idle", "absent", "family"}
  BY <1>1 DEF Attempts
<1>5. Reported'
  <2>1. CASE result = "stopped"
    <3>. PICK e : e = conn[a]
      OBVIOUS
    <3>1. report' = [of |-> e, state |-> "stopped"]
      BY <2>1 DEF End
    <3>2. pc[a] # "idle" /\ a \in Disconnects /\ stopped[a]
      BY <2>1 DEF IInv, Runs, Alone, Resting
    <3>3. e \in Connects /\ Dead(e) /\ pc[e] = "done"
      BY <3>2 DEF IInv, Runs, Disconnecting, TypeOK
    <3>4. Dead(e)' /\ pc'[e] = "done"
      BY <1>4, <3>3 DEF Dead, Gone, Owned, cluster
    <3>5. report'.of = e
      BY <3>1
    <3>. QED
      BY <3>3, <3>4, <3>5, Zenon DEF Reported
  <2>2. CASE result # "stopped"
    BY <2>2 DEF End, Reported, Unknown
  <2>. QED
    BY <2>1, <2>2
<1>6. faults \in Nat /\ faults' \in Nat /\ faults <= faults'
  BY FaultsAssumption DEF IInv, TypeOK
<1>7. World'
  BY <1>4, <1>5, <1>6, SameWorld
<1>. QED
  BY <1>1, <1>3, <1>7, RunStep

-----------------------------------------------------------------------------
(* ConnectOrkaModel: steps that leave the record alone *)

\* Who is under way holds the lock.
LEMMA UnderWay ==
  ASSUME IInv, NEW a \in Attempts, pc[a] \notin Resting
  PROVE  lock = a
BY DEF IInv, Runs, Alone

\* A run that waits for no answer has none.
LEMMA Unasked ==
  ASSUME IInv, NEW a \in Attempts, pc[a] \notin {"creating", "deleting"}
  PROVE  asked[a] = None /\ reply[a] = "none"
BY DEF IInv, Runs, Alone

\* A step that can only end one run that was not under way, whoever holds the lock.
LEMMA RefuseConnectStep ==
  ASSUME IInv, NEW c \in Connects, RefuseConnect(c)
  PROVE  IInv'
<1>1. /\ pc[c] = "idle" /\ Go(c, "done")
      /\ UNCHANGED <<cluster, requests, record, report, faults>>
      /\ lock' = lock /\ conn' = conn /\ work' = work /\ seen' = seen /\ kids' = kids
      /\ asked' = asked /\ reply' = reply /\ stopped' = stopped
  BY DEF RefuseConnect, locals
<1>2. Places' /\ pc'[c] = "done" /\ \A o \in Attempts : o # c => pc'[o] = pc[o]
  BY <1>1, Moved, Types, NotNone DEF IInv, ConnectSteps, Attempts
<1>3. TypeOK'
  BY <1>1, <1>2, Types, TypesAfter, SameWorldTypes DEF IInv, LocalTypes, ReportType
<1>4. /\ \A e \in Connects : pc[e] = "done" => pc'[e] = "done"
      /\ \A e \in Connects : pc'[e] \in {"idle", "absent", "family"} =>
                               pc[e] \in {"idle", "absent", "family"}
  BY <1>2 DEF Attempts
<1>5. Reported'
  BY <1>1, <1>4, SameReport
<1>6. World'
  BY <1>1, <1>4, <1>5, SameWorld, FaultsAssumption DEF IInv, TypeOK
<1>7. ASSUME NEW a \in Attempts PROVE Alone(a)'
  BY <1>1, <1>2 DEF IInv, Runs, Alone, Resting
<1>8. ASSUME NEW e \in Connects PROVE Connecting(e)'
  <2>1. CASE e = c
    BY <1>2, <2>1 DEF Connecting
  <2>2. CASE e # c
    <3>1. Connecting(e) /\ pc'[e] = pc[e]
      BY <1>2, <2>2 DEF IInv, Runs, Attempts
    <3>. QED
      BY <1>1, <3>1 DEF Connecting, AllFinished, Unfinished, Creating, record
  <2>. QED
    BY <2>1, <2>2
<1>9. ASSUME NEW d \in Disconnects PROVE Disconnecting(d)'
  <2>1. Disconnecting(d) /\ pc'[d] = pc[d]
    BY <1>2, NotNone DEF IInv, Runs, Attempts
  <2>2. conn[d] # None /\ pc[conn[d]] = "done" => pc'[conn[d]] = "done"
    BY <1>4 DEF IInv, TypeOK, Attempts
  <2>. QED
    BY <1>1, <2>1, <2>2 DEF Disconnecting, Dead, Gone, Owned, ChildrenOf, record, cluster
<1>. QED
  BY <1>3, <1>6, <1>7, <1>8, <1>9 DEF IInv, Runs

\* A fresh connect starts only when every earlier family is completed.
LEMMA OpenFreshStep ==
  ASSUME IInv, NEW c \in Connects, OpenFresh(c)
  PROVE  IInv'
<1>1. c \in Attempts /\ pc[c] = "idle" /\ lock = None /\ lock' = c /\ Go(c, "absent")
  BY DEF OpenFresh, Attempts
<1>2. /\ UNCHANGED <<cluster, requests, record, report, faults>>
      /\ seen' = seen /\ kids' = kids /\ asked' = asked /\ reply' = reply /\ stopped' = stopped
      /\ conn' = [conn EXCEPT ![c] = c] /\ work' = [work EXCEPT ![c] = First]
  BY DEF OpenFresh
<1>3. LocalTypes' /\ conn'[c] = c /\ work'[c] = First
  BY <1>1, <1>2, KindsNamed DEF IInv, TypeOK, LocalTypes
<1>4. pc'[c] = "absent"
  BY <1>1, Moved, Types, NotNone DEF IInv, ConnectSteps
<1>5. Connecting(c)'
  BY <1>2, <1>3, <1>4, KindsNamed DEF Connecting, OpenFresh, AllFinished, record
<1>. QED
  BY <1>1, <1>2, <1>3, <1>5, QuietStep, Unasked, NotNone DEF Resting, ConnectSteps

\* A connect of the retained connection finds it open and without a pending action.
LEMMA OpenRetainedStep ==
  ASSUME IInv, NEW c \in Connects, OpenRetained(c)
  PROVE  IInv'
<1>1. c \in Attempts /\ pc[c] = "idle" /\ lock = None /\ lock' = c /\ Go(c, "reuse")
  BY DEF OpenRetained, Attempts
<1>2. /\ UNCHANGED <<cluster, requests, record, report, faults>>
      /\ seen' = seen /\ kids' = kids /\ asked' = asked /\ reply' = reply /\ stopped' = stopped
      /\ conn' = [conn EXCEPT ![c] = anchor] /\ work' = work
  BY DEF OpenRetained
<1>3. LocalTypes' /\ conn'[c] = anchor
  BY <1>1, <1>2 DEF IInv, TypeOK, LocalTypes
<1>4. pc'[c] = "reuse"
  BY <1>1, Moved, Types, NotNone DEF IInv, ConnectSteps
<1>5. Connecting(c)'
  BY <1>2, <1>3, <1>4 DEF Connecting, OpenRetained, record
<1>. QED
  BY <1>1, <1>2, <1>3, <1>5, QuietStep, Unasked, NotNone DEF Resting, ConnectSteps

\* A connect that works on a retained or a completed connection goes on.
LEMMA ServingStep ==
  ASSUME IInv, NEW c \in Connects, NEW step \in {"serving", "recheck", "ready"},
         pc[c] \in {"reuse", "serving", "recheck"}, Go(c, step),
         UNCHANGED <<cluster, requests, lock, record, conn, asked, reply, report, faults>>,
         LocalTypes'
  PROVE  IInv'
<1>1. c \in Attempts /\ lock = c /\ lock' = c
  BY UnderWay DEF Attempts, Resting
<1>2. step \in ConnectSteps /\ step \notin Resting
  BY DEF ConnectSteps, Resting
<1>3. pc'[c] = step
  BY <1>1, <1>2, Moved, Types, NotNone DEF IInv
<1>4. Connecting(c)'
  BY <1>3 DEF IInv, Runs, Connecting, record
<1>. QED
  BY <1>1, <1>2, <1>4, QuietStep, Unasked, NotNone DEF Resting

\* The steps of connect that read the cluster, and the refused CREATE.
LEMMA ServingSteps ==
  ASSUME IInv, NEW c \in Connects,
         CheckRetained(c) \/ FindServing(c) \/ ServingFailed(c) \/ RecheckServing(c)
         \/ CreateRefused(c)
  PROVE  IInv'
<1>1. c \in Attempts /\ c \notin Disconnects /\ Failure(c) = "unknown"
  BY NotNone DEF Attempts, Failure
<1>2. faults \in 0 .. MaxFaults /\ faults <= faults
  BY FaultsAssumption DEF IInv, TypeOK
<1>3. ASSUME pc[c] \notin Resting, End(c, "unknown"), UNCHANGED <<cluster, requests, record, faults>>
      PROVE  IInv'
  BY <1>1, <1>2, <1>3, UnderWay, EndStep
<1>4. CASE CheckRetained(c)
  <2>1. LocalTypes /\ pc[c] = "reuse"
    BY <1>4, Types DEF IInv, CheckRetained
  <2>2. ASSUME Go(c, "serving"), UNCHANGED <<lock, locals, report>> PROVE IInv'
    BY <1>4, <2>1, <2>2, ServingStep DEF CheckRetained, locals, LocalTypes
  <2>. QED
    BY <1>3, <1>4, <2>1, <2>2 DEF CheckRetained, Resting
<1>5. CASE FindServing(c)
  <2>1. ChildrenOf(conn[c]) \subseteq Children
    <3>1. replicas # None => replicas.owner \in Connects
      BY DEF IInv, TypeOK, ReplicaSets
    <3>. QED
      BY <3>1 DEF ChildrenOf, Children
  <2>2. LocalTypes'
    BY <1>1, <1>5, <2>1 DEF FindServing, IInv, TypeOK, LocalTypes
  <2>. QED
    BY <1>5, <2>2, ServingStep DEF FindServing
<1>6. CASE ServingFailed(c) \/ CreateRefused(c)
  BY <1>1, <1>3, <1>6 DEF ServingFailed, CreateRefused, Fail, Resting
<1>7. CASE RecheckServing(c)
  <2>1. LocalTypes /\ pc[c] = "recheck"
    BY <1>7, Types DEF IInv, RecheckServing
  <2>2. ASSUME Go(c, "ready"), UNCHANGED <<lock, locals, report>> PROVE IInv'
    BY <1>7, <2>1, <2>2, ServingStep DEF RecheckServing, locals, LocalTypes
  <2>. QED
    BY <1>3, <1>7, <2>1, <2>2 DEF RecheckServing, Resting
<1>. QED
  BY <1>4, <1>5, <1>6, <1>7

\* The names are looked at one by one.
LEMMA CheckAbsentStep ==
  ASSUME IInv, NEW c \in Connects, CheckAbsent(c)
  PROVE  IInv'
<1>1. c \in Attempts /\ pc[c] = "absent" /\ lock = c
  BY UnderWay DEF CheckAbsent, Attempts, Resting
<1>2. UNCHANGED <<cluster, requests, record, faults>> /\ faults \in 0 .. MaxFaults /\ faults <= faults
  BY FaultsAssumption DEF CheckAbsent, IInv, TypeOK
<1>3. CASE End(c, "unknown")
  BY <1>1, <1>2, <1>3, EndStep
<1>4. ASSUME work' = [work EXCEPT ![c] = After(work[c])],
             Go(c, IF After(work[c]) = None THEN "family" ELSE "absent"),
             UNCHANGED <<lock, conn, seen, kids, asked, reply, stopped, report>>
      PROVE  IInv'
  <2>. DEFINE step == IF After(work[c]) = None THEN "family" ELSE "absent"
  <2>1. Connecting(c) /\ work[c] \in Kinds
    BY <1>1 DEF IInv, Runs, Connecting
  <2>2. LocalTypes' /\ work'[c] = After(work[c]) /\ conn' = conn
    BY <1>1, <1>4, <2>1, KindsNamed DEF IInv, TypeOK, LocalTypes
  <2>3. step \in ConnectSteps /\ step \notin Resting
    BY DEF ConnectSteps, Resting
  <2>4. pc'[c] = step
    BY <1>1, <1>4, <2>3, Moved, Types, NotNone DEF IInv
  <2>5. Connecting(c)'
    BY <1>1, <1>2, <2>1, <2>2, <2>4, KindsNamed DEF Connecting, AllFinished, record
  <2>. QED
    BY <1>1, <1>2, <1>4, <2>2, <2>3, <2>5, QuietStep, Unasked, NotNone
<1>. QED
  BY <1>3, <1>4 DEF CheckAbsent

-----------------------------------------------------------------------------
(* Checkpoints *)

Says(f, verb, k) == f.pending # None /\ f.pending.verb = verb /\ f.pending.kind = k

Open(f) == f.stage # "none" /\ ~f.complete

\* What f has to say to be the next checkpoint of connection c.
Suits(f, c) ==
  /\ f.stage # "saved" \/ f.complete => f.resources = {} /\ f.pending = None
  /\ f.stage # "saved" => ~f.complete
  /\ Open(f) => \A e \in Connects : Unfinished(e) => e = c
  /\ \A k \in Kinds : Owned(c, k) => Open(f) /\ (k \in f.resources \/ Says(f, "create", k))
  /\ \A r \in requests : r.verb = "create" /\ r.by = c => Open(f) /\ Says(f, "create", r.kind)
  /\ "Deployment" \in f.resources \/ Says(f, "create", "Deployment") \/ Gone(c)
  /\ \A q \in requests : q.verb = "delete" /\ q.uid = c =>
       /\ f.pending # None => f.pending.verb = "delete"
       /\ Owned(c, q.kind) /\ q.version = object[q.kind].version =>
            q.kind \in f.resources /\ Says(f, "delete", q.kind)

\* A suitable checkpoint keeps record and cluster in agreement.
LEMMA Checkpointed ==
  ASSUME IInv, NEW c \in Connects, NEW f \in Families, Suits(f, c),
         family' = [family EXCEPT ![c] = f], anchor' = anchor,
         UNCHANGED <<cluster, requests, faults>>,
         \A e \in Connects : pc[e] = "done" => pc'[e] = "done",
         \A e \in Connects : pc'[e] \in {"idle", "absent", "family"} =>
                               e # c /\ pc[e] \in {"idle", "absent", "family"},
         Reported'
  PROVE  WorldTypes' /\ World'
<1>1. /\ object' = object /\ replicas' = replicas /\ pod' = pod /\ requests' = requests
      /\ faults' = faults
  BY DEF cluster
<1>2. WorldTypes'
  BY <1>1, Types DEF IInv, WorldTypes
<1>3. family'[c] = f /\ \A e \in Connects : e # c => family'[e] = family[e]
  BY DEF IInv, TypeOK
<1>4. \A e \in Connects : Chain(e)'
  BY <1>1, <1>3 DEF IInv, World, Chain, Suits
<1>5. OneUnfinished'
  BY <1>3 DEF IInv, World, OneUnfinished, Unfinished, Suits, Open
<1>6. EffectsAreRecorded'
  <2>1. ASSUME NEW k \in Kinds, object[k] # None, object[k].uid # Foreign
        PROVE  LET e == object[k].uid
               IN /\ anchor = e
                  /\ Unfinished(e)'
                  /\ k \in family'[e].resources \/ IsPending(e, "create", k)'
    <3>1. PICK e \in Connects : object[k].uid = e
      BY <2>1 DEF IInv, TypeOK, Objects
    <3>2. anchor = e /\ Unfinished(e) /\ (k \in family[e].resources \/ IsPending(e, "create", k))
      BY <2>1, <3>1 DEF IInv, World, EffectsAreRecorded
    <3>3. CASE e = c
      <4>1. Open(f) /\ (k \in f.resources \/ Says(f, "create", k))
        BY <2>1, <3>1, <3>3 DEF Suits, Owned
      <4>. QED
        BY <1>1, <1>3, <3>1, <3>2, <3>3, <4>1 DEF Unfinished, IsPending, Open, Says
    <3>4. CASE e # c
      BY <1>1, <1>3, <3>1, <3>2, <3>4 DEF Unfinished, IsPending
    <3>. QED
      BY <3>3, <3>4
  <2>2. ASSUME NEW r \in requests, r.verb = "create"
        PROVE  anchor = r.by /\ Unfinished(r.by)' /\ IsPending(r.by, "create", r.kind)'
    <3>1. anchor = r.by /\ Unfinished(r.by) /\ IsPending(r.by, "create", r.kind)
      BY <2>2 DEF IInv, World, EffectsAreRecorded
    <3>2. r.by \in Connects
      BY <2>2, <3>1, NotNone DEF IInv, TypeOK, Requests
    <3>. QED
      BY <1>3, <2>2, <3>1, <3>2 DEF Unfinished, IsPending, Suits, Open, Says
  <2>. QED
    BY <1>1, <2>1, <2>2 DEF EffectsAreRecorded
<1>7. \A e \in Connects : Accounted(e)'
  BY <1>1, <1>3 DEF IInv, World, Accounted, IsPending, Gone, Owned, Suits, Says
<1>8. ASSUME NEW q \in requests PROVE (IF q.verb = "delete" THEN Late(q) ELSE Created(q))'
  <2>1. CASE q.verb = "delete"
    <3>1. Late(q) /\ q.uid \in Connects
      BY <2>1 DEF IInv, World, TypeOK, Requests
    <3>. QED
      BY <1>1, <1>3, <2>1, <3>1 DEF Late, Owned, IsPending, Suits, Says
  <2>2. CASE q.verb # "delete"
    BY <2>2 DEF IInv, World, Created
  <2>. QED
    BY <2>1, <2>2
<1>9. \A k \in Kinds : Aged(k)'
  BY <1>1 DEF IInv, World, Aged
<1>. QED
  BY <1>1, <1>2, <1>4, <1>5, <1>6, <1>7, <1>8, <1>9 DEF World

\* The checkpoint of the run under way.
LEMMA CheckpointStep ==
  ASSUME IInv, NEW a \in Attempts, lock = a, lock' = a, NEW c \in Connects, NEW f \in Families,
         Suits(f, c), family' = [family EXCEPT ![c] = f], anchor' = anchor,
         UNCHANGED <<cluster, requests, report, faults>>,
         NEW step, Go(a, step), step \notin Resting \cup {"absent", "family"},
         a \in Connects => step \in ConnectSteps,
         a \in Disconnects => step \in DisconnectSteps,
         \A o \in Attempts : o # a => asked'[o] = asked[o] /\ reply'[o] = reply[o],
         asked'[a] = None, reply'[a] = "none",
         a # c => pc[c] = "done",
         LocalTypes',
         a \in Connects => Connecting(a)',
         a \in Disconnects => Disconnecting(a)'
  PROVE  IInv'
<1>1. Places' /\ pc'[a] = step /\ \A o \in Attempts : o # a => pc'[o] = pc[o]
  BY Moved, Types DEF IInv
<1>2. pc[a] \notin Resting
  BY DEF IInv, Runs, Alone
<1>3. /\ \A e \in Connects : pc[e] = "done" => pc'[e] = "done"
      /\ \A e \in Connects : pc'[e] \in {"idle", "absent", "family"} =>
                               e # c /\ pc[e] \in {"idle", "absent", "family"}
  BY <1>1, <1>2 DEF Attempts, Resting
<1>4. Reported'
  BY <1>3, SameReport
<1>5. WorldTypes' /\ World'
  BY <1>3, <1>4, Checkpointed
<1>6. TypeOK'
  BY <1>1, <1>5, TypesAfter, Types DEF IInv, ReportType
<1>7. Alone(a)'
  BY <1>1 DEF Alone
<1>. QED
  BY <1>1, <1>5, <1>6, <1>7, RunStep

\* What the record says of connection c suits it.
LEMMA RecordSuits ==
  ASSUME IInv, NEW c \in Connects
  PROVE  /\ \A k \in Kinds : Owned(c, k) => /\ anchor = c /\ Open(family[c])
                                            /\ k \in family[c].resources \/ Says(family[c], "create", k)
         /\ \A r \in requests : r.verb = "create" /\ r.by = c =>
              anchor = c /\ Open(family[c]) /\ Says(family[c], "create", r.kind)
         /\ "Deployment" \in family[c].resources \/ Says(family[c], "create", "Deployment") \/ Gone(c)
         /\ \A q \in requests : q.verb = "delete" /\ q.uid = c =>
              /\ pc[c] = "done"
              /\ family[c].pending # None => family[c].pending.verb = "delete"
              /\ Owned(c, q.kind) /\ q.version = object[q.kind].version =>
                   q.kind \in family[c].resources /\ Says(family[c], "delete", q.kind)
         /\ Open(family[c]) => \A e \in Connects : Unfinished(e) => e = c
         /\ family[c] \in Families
<1>1. \A k \in Kinds : Owned(c, k) => /\ anchor = c /\ Open(family[c])
                                      /\ k \in family[c].resources \/ Says(family[c], "create", k)
  BY NotNone DEF IInv, World, EffectsAreRecorded, Owned, Unfinished, IsPending, Open, Says
<1>2. \A r \in requests : r.verb = "create" /\ r.by = c =>
        anchor = c /\ Open(family[c]) /\ Says(family[c], "create", r.kind)
  BY DEF IInv, World, EffectsAreRecorded, Unfinished, IsPending, Open, Says
<1>3. "Deployment" \in family[c].resources \/ Says(family[c], "create", "Deployment") \/ Gone(c)
  BY DEF IInv, World, Accounted, IsPending, Says
<1>4. ASSUME NEW q \in requests, q.verb = "delete", q.uid = c
      PROVE  /\ pc[c] = "done"
             /\ family[c].pending # None => family[c].pending.verb = "delete"
             /\ Owned(c, q.kind) /\ q.version = object[q.kind].version =>
                  q.kind \in family[c].resources /\ Says(family[c], "delete", q.kind)
  <2>1. Late(q)
    BY <1>4 DEF IInv, World
  <2>. QED
    BY <1>4, <2>1 DEF Late, IsPending, Says
<1>5. Open(family[c]) => \A e \in Connects : Unfinished(e) => e = c
  BY DEF IInv, World, OneUnfinished, Unfinished, Open
<1>6. family[c] \in Families
  BY DEF IInv, TypeOK
<1>. QED
  BY <1>1, <1>2, <1>3, <1>4, <1>5, <1>6

\* The new family is the only unfinished one.
LEMMA MakeFamilyStep ==
  ASSUME IInv, NEW c \in Connects, MakeFamily(c)
  PROVE  IInv'
<1>. DEFINE f == [NoFamily EXCEPT !.stage = "made"]
<1>1. c \in Attempts /\ pc[c] = "family" /\ lock = c /\ Connecting(c)
  BY UnderWay DEF MakeFamily, Attempts, Resting, IInv, Runs
<1>2. conn[c] = c /\ anchor = None /\ AllFinished
  BY <1>1 DEF Connecting
<1>3. /\ f.stage = "made" /\ f.pending = None /\ f.resources = {} /\ f.complete = FALSE
      /\ f \in Families
  BY DEF NoFamily, Families
<1>. HIDE DEF f
<1>4. /\ family' = [family EXCEPT ![c] = f] /\ anchor' = anchor /\ Go(c, "anchor")
      /\ UNCHANGED <<cluster, requests, report, faults>> /\ lock' = lock
      /\ UNCHANGED <<conn, work, seen, kids, asked, reply, stopped>>
  BY <1>2 DEF MakeFamily, Checkpoint, locals, f
<1>5. Suits(f, c)
  <2>1. \A k \in Kinds : ~Owned(c, k)
    BY <1>2, RecordSuits, NotNone
  <2>2. \A r \in requests : ~(r.verb = "create" /\ r.by = c)
    BY <1>2, RecordSuits, NotNone
  <2>3. Gone(c)
    <3>1. family[c] = NoFamily
      BY <1>1 DEF IInv, World, Chain
    <3>. QED
      BY <3>1, RecordSuits DEF NoFamily, Says
  <2>4. \A e \in Connects : ~Unfinished(e)
    BY <1>2 DEF AllFinished, Unfinished
  <2>5. \A q \in requests : ~(q.verb = "delete" /\ q.uid = c)
    BY <1>1, RecordSuits
  <2>. QED
    BY <1>3, <2>1, <2>2, <2>3, <2>4, <2>5 DEF Suits
<1>6. pc'[c] = "anchor"
  BY <1>1, <1>4, Moved, Types, NotNone DEF IInv, ConnectSteps
<1>7. family'[c] = f
  BY <1>4 DEF IInv, TypeOK
<1>8. Connecting(c)'
  BY <1>2, <1>3, <1>4, <1>6, <1>7 DEF Connecting
<1>9. LocalTypes'
  BY <1>4, Types DEF IInv, LocalTypes
<1>. QED
  BY <1>1, <1>3, <1>4, <1>5, <1>8, <1>9, CheckpointStep, Unasked, NotNone DEF Resting, ConnectSteps

\* The anchor names a family without effects.
LEMMA PublishAnchorStep ==
  ASSUME IInv, NEW c \in Connects, PublishAnchor(c)
  PROVE  IInv'
<1>1. c \in Attempts /\ pc[c] = "anchor" /\ lock = c /\ Connecting(c)
  BY UnderWay DEF PublishAnchor, Attempts, Resting, IInv, Runs
<1>2. conn[c] = c /\ anchor = None /\ family[c].stage = "made"
  BY <1>1 DEF Connecting
<1>3. /\ object' = object /\ replicas' = replicas /\ pod' = pod
      /\ requests' = requests /\ family' = family /\ anchor' = c /\ Go(c, "zero")
      /\ lock' = lock /\ UNCHANGED <<conn, work, seen, kids, asked, reply, stopped>>
      /\ report' = report /\ faults' = faults
  BY DEF PublishAnchor, cluster, locals
<1>4. Places' /\ pc'[c] = "zero" /\ \A o \in Attempts : o # c => pc'[o] = pc[o]
  BY <1>1, <1>3, Moved, Types, NotNone DEF IInv, ConnectSteps
<1>5. TypeOK'
  BY <1>3, <1>4, Types, TypesAfter DEF IInv, WorldTypes, LocalTypes, ReportType
<1>6. \A e \in Connects : pc[e] = "done" => pc'[e] = "done"
  BY <1>1, <1>4 DEF Attempts
<1>7. World'
  <2>1. \A e \in Connects : Chain(e)'
    BY <1>3, <1>4 DEF IInv, World, Chain, Attempts
  <2>2. OneUnfinished'
    BY <1>3 DEF IInv, World, OneUnfinished, Unfinished
  <2>3. \A k \in Kinds : object[k] # None => object[k].uid = Foreign
    BY <1>2, NotNone DEF IInv, World, EffectsAreRecorded, TypeOK, Objects
  <2>4. \A r \in requests : r.verb # "create"
    BY <1>2, NotNone DEF IInv, World, EffectsAreRecorded, TypeOK, Requests
  <2>5. EffectsAreRecorded'
    BY <1>3, <2>3, <2>4 DEF EffectsAreRecorded
  <2>6. \A e \in Connects : Accounted(e)'
    BY <1>3 DEF IInv, World, Accounted, IsPending, Gone, Owned
  <2>7. ASSUME NEW q \in requests PROVE (IF q.verb = "delete" THEN Late(q) ELSE Created(q))'
    <3>1. CASE q.verb = "delete"
      <4>1. Late(q) /\ q.uid \in Connects
        BY <3>1 DEF IInv, World, TypeOK, Requests
      <4>. QED
        BY <1>3, <1>6, <3>1, <4>1 DEF Late, Owned, IsPending
    <3>2. CASE q.verb # "delete"
      BY <2>4, <3>2 DEF IInv, TypeOK, Requests
    <3>. QED
      BY <3>1, <3>2
  <2>8. \A k \in Kinds : Aged(k)'
    BY <1>3 DEF IInv, World, Aged
  <2>9. Reported'
    BY <1>3, <1>6, SameReport DEF cluster
  <2>. QED
    BY <1>3, <2>1, <2>2, <2>5, <2>6, <2>7, <2>8, <2>9 DEF World
<1>8. Alone(c)' /\ Connecting(c)'
  BY <1>1, <1>2, <1>3, <1>4, Unasked DEF Alone, Resting, Connecting
<1>. QED
  BY <1>1, <1>3, <1>4, <1>5, <1>7, <1>8, RunStep, NotNone

\* Checkpoint zero names nothing, and nothing was done.
LEMMA PublishZeroStep ==
  ASSUME IInv, NEW c \in Connects, PublishZero(c)
  PROVE  IInv'
<1>. DEFINE f == [NoFamily EXCEPT !.stage = "saved"]
<1>1. c \in Attempts /\ pc[c] = "zero" /\ lock = c /\ Connecting(c)
  BY UnderWay DEF PublishZero, Attempts, Resting, IInv, Runs
<1>2. conn[c] = c /\ anchor = c /\ family[c].stage = "made"
  BY <1>1 DEF Connecting
<1>3. /\ f.stage = "saved" /\ f.pending = None /\ f.resources = {} /\ f.complete = FALSE
      /\ f \in Families
  BY DEF NoFamily, Families
<1>. HIDE DEF f
<1>4. /\ family' = [family EXCEPT ![c] = f] /\ anchor' = anchor /\ Go(c, "intent")
      /\ UNCHANGED <<cluster, requests, report, faults>> /\ lock' = lock
      /\ work' = [work EXCEPT ![c] = First]
      /\ UNCHANGED <<conn, seen, kids, asked, reply, stopped>>
  BY <1>2 DEF PublishZero, Checkpoint, f
<1>5. family[c].resources = {} /\ family[c].pending = None /\ ~family[c].complete
  BY <1>2 DEF IInv, World, Chain
<1>6. Suits(f, c)
  BY <1>2, <1>3, <1>5, RecordSuits DEF Suits, Says, Open
<1>7. pc'[c] = "intent"
  BY <1>1, <1>4, Moved, Types, NotNone DEF IInv, ConnectSteps
<1>8. family'[c] = f /\ work'[c] = First
  BY <1>1, <1>4 DEF IInv, TypeOK
<1>9. Connecting(c)'
  BY <1>2, <1>3, <1>4, <1>7, <1>8, KindsNamed DEF Connecting, Unfinished
<1>10. LocalTypes'
  BY <1>1, <1>4, KindsNamed DEF IInv, TypeOK, LocalTypes
<1>. QED
  BY <1>1, <1>3, <1>4, <1>6, <1>9, <1>10, CheckpointStep, Unasked, NotNone DEF Resting, ConnectSteps

\* The CREATE is pending before it is sent.
LEMMA RecordCreateStep ==
  ASSUME IInv, NEW c \in Connects, RecordCreate(c)
  PROVE  IInv'
<1>. DEFINE p == [verb |-> "create", kind |-> work[c], by |-> c, children |-> {}]
            f == [family[c] EXCEPT !.pending = p]
<1>1. c \in Attempts /\ pc[c] = "intent" /\ lock = c /\ Connecting(c)
  BY UnderWay DEF RecordCreate, Attempts, Resting, IInv, Runs
<1>2. /\ conn[c] = c /\ anchor = c /\ Unfinished(c) /\ family[c].stage = "saved"
      /\ work[c] \in Kinds /\ family[c].pending = None
  BY <1>1 DEF Connecting
<1>3. p \in Pending /\ p # None
  BY <1>1, <1>2, NotNone DEF Pending
<1>4. family[c] \in Families
  BY DEF IInv, TypeOK
<1>5. /\ f.stage = "saved" /\ f.pending = p /\ f.resources = family[c].resources
      /\ f.complete = FALSE /\ f \in Families
  BY <1>2, <1>3, <1>4 DEF Families, Unfinished
<1>6. p.verb = "create" /\ p.kind = work[c]
  OBVIOUS
<1>7. /\ family' = [family EXCEPT ![c] = f] /\ anchor' = anchor /\ Go(c, "create")
      /\ UNCHANGED <<cluster, requests, report, faults>> /\ lock' = lock
      /\ UNCHANGED <<conn, work, seen, kids, asked, reply, stopped>>
  BY <1>2 DEF RecordCreate, Checkpoint, locals
<1>8. pc'[c] = "create" /\ family'[c] = f
  BY <1>1, <1>7, Moved, Types, NotNone DEF IInv, ConnectSteps, TypeOK
<1>9. \A r \in requests : r.verb = "delete"
  <2>. SUFFICES ASSUME NEW r \in requests, r.verb = "create" PROVE FALSE
    BY DEF IInv, TypeOK, Requests
  <2>1. anchor = r.by /\ IsPending(r.by, "create", r.kind)
    BY DEF IInv, World, EffectsAreRecorded
  <2>. QED
    BY <1>2, <2>1 DEF IsPending
<1>10. f.pending = [verb |-> "create", kind |-> work[c], by |-> c, children |-> {}]
  BY <1>5
<1>. HIDE DEF f, p
<1>11. Suits(f, c)
  <2>1. \A k \in Kinds : Owned(c, k) => k \in f.resources
    BY <1>2, <1>5, RecordSuits DEF Says
  <2>2. "Deployment" \in f.resources \/ Gone(c)
    BY <1>2, <1>5, RecordSuits DEF Says
  <2>3. \A e \in Connects : Unfinished(e) => e = c
    BY <1>2, RecordSuits DEF Open, Unfinished
  <2>4. \A q \in requests : ~(q.verb = "delete" /\ q.uid = c)
    BY <1>1, RecordSuits
  <2>. QED
    BY <1>5, <1>9, <2>1, <2>2, <2>3, <2>4 DEF Suits, Open
<1>12. Connecting(c)'
  BY <1>2, <1>5, <1>7, <1>8, <1>9, <1>10 DEF Connecting, Unfinished
<1>13. LocalTypes'
  BY <1>7, Types DEF IInv, LocalTypes
<1>. QED
  BY <1>1, <1>5, <1>7, <1>11, <1>12, <1>13, CheckpointStep, Unasked, NotNone DEF Resting, ConnectSteps

\* The one CREATE under way is the pending one.
LEMMA SendCreateStep ==
  ASSUME IInv, NEW c \in Connects, SendCreate(c)
  PROVE  IInv'
<1>. DEFINE q == Creating(c)
<1>1. c \in Attempts /\ pc[c] = "create" /\ lock = c /\ Connecting(c)
  BY UnderWay DEF SendCreate, Attempts, Resting, IInv, Runs
<1>2. /\ conn[c] = c /\ anchor = c /\ Unfinished(c) /\ family[c].stage = "saved"
      /\ work[c] \in Kinds
      /\ family[c].pending = [verb |-> "create", kind |-> work[c], by |-> c, children |-> {}]
      /\ \A r \in requests : r.verb = "delete"
  BY <1>1 DEF Connecting
<1>3. /\ object' = object /\ replicas' = replicas /\ pod' = pod /\ anchor' = anchor
      /\ family' = family /\ Go(c, "creating") /\ lock' = lock
      /\ UNCHANGED <<conn, work, seen, kids, reply, stopped, report, faults>>
      /\ requests' = requests \cup {q} /\ asked' = [asked EXCEPT ![c] = q]
  BY DEF SendCreate, cluster, record, Send, Creating
<1>4. /\ q.verb = "create" /\ q.by = c /\ q.uid = c /\ q.kind = work[c] /\ q.version = 0
      /\ q \in Requests
  BY <1>1, <1>2, FaultsAssumption DEF Creating, Requests, Versions
<1>5. work'[c] = work[c]
  BY <1>3
<1>6. q = Creating(c)'
  BY <1>3, <1>5 DEF Creating
<1>. HIDE DEF q
<1>7. Places' /\ pc'[c] = "creating" /\ \A o \in Attempts : o # c => pc'[o] = pc[o]
  BY <1>1, <1>3, Moved, Types, NotNone DEF IInv, ConnectSteps
<1>8. TypeOK'
  <2>1. LocalTypes'
    BY <1>1, <1>3, <1>4 DEF IInv, TypeOK, LocalTypes
  <2>2. WorldTypes'
    BY <1>3, <1>4 DEF IInv, TypeOK, WorldTypes
  <2>. QED
    BY <1>1, <1>3, <1>7, <2>1, <2>2, Types, TypesAfter DEF IInv, ReportType
<1>9. \A e \in Connects : pc[e] = "done" => pc'[e] = "done"
  BY <1>1, <1>7 DEF Attempts
<1>10. World'
  <2>1. \A e \in Connects : Chain(e)'
    BY <1>3, <1>7 DEF IInv, World, Chain, Attempts
  <2>2. OneUnfinished'
    BY <1>3 DEF IInv, World, OneUnfinished, Unfinished
  <2>3. EffectsAreRecorded'
    <3>1. anchor = q.by /\ Unfinished(q.by) /\ IsPending(q.by, "create", q.kind)
      <4>. PICK p : p = family[c].pending
        OBVIOUS
      <4>1. p # None
        <5>1. p \in Pending
          BY <1>1, <1>2 DEF Pending
        <5>. QED
          BY <5>1, NotNone
      <4>. QED
        BY <1>2, <1>4, <4>1 DEF IsPending
    <3>2. \A r \in requests' : r.verb = "create" =>
            anchor = r.by /\ Unfinished(r.by) /\ IsPending(r.by, "create", r.kind)
      BY <1>3, <3>1 DEF IInv, World, EffectsAreRecorded
    <3>3. EffectsAreRecorded
      BY DEF IInv, World
    <3>. QED
      BY <1>3, <3>2, <3>3 DEF EffectsAreRecorded, Unfinished, IsPending
  <2>4. \A e \in Connects : Accounted(e)'
    BY <1>3 DEF IInv, World, Accounted, IsPending, Gone, Owned
  <2>5. ASSUME NEW r \in requests' PROVE (IF r.verb = "delete" THEN Late(r) ELSE Created(r))'
    <3>1. CASE r.verb = "delete"
      <4>1. r \in requests /\ Late(r) /\ r.uid \in Connects
        BY <1>3, <1>4, <3>1 DEF IInv, World, TypeOK, Requests
      <4>. QED
        BY <1>3, <1>9, <3>1, <4>1 DEF Late, Owned, IsPending
    <3>2. CASE r.verb # "delete"
      BY <1>2, <1>3, <1>4, <3>2 DEF Created
    <3>. QED
      BY <3>1, <3>2
  <2>6. \A k \in Kinds : Aged(k)'
    BY <1>3 DEF IInv, World, Aged
  <2>7. Reported'
    BY <1>1, <1>3, <1>4, <1>9, SameReport DEF cluster
  <2>. QED
    BY <2>1, <2>2, <2>3, <2>4, <2>5, <2>6, <2>7 DEF World
<1>11. Alone(c)'
  BY <1>1, <1>3, <1>7 DEF Alone, Resting
<1>12. Connecting(c)'
  <2>1. asked'[c] = q
    BY <1>1, <1>3 DEF IInv, TypeOK
  <2>2. \A r \in requests' : r.verb = "create" => r = q
    BY <1>2, <1>3
  <2>3. reply[c] = "none"
    BY <1>1, Unasked
  <2>. QED
    BY <1>2, <1>3, <1>6, <1>7, <2>1, <2>2, <2>3 DEF Connecting, Unfinished
<1>. QED
  BY <1>1, <1>3, <1>7, <1>8, <1>10, <1>11, <1>12, RunStep, NotNone

\* The answer came, so no CREATE is left and the object is owned.
LEMMA RecordCreatedStep ==
  ASSUME IInv, NEW c \in Connects, RecordCreated(c)
  PROVE  IInv'
<1>. DEFINE f == [family[c] EXCEPT !.pending = None, !.resources = @ \cup {work[c]}]
            step == IF After(work[c]) = None THEN "serving" ELSE "intent"
<1>1. c \in Attempts /\ pc[c] = "creating" /\ lock = c /\ Connecting(c) /\ reply[c] = "ok"
  BY UnderWay DEF RecordCreated, Attempts, Resting, IInv, Runs
<1>2. /\ conn[c] = c /\ anchor = c /\ Unfinished(c) /\ family[c].stage = "saved"
      /\ work[c] \in Kinds
      /\ family[c].pending.verb = "create" /\ family[c].pending.kind = work[c]
      /\ \A r \in requests : r.verb # "create"
  BY <1>1 DEF Connecting
<1>3. family[c] \in Families
  BY DEF IInv, TypeOK
<1>4. /\ f.stage = "saved" /\ f.pending = None /\ f.resources = family[c].resources \cup {work[c]}
      /\ f.complete = FALSE /\ f \in Families
  BY <1>2, <1>3 DEF Families, Unfinished
<1>5. /\ family' = [family EXCEPT ![c] = f] /\ anchor' = anchor /\ Go(c, step)
      /\ UNCHANGED <<cluster, requests, report, faults>> /\ lock' = lock
      /\ work' = [work EXCEPT ![c] = After(work[c])]
      /\ asked' = [asked EXCEPT ![c] = None] /\ reply' = [reply EXCEPT ![c] = "none"]
      /\ UNCHANGED <<conn, seen, kids, stopped>>
  BY <1>2 DEF RecordCreated, Checkpoint
<1>6. step \in ConnectSteps /\ step \notin Resting \cup {"absent", "family"}
  BY DEF ConnectSteps, Resting
<1>7. pc'[c] = step
  BY <1>1, <1>5, <1>6, Moved, Types, NotNone DEF IInv
<1>8. /\ family'[c] = f /\ work'[c] = After(work[c]) /\ asked'[c] = None /\ reply'[c] = "none"
      /\ \A o \in Attempts : o # c => asked'[o] = asked[o] /\ reply'[o] = reply[o]
  BY <1>1, <1>5 DEF IInv, TypeOK
<1>. HIDE DEF f
<1>9. Suits(f, c)
  <2>1. \A k \in Kinds : Owned(c, k) => k \in f.resources
    BY <1>2, <1>4, RecordSuits DEF Says
  <2>2. "Deployment" \in f.resources \/ Gone(c)
    BY <1>2, <1>4, RecordSuits DEF Says
  <2>3. \A e \in Connects : Unfinished(e) => e = c
    BY <1>2, RecordSuits DEF Open, Unfinished
  <2>4. \A q \in requests : ~(q.verb = "delete" /\ q.uid = c)
    BY <1>1, RecordSuits
  <2>. QED
    BY <1>2, <1>4, <2>1, <2>2, <2>3, <2>4 DEF Suits, Open
<1>10. Connecting(c)'
  BY <1>2, <1>4, <1>5, <1>7, <1>8, KindsNamed, NotNone DEF Connecting, Unfinished
<1>11. LocalTypes'
  BY <1>1, <1>2, <1>5, KindsNamed DEF IInv, TypeOK, LocalTypes
<1>. QED
  BY <1>1, <1>4, <1>5, <1>6, <1>8, <1>9, <1>10, <1>11, CheckpointStep, NotNone

\* A checkpoint that changes the children alone suits the connection.
LEMMA OtherChildren ==
  ASSUME IInv, NEW c \in Connects, NEW f \in Families, f.stage = family[c].stage,
         f.pending = family[c].pending, f.resources = family[c].resources,
         f.complete = family[c].complete
  PROVE  Suits(f, c)
<1>1. Chain(c)
  BY DEF IInv, World
<1>2. Open(f) <=> Open(family[c])
  BY DEF Open
<1>3. \A k \in Kinds : /\ Says(f, "create", k) <=> Says(family[c], "create", k)
                       /\ Says(f, "delete", k) <=> Says(family[c], "delete", k)
  BY DEF Says
<1>4. \A r \in requests : r.kind \in Kinds
  BY DEF IInv, TypeOK, Requests
<1>. QED
  BY <1>1, <1>2, <1>3, <1>4, RecordSuits, KindsNamed DEF Suits, Chain

\* The last checkpoint of a run that ends with it.
LEMMA LastCheckpoint ==
  ASSUME IInv, NEW a \in Attempts, lock = a, NEW result \in {"unknown", "ready"},
         End(a, result), NEW c \in Connects, NEW f \in Families, Suits(f, c),
         family' = [family EXCEPT ![c] = f], anchor' = anchor,
         UNCHANGED <<cluster, requests, faults>>, a # c => pc[c] = "done"
  PROVE  IInv'
<1>1. /\ Places' /\ LocalTypes' /\ ReportType' /\ lock' = None
      /\ pc'[a] = IF a \in Connects THEN "done" ELSE "idle"
      /\ \A o \in Attempts : o # a => pc'[o] = pc[o] /\ asked'[o] = asked[o] /\ reply'[o] = reply[o]
      /\ Alone(a)'
      /\ a \in Connects => Connecting(a)'
      /\ a \in Disconnects => Disconnecting(a)'
  BY Ending
<1>2. /\ \A e \in Connects : pc[e] = "done" => pc'[e] = "done"
      /\ \A e \in Connects : pc'[e] \in {"idle", "absent", "family"} =>
                               e # c /\ pc[e] \in {"idle", "absent", "family"}
  BY <1>1 DEF Attempts
<1>3. Reported'
  BY DEF End, Reported, Unknown
<1>4. WorldTypes' /\ World'
  BY <1>2, <1>3, Checkpointed
<1>. QED
  BY <1>1, <1>4, RunStep, TypesAfter

\* The last checkpoint of a connect adds the children it saw.
LEMMA RecordReadyStep ==
  ASSUME IInv, NEW c \in Connects, RecordReady(c)
  PROVE  IInv'
<1>. DEFINE f == [family[anchor] EXCEPT !.children = @ \cup seen[c]]
<1>1. c \in Attempts /\ pc[c] = "ready" /\ lock = c /\ Connecting(c)
  BY UnderWay DEF RecordReady, Attempts, Resting, IInv, Runs
<1>2. conn[c] = anchor /\ anchor \in Connects /\ family[anchor].stage = "saved"
  BY <1>1 DEF Connecting, IInv, TypeOK
<1>3. family[anchor] \in Families /\ seen[c] \subseteq Children
  BY <1>1, <1>2 DEF IInv, TypeOK
<1>4. /\ f \in Families /\ f.stage = family[anchor].stage /\ f.pending = family[anchor].pending
      /\ f.resources = family[anchor].resources /\ f.complete = family[anchor].complete
  BY <1>3 DEF Families
<1>5. /\ family' = [family EXCEPT ![anchor] = f] /\ anchor' = anchor
      /\ End(c, "ready") /\ UNCHANGED <<cluster, requests, faults>>
  BY <1>2 DEF RecordReady, Checkpoint
<1>. HIDE DEF f
<1>6. c # anchor => pc[anchor] = "done"
  <2>. SUFFICES ASSUME c # anchor PROVE pc[anchor] = "done"
    OBVIOUS
  <2>1. pc[anchor] \in Resting
    BY <1>1, <1>2 DEF IInv, Runs, Alone, Attempts
  <2>2. pc[anchor] # "idle"
    BY <1>2 DEF IInv, World, Chain, NoFamily
  <2>. QED
    BY <2>1, <2>2 DEF Resting
<1>. QED
  BY <1>1, <1>2, <1>4, <1>5, <1>6, OtherChildren, LastCheckpoint

\* Every step of a connect.
LEMMA ConnectStep ==
  ASSUME IInv, NEW c \in Connects, Connect(c)
  PROVE  IInv'
BY RefuseConnectStep, OpenFreshStep, OpenRetainedStep, ServingSteps, CheckAbsentStep,
   MakeFamilyStep, PublishAnchorStep, PublishZeroStep, RecordCreateStep, SendCreateStep,
   RecordCreatedStep, RecordReadyStep
   DEF Connect

-----------------------------------------------------------------------------
(* DisconnectOrkaModel *)

\* A connection whose record names no gateway has none and will have none.
LEMMA Retired ==
  ASSUME IInv, NEW c \in Connects, "Deployment" \notin family[c].resources,
         family[c].pending # None => family[c].pending.verb = "delete"
  PROVE  Dead(c)
<1>1. Gone(c)
  BY RecordSuits DEF Says
<1>2. \A r \in requests : ~(r.verb = "create" /\ r.by = c)
  BY RecordSuits DEF Says
<1>. QED
  BY <1>1, <1>2 DEF Dead

\* The connect run that saved the anchored record is over before a disconnect starts.
LEMMA AnchoredIsDone ==
  ASSUME IInv, NEW d \in Disconnects, lock \in {None, d}, anchor # None,
         family[anchor].stage = "saved"
  PROVE  anchor \in Connects /\ pc[anchor] = "done"
<1>1. anchor \in Connects /\ anchor # d /\ anchor \in Attempts
  BY NotNone DEF IInv, TypeOK, Attempts
<1>2. pc[anchor] \in Resting
  BY <1>1, NotNone DEF IInv, Runs, Alone
<1>3. pc[anchor] # "idle"
  BY <1>1 DEF IInv, World, Chain, NoFamily
<1>. QED
  BY <1>1, <1>2, <1>3 DEF Resting

\* A disconnect works on the anchored connection, whose connect run is over.
LEMMA OnAnchor ==
  ASSUME IInv, NEW d \in Disconnects, pc[d] # "idle"
  PROVE  /\ d \in Attempts /\ d \notin Connects /\ lock = d /\ pc[d] \notin Resting
         /\ conn[d] = anchor /\ anchor \in Connects /\ anchor # d /\ pc[anchor] = "done"
         /\ family[anchor].stage = "saved" /\ family[anchor] \in Families
         /\ Disconnecting(d)
<1>1. d \in Attempts /\ d \notin Connects
  BY NotNone DEF Attempts
<1>2. pc[d] \notin Resting
  BY DEF IInv, TypeOK, DisconnectSteps, Resting
<1>3. Disconnecting(d)
  BY DEF IInv, Runs
<1>. QED
  BY <1>1, <1>2, <1>3, UnderWay DEF Disconnecting, IInv, TypeOK

\* A failed disconnect claims a stop only when it knows of one.
LEMMA FailureKinds ==
  ASSUME NEW a
  PROVE  /\ Failure(a) \in {"unknown", "ready", "stopped"}
         /\ Failure(a) = "stopped" => a \in Disconnects /\ stopped[a]
BY DEF Failure

\* A disconnect may end anywhere.
LEMMA DisconnectEnds ==
  ASSUME IInv, NEW d \in Disconnects, pc[d] # "idle", End(d, Failure(d)),
         UNCHANGED <<cluster, requests, record, faults>>
  PROVE  IInv'
BY OnAnchor, FailureKinds, EndStep, FaultsAssumption DEF IInv, TypeOK

\* A disconnect under way that touches nothing but its memory.
LEMMA DisconnectGoes ==
  ASSUME IInv, NEW d \in Disconnects, pc[d] # "idle", NEW step \in DisconnectSteps \ {"idle"},
         Go(d, step), UNCHANGED <<cluster, requests, lock, record, report, faults>>,
         \A o \in Attempts : o # d => asked'[o] = asked[o] /\ reply'[o] = reply[o],
         asked'[d] = None, reply'[d] = "none",
         LocalTypes', pc'[d] = step => Disconnecting(d)'
  PROVE  IInv'
<1>1. step \notin Resting /\ step \notin {"absent", "family"} /\ pc[d] # "done"
  BY OnAnchor DEF Resting, DisconnectSteps
<1>2. pc'[d] = step
  BY OnAnchor, Moved, Types DEF IInv
<1>. QED
  BY <1>1, <1>2, OnAnchor, QuietStep

\* A refusal claims nothing.
LEMMA RefuseDisconnectStep ==
  ASSUME IInv, NEW d \in Disconnects, RefuseDisconnect(d)
  PROVE  IInv'
<1>1. /\ pc' = pc /\ UNCHANGED <<cluster, requests, record, faults>> /\ lock' = lock
      /\ conn' = conn /\ work' = work /\ seen' = seen /\ kids' = kids
      /\ asked' = asked /\ reply' = reply /\ stopped' = stopped /\ report' = Unknown
  BY DEF RefuseDisconnect, locals
<1>2. TypeOK'
  <2>1. Places' /\ LocalTypes' /\ ReportType'
    BY <1>1, Types DEF IInv, Places, LocalTypes, ReportType, Unknown
  <2>. QED
    BY <1>1, <2>1, Types, TypesAfter, SameWorldTypes DEF IInv
<1>3. Reported'
  BY <1>1 DEF Reported, Unknown
<1>4. World'
  BY <1>1, <1>3, SameWorld, FaultsAssumption DEF IInv, TypeOK
<1>5. ASSUME NEW a \in Attempts PROVE Alone(a)'
  BY <1>1 DEF IInv, Runs, Alone
<1>6. ASSUME NEW e \in Connects PROVE Connecting(e)'
  <2>1. Connecting(e)
    BY DEF IInv, Runs
  <2>. QED
    BY <1>1, <2>1 DEF Connecting, AllFinished, Unfinished, Creating, record
<1>7. ASSUME NEW b \in Disconnects PROVE Disconnecting(b)'
  <2>1. Disconnecting(b)
    BY DEF IInv, Runs
  <2>. QED
    BY <1>1, <2>1 DEF Disconnecting, Dead, Gone, Owned, ChildrenOf, record, cluster
<1>. QED
  BY <1>2, <1>4, <1>5, <1>6, <1>7 DEF IInv, Runs

\* A disconnect without a gateway to delete knows it to be stopped.
LEMMA BeginningStep ==
  ASSUME IInv, NEW d \in Disconnects, ResumeFinish(d) \/ BeginDisconnect(d)
  PROVE  IInv'
<1>. DEFINE step == IF family[anchor].complete THEN "finish" ELSE "survey"
<1>1. /\ pc[d] = "idle" /\ lock = None /\ anchor # None /\ family[anchor].stage = "saved"
      /\ lock' = d /\ conn' = [conn EXCEPT ![d] = anchor]
      /\ UNCHANGED <<cluster, requests, record, report, faults>>
      /\ work' = work /\ seen' = seen /\ kids' = kids /\ asked' = asked /\ reply' = reply
      /\ Go(d, step)
      /\ family[anchor].pending # None => family[anchor].complete \/ family[anchor].pending.verb = "delete"
  BY DEF ResumeFinish, BeginDisconnect, OpenAnchored
<1>2. /\ anchor \in Connects /\ pc[anchor] = "done" /\ d \in Attempts /\ d \notin Connects
      /\ anchor # d /\ anchor \in Attempts
  BY <1>1, AnchoredIsDone, NotNone DEF Attempts
<1>3. step \in DisconnectSteps /\ step \notin Resting \cup {"absent", "family"}
  BY DEF DisconnectSteps, Resting
<1>4. /\ family[anchor].pending # None => family[anchor].pending.verb = "delete"
      /\ family[anchor].complete => family[anchor].resources = {}
      /\ family[anchor].complete \in BOOLEAN
  BY <1>1, <1>2 DEF IInv, World, Chain, TypeOK, Families
<1>5. stopped' = stopped \/ stopped' = [stopped EXCEPT ![d] = "Deployment" \notin family[anchor].resources]
  BY DEF ResumeFinish, BeginDisconnect
<1>6. LocalTypes' /\ conn'[d] = anchor
  BY <1>1, <1>2, <1>5 DEF IInv, TypeOK, LocalTypes
<1>7. stopped'[d] => Dead(anchor)
  <2>1. "Deployment" \notin family[anchor].resources => Dead(anchor)
    BY <1>2, <1>4, Retired
  <2>2. ResumeFinish(d) => family[anchor].complete
    BY DEF ResumeFinish
  <2>3. BeginDisconnect(d) => stopped'[d] = ("Deployment" \notin family[anchor].resources)
    BY DEF BeginDisconnect, IInv, TypeOK
  <2>. QED
    BY <1>4, <2>1, <2>2, <2>3
<1>8. pc'[d] = step /\ pc'[anchor] = "done"
  BY <1>1, <1>2, <1>3, Moved, Types DEF IInv
<1>9. Dead(anchor) => Dead(anchor)'
  BY <1>1 DEF Dead, Gone, Owned, cluster, record
<1>10. Disconnecting(d)'
  BY <1>1, <1>4, <1>6, <1>7, <1>8, <1>9 DEF Disconnecting, AtRoot, record
<1>. QED
  BY <1>1, <1>2, <1>3, <1>6, <1>10, QuietStep, Unasked DEF Resting

\* What a disconnect knows of the connection it deletes.
LEMMA Knows ==
  ASSUME IInv, NEW d \in Disconnects, pc[d] # "idle"
  PROVE  /\ family[anchor].complete = (pc[d] = "finish")
         /\ family[anchor].pending # None => family[anchor].pending.verb = "delete"
         /\ stopped[d] => Dead(anchor)
         /\ pc[d] \in AtRoot =>
              /\ work[d] \in family[anchor].resources
              /\ work[d] \in Kinds
              /\ family[anchor].pending # None => family[anchor].pending.kind = work[d]
         /\ pc[d] \in {"reread", "send", "deleting"} => family[anchor].pending # None
         /\ pc[d] \in {"closure", "processes", "retire"} => ~Owned(anchor, work[d])
         /\ pc[d] = "processes" => work[d] = "Deployment" /\ ChildrenOf(anchor) = {}
         /\ pc[d] = "retire" /\ work[d] = "Deployment" => stopped[d]
         /\ family[anchor].resources \subseteq Kinds
<1>1. Disconnecting(d) /\ conn[d] = anchor /\ family[anchor] \in Families
  BY OnAnchor
<1>. QED
  BY <1>1 DEF Disconnecting, Families

\* The anchor's record, the cluster and what is on its way stay as they were.
LEMMA StillKnows ==
  ASSUME IInv, NEW d \in Disconnects, pc[d] # "idle",
         \A o \in Attempts : o # d => pc'[o] = pc[o],
         UNCHANGED <<cluster, record, requests, conn>>
  PROVE  /\ conn'[d] = anchor' /\ anchor' # None /\ pc'[anchor'] = "done"
         /\ anchor' = anchor /\ family' = family
         /\ \A k \in Kinds : Owned(anchor, k)' = Owned(anchor, k)
         /\ ChildrenOf(anchor)' = ChildrenOf(anchor)
         /\ Dead(anchor)' = Dead(anchor)
<1>1. /\ anchor' = anchor /\ conn[d] = anchor /\ anchor \in Attempts /\ anchor # d
      /\ pc[anchor] = "done" /\ anchor # None
  BY OnAnchor, NotNone DEF record, Attempts
<1>2. object' = object /\ replicas' = replicas /\ pod' = pod /\ requests' = requests /\ family' = family
  BY DEF cluster, record
<1>3. /\ \A k \in Kinds : Owned(anchor, k)' = Owned(anchor, k)
      /\ ChildrenOf(anchor)' = ChildrenOf(anchor)
      /\ Dead(anchor)' = Dead(anchor)
  BY <1>1, <1>2 DEF Owned, ChildrenOf, Dead, Gone
<1>. QED
  BY <1>1, <1>2, <1>3

\* Children are named by connections and Pods.
LEMMA ChildrenNamed ==
  ASSUME IInv, NEW c
  PROVE  ChildrenOf(c) \subseteq Children
<1>1. replicas # None => replicas.owner \in Connects
  BY DEF IInv, TypeOK, ReplicaSets
<1>. QED
  BY <1>1 DEF ChildrenOf, Children

\* The survey changes nothing.
LEMMA SurveyRootsStep ==
  ASSUME IInv, NEW d \in Disconnects, SurveyRoots(d)
  PROVE  IInv'
<1>1. pc[d] = "survey" /\ pc[d] # "idle" /\ UNCHANGED <<cluster, requests, record, faults>>
  BY DEF SurveyRoots
<1>2. ASSUME Go(d, "pick"), UNCHANGED <<lock, locals, report>> PROVE IInv'
  <2>1. /\ asked'[d] = None /\ reply'[d] = "none" /\ conn' = conn /\ stopped' = stopped
        /\ LocalTypes' /\ asked' = asked /\ reply' = reply
    BY <1>1, <1>2, Unasked, Types DEF locals, IInv, LocalTypes, Attempts
  <2>2. ASSUME pc'[d] = "pick" PROVE Disconnecting(d)'
    <3>1. \A o \in Attempts : o # d => pc'[o] = pc[o]
      BY <1>2, Moved, Types, OnAnchor, <1>1 DEF IInv, DisconnectSteps
    <3>. QED
      BY <1>1, <2>1, <2>2, <3>1, StillKnows, Knows, OnAnchor DEF Disconnecting, AtRoot
  <2>. QED
    BY <1>1, <1>2, <2>1, <2>2, DisconnectGoes DEF DisconnectSteps
<1>. QED
  BY <1>1, <1>2, DisconnectEnds DEF SurveyRoots

\* The root that is picked is retained, and the pending one if there is one.
LEMMA PickRootStep ==
  ASSUME IInv, NEW d \in Disconnects, PickRoot(d)
  PROVE  IInv'
<1>. DEFINE held == family[anchor]
            k == NextToDelete(held.resources)
            retained == (IF k = "Deployment" THEN held.children ELSE {})
                          \cup (IF held.pending # None THEN held.pending.children ELSE {})
            listed == IF object[k] # None THEN Closure(anchor, k) ELSE {}
            step == IF object[k] # None THEN "intent" ELSE "wait"
<1>1. /\ pc[d] = "pick" /\ pc[d] # "idle" /\ UNCHANGED <<cluster, requests, record, faults>>
      /\ conn[d] = anchor /\ held.resources # {}
  BY OnAnchor DEF PickRoot
<1>2. k \in held.resources /\ k \in Kinds
  BY <1>1, Knows, NextIsLeft
<1>3. ASSUME ~(held.pending # None /\ held.pending.kind # k),
             work' = [work EXCEPT ![d] = k], seen' = [seen EXCEPT ![d] = listed],
             kids' = [kids EXCEPT ![d] = retained \cup listed], Go(d, step),
             UNCHANGED <<lock, conn, asked, reply, stopped, report>>
      PROVE  IInv'
  <2>1. retained \subseteq Children /\ listed \subseteq Children
    <3>1. held \in Families
      BY <1>1, OnAnchor
    <3>2. held.children \subseteq Children /\ (held.pending # None => held.pending.children \subseteq Children)
      BY <3>1 DEF Families, Pending
    <3>. QED
      BY <3>2, ChildrenNamed DEF Closure
  <2>. HIDE DEF retained, listed
  <2>2. /\ asked'[d] = None /\ reply'[d] = "none" /\ LocalTypes' /\ work'[d] = k
        /\ asked' = asked /\ reply' = reply
    BY <1>1, <1>2, <1>3, <2>1, Unasked DEF IInv, TypeOK, LocalTypes, Attempts
  <2>3. step \in DisconnectSteps \ {"idle"}
    BY DEF DisconnectSteps
  <2>4. ASSUME pc'[d] = step PROVE Disconnecting(d)'
    <3>1. \A o \in Attempts : o # d => pc'[o] = pc[o]
      BY <1>3, <2>3, Moved, Types, OnAnchor, <1>1 DEF IInv
    <3>. HIDE DEF k
    <3>2. step \in {"intent", "wait"}
      OBVIOUS
    <3>. HIDE DEF step
    <3>. QED
      BY <1>1, <1>2, <1>3, <2>2, <2>4, <3>1, <3>2, StillKnows, Knows, OnAnchor
         DEF Disconnecting, AtRoot
  <2>. QED
    BY <1>1, <1>3, <2>2, <2>3, <2>4, DisconnectGoes
<1>. QED
  BY <1>1, <1>3, DisconnectEnds DEF PickRoot

\* The reread changes nothing.
LEMMA RereadRootStep ==
  ASSUME IInv, NEW d \in Disconnects, RereadRoot(d)
  PROVE  IInv'
<1>1. pc[d] = "reread" /\ pc[d] # "idle" /\ UNCHANGED <<cluster, requests, record, faults>>
  BY DEF RereadRoot
<1>2. ASSUME NEW step \in {"send", "wait"}, Go(d, step), UNCHANGED <<lock, locals, report>>
      PROVE  IInv'
  <2>1. /\ asked'[d] = None /\ reply'[d] = "none" /\ conn' = conn /\ stopped' = stopped
        /\ LocalTypes' /\ asked' = asked /\ reply' = reply /\ work' = work
    BY <1>1, <1>2, Unasked, Types DEF locals, IInv, LocalTypes, Attempts
  <2>2. ASSUME pc'[d] = step PROVE Disconnecting(d)'
    <3>1. \A o \in Attempts : o # d => pc'[o] = pc[o]
      BY <1>2, Moved, Types, OnAnchor, <1>1 DEF IInv, DisconnectSteps
    <3>. QED
      BY <1>1, <2>1, <2>2, <3>1, StillKnows, Knows, OnAnchor DEF Disconnecting, AtRoot
  <2>. QED
    BY <1>1, <1>2, <2>1, <2>2, DisconnectGoes DEF DisconnectSteps
<1>. QED
  BY <1>1, <1>2, DisconnectEnds DEF RereadRoot

\* Whatever the answer, the DELETE stays pending in the record.
LEMMA DeleteAnsweredStep ==
  ASSUME IInv, NEW d \in Disconnects, DeleteAnswered(d)
  PROVE  IInv'
<1>1. pc[d] = "deleting" /\ pc[d] # "idle" /\ UNCHANGED <<cluster, requests, record, faults>>
  BY DEF DeleteAnswered
<1>2. ASSUME Go(d, "wait"), asked' = [asked EXCEPT ![d] = None],
             reply' = [reply EXCEPT ![d] = "none"],
             UNCHANGED <<lock, conn, work, seen, kids, stopped, report>>
      PROVE  IInv'
  <2>1. /\ asked'[d] = None /\ reply'[d] = "none" /\ LocalTypes'
        /\ \A o \in Attempts : o # d => asked'[o] = asked[o] /\ reply'[o] = reply[o]
    BY <1>2, OnAnchor, <1>1 DEF IInv, TypeOK, LocalTypes
  <2>2. ASSUME pc'[d] = "wait" PROVE Disconnecting(d)'
    <3>1. \A o \in Attempts : o # d => pc'[o] = pc[o]
      BY <1>2, Moved, Types, OnAnchor, <1>1 DEF IInv, DisconnectSteps
    <3>. QED
      BY <1>1, <1>2, <2>1, <2>2, <3>1, StillKnows, Knows, OnAnchor DEF Disconnecting, AtRoot
  <2>. QED
    BY <1>1, <1>2, <2>1, <2>2, DisconnectGoes DEF DisconnectSteps
<1>. QED
  BY <1>1, <1>2, DisconnectEnds DEF DeleteAnswered

\* The wait ends when the name is free.
LEMMA AwaitDeletedStep ==
  ASSUME IInv, NEW d \in Disconnects, AwaitDeleted(d)
  PROVE  IInv'
<1>1. pc[d] = "wait" /\ pc[d] # "idle" /\ UNCHANGED <<cluster, requests, record, faults>>
  BY DEF AwaitDeleted
<1>2. ASSUME object[work[d]] = None, Go(d, "closure"), UNCHANGED <<lock, locals, report>>
      PROVE  IInv'
  <2>1. /\ asked'[d] = None /\ reply'[d] = "none" /\ conn' = conn /\ stopped' = stopped
        /\ LocalTypes' /\ asked' = asked /\ reply' = reply /\ work' = work
    BY <1>1, <1>2, Unasked, Types DEF locals, IInv, LocalTypes, Attempts
  <2>2. ASSUME pc'[d] = "closure" PROVE Disconnecting(d)'
    <3>1. \A o \in Attempts : o # d => pc'[o] = pc[o]
      BY <1>2, Moved, Types, OnAnchor, <1>1 DEF IInv, DisconnectSteps
    <3>2. ~Owned(anchor, work[d]) /\ work[d] \in Kinds
      BY <1>1, <1>2, Knows DEF Owned, AtRoot
    <3>. QED
      BY <1>1, <2>1, <2>2, <3>1, <3>2, StillKnows, Knows, OnAnchor DEF Disconnecting, AtRoot
  <2>. QED
    BY <1>1, <1>2, <2>1, <2>2, DisconnectGoes DEF DisconnectSteps
<1>. QED
  BY <1>1, <1>2, DisconnectEnds DEF AwaitDeleted

\* The closure is empty when the gateway's processes are looked at.
LEMMA InspectClosureStep ==
  ASSUME IInv, NEW d \in Disconnects, InspectClosure(d)
  PROVE  IInv'
<1>. DEFINE step == IF work[d] = "Deployment" THEN "processes" ELSE "retire"
<1>1. pc[d] = "closure" /\ pc[d] # "idle" /\ UNCHANGED <<cluster, requests, record, faults>>
  BY DEF InspectClosure
<1>2. ASSUME Closure(anchor, work[d]) = {}, Go(d, step), UNCHANGED <<lock, locals, report>>
      PROVE  IInv'
  <2>1. /\ asked'[d] = None /\ reply'[d] = "none" /\ conn' = conn /\ stopped' = stopped
        /\ LocalTypes' /\ asked' = asked /\ reply' = reply /\ work' = work
    BY <1>1, <1>2, Unasked, Types DEF locals, IInv, LocalTypes, Attempts
  <2>2. step \in DisconnectSteps \ {"idle"}
    BY DEF DisconnectSteps
  <2>3. ASSUME pc'[d] = step PROVE Disconnecting(d)'
    <3>1. \A o \in Attempts : o # d => pc'[o] = pc[o]
      BY <1>2, <2>2, Moved, Types, OnAnchor, <1>1 DEF IInv
    <3>2. work[d] = "Deployment" => ChildrenOf(anchor) = {}
      BY <1>2 DEF Closure
    <3>3. ~Owned(anchor, work[d]) /\ work[d] \in Kinds
      BY <1>1, Knows DEF AtRoot
    <3>. QED
      BY <1>1, <2>1, <2>3, <3>1, <3>2, <3>3, StillKnows, Knows, OnAnchor DEF Disconnecting, AtRoot
  <2>. QED
    BY <1>1, <1>2, <2>1, <2>2, <2>3, DisconnectGoes
<1>. QED
  BY <1>1, <1>2, OnAnchor, DisconnectEnds DEF InspectClosure

\* With no object, no child, no CREATE and no process the gateway is dead.
LEMMA InspectProcessesStep ==
  ASSUME IInv, NEW d \in Disconnects, InspectProcesses(d)
  PROVE  IInv'
<1>1. pc[d] = "processes" /\ pc[d] # "idle" /\ UNCHANGED <<cluster, requests, record, faults>>
  BY DEF InspectProcesses
<1>2. ASSUME NoProcess, stopped' = [stopped EXCEPT ![d] = TRUE], Go(d, "retire"),
             UNCHANGED <<lock, conn, work, seen, kids, asked, reply, report>>
      PROVE  IInv'
  <2>1. asked'[d] = None /\ reply'[d] = "none" /\ LocalTypes' /\ stopped'[d] = TRUE
    BY <1>1, <1>2, Unasked DEF IInv, TypeOK, LocalTypes, Attempts
  <2>2. Dead(anchor)
    <3>1. ~Owned(anchor, "Deployment") /\ ChildrenOf(anchor) = {}
      BY <1>1, Knows
    <3>2. Gone(anchor)
      BY <1>2, <3>1 DEF Gone, ChildrenOf, NoProcess
    <3>3. \A r \in requests : ~(r.verb = "create" /\ r.by = anchor)
      BY <1>1, Knows, OnAnchor, RecordSuits DEF Says
    <3>. QED
      BY <3>2, <3>3 DEF Dead
  <2>3. ASSUME pc'[d] = "retire" PROVE Disconnecting(d)'
    <3>1. \A o \in Attempts : o # d => pc'[o] = pc[o]
      BY <1>2, Moved, Types, OnAnchor, <1>1 DEF IInv, DisconnectSteps
    <3>2. ~Owned(anchor, work[d]) /\ work[d] \in Kinds
      BY <1>1, Knows DEF AtRoot
    <3>3. Dead(anchor)' /\ Owned(anchor, work[d])' = Owned(anchor, work[d]) /\ work'[d] = work[d]
      BY <1>1, <1>2, <2>2, <3>1, <3>2, StillKnows
    <3>4. /\ conn'[d] = anchor' /\ anchor' # None /\ pc'[anchor'] = "done"
          /\ anchor' = anchor /\ family' = family
      BY <1>1, <1>2, <3>1, StillKnows
    <3>. QED
      BY <1>1, <2>1, <2>3, <3>2, <3>3, <3>4, Knows, OnAnchor DEF Disconnecting, AtRoot
  <2>. QED
    BY <1>1, <1>2, <2>1, <2>3, DisconnectGoes DEF DisconnectSteps
<1>. QED
  BY <1>1, <1>2, DisconnectEnds DEF InspectProcesses

\* The checkpoint a disconnect writes for the connection it deletes.
LEMMA DisconnectCheckpoint ==
  ASSUME IInv, NEW d \in Disconnects, pc[d] # "idle", pc[d] # "deleting",
         NEW f \in Families, Suits(f, anchor),
         family' = [family EXCEPT ![anchor] = f], anchor' = anchor,
         UNCHANGED <<cluster, requests, lock, locals, report, faults>>,
         NEW step \in DisconnectSteps \ {"idle"}, Go(d, step),
         pc'[d] = step /\ pc'[anchor'] = "done" /\ conn'[d] = anchor' /\ family'[anchor'] = f
           /\ work' = work /\ stopped' = stopped /\ Dead(anchor)' = Dead(anchor)
           => Disconnecting(d)'
  PROVE  IInv'
<1>1. /\ step \notin Resting \cup {"absent", "family"}
      /\ pc[d] \notin {"creating", "deleting"}
  BY OnAnchor DEF Resting, DisconnectSteps, IInv, TypeOK
<1>2. /\ asked'[d] = None /\ reply'[d] = "none" /\ conn' = conn /\ stopped' = stopped
      /\ LocalTypes' /\ asked' = asked /\ reply' = reply /\ work' = work
  BY <1>1, Unasked, Types DEF locals, IInv, LocalTypes, Attempts
<1>3. pc'[d] = step /\ \A o \in Attempts : o # d => pc'[o] = pc[o]
  BY Moved, Types, OnAnchor DEF IInv
<1>4. family'[anchor'] = f /\ pc'[anchor'] = "done" /\ conn'[d] = anchor'
  BY <1>2, <1>3, OnAnchor DEF IInv, TypeOK, Attempts
<1>5. Dead(anchor)' = Dead(anchor)
  BY DEF Dead, Gone, Owned, cluster
<1>6. Disconnecting(d)'
  BY <1>2, <1>3, <1>4, <1>5
<1>. QED
  BY <1>1, <1>2, <1>6, OnAnchor, CheckpointStep

\* While a disconnect is under way, the record names what is left.
LEMMA Left ==
  ASSUME IInv, NEW d \in Disconnects, pc[d] # "idle"
  PROVE  /\ \A k \in Kinds : Owned(anchor, k) =>
              k \in family[anchor].resources /\ Open(family[anchor])
         /\ \A r \in requests : ~(r.verb = "create" /\ r.by = anchor)
         /\ "Deployment" \in family[anchor].resources \/ Gone(anchor)
         /\ \A q \in requests :
              q.verb = "delete" /\ q.uid = anchor /\ Owned(anchor, q.kind)
                /\ q.version = object[q.kind].version
              => /\ q.kind \in family[anchor].resources
                 /\ family[anchor].pending # None /\ family[anchor].pending.kind = q.kind
<1>1. \A k \in Kinds : ~Says(family[anchor], "create", k)
  BY Knows DEF Says
<1>2. anchor \in Connects
  BY OnAnchor
<1>3. \A r \in requests : r.kind \in Kinds
  BY DEF IInv, TypeOK, Requests
<1>. QED
  BY <1>1, <1>2, <1>3, KindsNamed, RecordSuits DEF Says

\* A DELETE is pending before it is sent; an older one on its way is of the same root.
LEMMA RecordDeleteStep ==
  ASSUME IInv, NEW d \in Disconnects, RecordDelete(d)
  PROVE  IInv'
<1>. DEFINE p == [verb |-> "delete", kind |-> work[d], by |-> d, children |-> kids[d]]
            f == [family[anchor] EXCEPT !.pending = p]
<1>1. /\ pc[d] = "intent" /\ pc[d] # "idle" /\ conn[d] = anchor
      /\ anchor \in Connects /\ family[anchor] \in Families
  BY OnAnchor DEF RecordDelete
<1>2. /\ work[d] \in Kinds /\ work[d] \in family[anchor].resources
      /\ family[anchor].pending # None => family[anchor].pending.kind = work[d]
      /\ family[anchor].stage = "saved" /\ family[anchor].complete = FALSE
      /\ stopped[d] => Dead(anchor)
  BY <1>1, Knows, OnAnchor DEF AtRoot
<1>3. p \in Pending /\ p # None
  BY <1>1, <1>2, NotNone DEF Pending, IInv, TypeOK, Attempts
<1>4. /\ f.stage = "saved" /\ f.pending = p /\ f.resources = family[anchor].resources
      /\ f.complete = FALSE /\ f \in Families
  BY <1>1, <1>2, <1>3 DEF Families
<1>5. p.verb = "delete" /\ p.kind = work[d]
  OBVIOUS
<1>6. /\ family' = [family EXCEPT ![anchor] = f] /\ anchor' = anchor /\ Go(d, "reread")
      /\ UNCHANGED <<cluster, requests, lock, locals, report, faults>>
  BY <1>1 DEF RecordDelete, Checkpoint
<1>. HIDE DEF f, p
<1>7. Suits(f, anchor)
  <2>1. \A e \in Connects : Unfinished(e) => e = anchor
    BY <1>1, <1>2, RecordSuits DEF Open
  <2>. QED
    BY <1>1, <1>2, <1>3, <1>4, <1>5, <2>1, Left DEF Suits, Open, Says
<1>8. ASSUME pc'[d] = "reread", pc'[anchor'] = "done", conn'[d] = anchor', family'[anchor'] = f,
             work' = work, stopped' = stopped, Dead(anchor)' = Dead(anchor)
      PROVE  Disconnecting(d)'
  BY <1>1, <1>2, <1>3, <1>4, <1>5, <1>6, <1>8, NotNone DEF Disconnecting, AtRoot
<1>. QED
  BY <1>1, <1>4, <1>6, <1>7, <1>8, DisconnectCheckpoint DEF DisconnectSteps

\* A retired root is gone, and with the last gateway everything of it.
LEMMA RetireRootStep ==
  ASSUME IInv, NEW d \in Disconnects, RetireRoot(d)
  PROVE  IInv'
<1>. DEFINE k == work[d]
            f == [family[anchor] EXCEPT
                    !.resources = @ \ {k},
                    !.children = IF k = "Deployment" THEN {} ELSE @,
                    !.pending = None]
<1>1. /\ pc[d] = "retire" /\ pc[d] # "idle" /\ conn[d] = anchor
      /\ anchor \in Connects /\ family[anchor] \in Families
  BY OnAnchor DEF RetireRoot
<1>2. /\ k \in Kinds /\ ~Owned(anchor, k)
      /\ family[anchor].pending # None => family[anchor].pending.kind = k
      /\ family[anchor].stage = "saved" /\ family[anchor].complete = FALSE
      /\ stopped[d] => Dead(anchor)
      /\ k = "Deployment" => stopped[d]
  BY <1>1, Knows, OnAnchor DEF AtRoot
<1>3. /\ f.stage = "saved" /\ f.pending = None /\ f.resources = family[anchor].resources \ {k}
      /\ f.complete = FALSE /\ f \in Families
  BY <1>1, <1>2 DEF Families
<1>4. /\ family' = [family EXCEPT ![anchor] = f] /\ anchor' = anchor /\ Go(d, "pick")
      /\ UNCHANGED <<cluster, requests, lock, locals, report, faults>>
  BY <1>1 DEF RetireRoot, Checkpoint
<1>. HIDE DEF f
<1>5. Suits(f, anchor)
  <2>1. \A e \in Connects : Unfinished(e) => e = anchor
    BY <1>1, <1>2, RecordSuits DEF Open
  <2>2. "Deployment" \in f.resources \/ Gone(anchor)
    BY <1>1, <1>2, <1>3, Left DEF Dead
  <2>. QED
    BY <1>1, <1>2, <1>3, <2>1, <2>2, Left DEF Suits, Open, Says
<1>6. ASSUME pc'[d] = "pick", pc'[anchor'] = "done", conn'[d] = anchor', family'[anchor'] = f,
             work' = work, stopped' = stopped, Dead(anchor)' = Dead(anchor)
      PROVE  Disconnecting(d)'
  BY <1>1, <1>2, <1>3, <1>4, <1>6, NotNone DEF Disconnecting, AtRoot
<1>. QED
  BY <1>1, <1>3, <1>4, <1>5, <1>6, DisconnectCheckpoint DEF DisconnectSteps

\* A family is completed when nothing is retained or pending.
LEMMA CompleteFamilyStep ==
  ASSUME IInv, NEW d \in Disconnects, CompleteFamily(d)
  PROVE  IInv'
<1>. DEFINE f == [family[anchor] EXCEPT !.complete = TRUE]
<1>1. /\ pc[d] = "pick" /\ pc[d] # "idle" /\ conn[d] = anchor
      /\ anchor \in Connects /\ family[anchor] \in Families
      /\ family[anchor].resources = {} /\ UNCHANGED <<cluster, requests, faults>>
  BY OnAnchor DEF CompleteFamily
<1>2. CASE family[anchor].pending # None
  BY <1>1, <1>2, DisconnectEnds DEF CompleteFamily
<1>3. CASE family[anchor].pending = None
  <2>1. family[anchor].stage = "saved" /\ (stopped[d] => Dead(anchor))
    BY <1>1, Knows, OnAnchor
  <2>2. /\ f.stage = "saved" /\ f.pending = None /\ f.resources = {}
        /\ f.complete = TRUE /\ f \in Families
    BY <1>1, <1>3, <2>1 DEF Families
  <2>3. /\ family' = [family EXCEPT ![anchor] = f] /\ anchor' = anchor /\ Go(d, "finish")
        /\ UNCHANGED <<cluster, requests, lock, locals, report, faults>>
    BY <1>1, <1>3 DEF CompleteFamily, Checkpoint
  <2>. HIDE DEF f
  <2>4. Suits(f, anchor)
    BY <1>1, <1>3, <2>2, Left DEF Suits, Open
  <2>5. ASSUME pc'[d] = "finish", pc'[anchor'] = "done", conn'[d] = anchor', family'[anchor'] = f,
               work' = work, stopped' = stopped, Dead(anchor)' = Dead(anchor)
        PROVE  Disconnecting(d)'
    BY <1>1, <2>1, <2>2, <2>3, <2>5, NotNone DEF Disconnecting, AtRoot
  <2>. QED
    BY <1>1, <2>2, <2>3, <2>4, <2>5, DisconnectCheckpoint DEF DisconnectSteps
<1>. QED
  BY <1>2, <1>3

\* The DELETE carries what the last read found of a retained, unedited object.
LEMMA SendDeleteStep ==
  ASSUME IInv, NEW d \in Disconnects, SendDelete(d)
  PROVE  IInv'
<1>. DEFINE k == work[d]
            q == [verb |-> "delete", by |-> d, kind |-> k, uid |-> object[k].uid,
                  version |-> object[k].version]
<1>1. /\ pc[d] = "send" /\ pc[d] # "idle" /\ conn[d] = anchor /\ d \in Attempts /\ lock = d
      /\ UNCHANGED <<cluster, record, faults>>
      /\ anchor \in Connects /\ pc[anchor] = "done" /\ anchor \in Attempts /\ anchor # d
  BY OnAnchor DEF SendDelete, Attempts
<1>2. /\ k \in Kinds /\ k \in family[anchor].resources
      /\ family[anchor].pending # None /\ family[anchor].pending.kind = k
      /\ family[anchor].pending.verb = "delete"
      /\ stopped[d] => Dead(anchor)
  BY <1>1, Knows DEF AtRoot
<1>3. CASE End(d, Failure(d)) /\ UNCHANGED requests
  BY <1>1, <1>3, DisconnectEnds
<1>4. CASE Go(d, "wait") /\ UNCHANGED <<requests, lock, locals, report>>
  <2>1. /\ asked'[d] = None /\ reply'[d] = "none" /\ conn' = conn /\ stopped' = stopped
        /\ LocalTypes' /\ asked' = asked /\ reply' = reply /\ work' = work
    BY <1>1, <1>4, Unasked, Types DEF locals, IInv, LocalTypes, Attempts
  <2>2. ASSUME pc'[d] = "wait" PROVE Disconnecting(d)'
    <3>1. \A o \in Attempts : o # d => pc'[o] = pc[o]
      BY <1>1, <1>4, Moved, Types, OnAnchor DEF IInv, DisconnectSteps
    <3>. QED
      BY <1>1, <1>4, <2>1, <2>2, <3>1, StillKnows, Knows, OnAnchor DEF Disconnecting, AtRoot
  <2>. QED
    BY <1>1, <1>4, <2>1, <2>2, DisconnectGoes DEF DisconnectSteps
<1>5. ASSUME Serving(anchor, k), Send(d, q), Go(d, "deleting"),
             UNCHANGED <<lock, conn, work, seen, kids, reply, stopped, report>>
      PROVE  IInv'
  <2>1. /\ object' = object /\ replicas' = replicas /\ pod' = pod /\ anchor' = anchor
        /\ family' = family /\ requests' = requests \cup {q} /\ asked' = [asked EXCEPT ![d] = q]
        /\ faults' = faults
    BY <1>1, <1>5 DEF cluster, record, Send
  <2>2. /\ object[k] # None /\ object[k].uid = anchor /\ ~object[k].edited
        /\ ~object[k].terminating /\ object[k] \in Objects
    BY <1>2, <1>5 DEF Serving, Intact, IInv, TypeOK
  <2>3. /\ q.verb = "delete" /\ q.by = d /\ q.uid = anchor /\ q.kind = k
        /\ q.version = object[k].version /\ q \in Requests
    BY <1>1, <1>2, <2>2 DEF Requests, Objects
  <2>. HIDE DEF q
  <2>4. Places' /\ pc'[d] = "deleting" /\ \A o \in Attempts : o # d => pc'[o] = pc[o]
    BY <1>1, <1>5, OnAnchor, Moved, Types DEF IInv, DisconnectSteps
  <2>5. TypeOK'
    <3>1. LocalTypes'
      BY <1>1, <1>5, <2>1, <2>3 DEF IInv, TypeOK, LocalTypes
    <3>2. WorldTypes'
      BY <2>1, <2>3 DEF IInv, TypeOK, WorldTypes
    <3>. QED
      BY <1>1, <1>5, <2>4, <3>1, <3>2, Types, TypesAfter DEF IInv, ReportType
  <2>6. \A e \in Connects : pc'[e] = pc[e]
    BY <2>4, OnAnchor, <1>1 DEF Attempts
  <2>7. World'
    <3>1. \A e \in Connects : Chain(e)'
      BY <2>1, <2>6 DEF IInv, World, Chain
    <3>2. OneUnfinished'
      BY <2>1 DEF IInv, World, OneUnfinished, Unfinished
    <3>3. EffectsAreRecorded'
      BY <2>1, <2>3 DEF IInv, World, EffectsAreRecorded, Unfinished, IsPending
    <3>4. \A e \in Connects : Accounted(e)'
      BY <2>1 DEF IInv, World, Accounted, IsPending, Gone, Owned
    <3>5. Late(q)
      <4>1. object[k].version <= object[k].version
        BY <2>2, FaultsAssumption DEF Objects, Versions
      <4>. QED
        BY <1>1, <1>2, <2>2, <2>3, <4>1 DEF Late, Owned, IsPending
    <3>6. ASSUME NEW r \in requests' PROVE (IF r.verb = "delete" THEN Late(r) ELSE Created(r))'
      <4>1. CASE r.verb = "delete"
        <5>1. Late(r) /\ r.uid \in Connects
          BY <1>1, <2>1, <2>3, <3>5, <4>1 DEF IInv, World, TypeOK, Requests
        <5>. QED
          BY <2>1, <2>6, <4>1, <5>1 DEF Late, Owned, IsPending
      <4>2. CASE r.verb # "delete"
        BY <2>1, <2>3, <4>2 DEF Created, IInv, World
      <4>. QED
        BY <4>1, <4>2
    <3>7. \A e \in Kinds : Aged(e)'
      BY <2>1 DEF IInv, World, Aged
    <3>8. Reported'
      BY <1>5, <2>1, <2>3, <2>6, SameReport DEF cluster
    <3>. QED
      BY <3>1, <3>2, <3>3, <3>4, <3>6, <3>7, <3>8 DEF World
  <2>8. Alone(d)'
    BY <1>1, <1>5, <2>4 DEF Alone, Resting
  <2>9. Disconnecting(d)'
    <3>1. Dead(anchor) => Dead(anchor)'
      BY <2>1, <2>3 DEF Dead, Gone, Owned
    <3>2. pc'[anchor] = "done" /\ anchor # None /\ family[anchor].complete = FALSE
          /\ family[anchor].stage = "saved"
      BY <1>1, <2>4, OnAnchor, Knows, NotNone
    <3>. QED
      BY <1>1, <1>2, <1>5, <2>1, <2>4, <3>1, <3>2 DEF Disconnecting, AtRoot
  <2>10. \A o \in Attempts : o # d => asked'[o] = asked[o] /\ reply'[o] = reply[o]
    BY <1>5, <2>1
  <2>. QED
    BY <1>1, <1>5, <2>4, <2>5, <2>7, <2>8, <2>9, <2>10, OnAnchor, RunStep
<1>. QED
  BY <1>1, <1>3, <1>4, <1>5 DEF SendDelete

\* The anchor goes when its family is completed and so nothing of it is left.
LEMMA RemoveAnchorStep ==
  ASSUME IInv, NEW d \in Disconnects, RemoveAnchor(d)
  PROVE  IInv'
<1>1. /\ pc[d] = "finish" /\ pc[d] # "idle" /\ conn[d] = anchor /\ d \in Attempts /\ lock = d
      /\ anchor \in Connects /\ pc[anchor] = "done" /\ anchor \in Attempts /\ anchor # d
      /\ family[anchor].complete /\ d \notin Connects
  BY OnAnchor, Knows DEF RemoveAnchor, Attempts
<1>2. /\ object' = object /\ replicas' = replicas /\ pod' = pod /\ requests' = requests
      /\ family' = family /\ faults' = faults /\ anchor' = None /\ End(d, "stopped")
  BY DEF RemoveAnchor, cluster
<1>3. family[anchor].resources = {} /\ family[anchor].pending = None
  BY <1>1 DEF IInv, World, Chain
<1>4. Dead(anchor)
  BY <1>1, <1>3, Retired
<1>5. /\ Places' /\ LocalTypes' /\ ReportType' /\ lock' = None
      /\ pc'[d] = "idle"
      /\ \A o \in Attempts : o # d => pc'[o] = pc[o] /\ asked'[o] = asked[o] /\ reply'[o] = reply[o]
      /\ Alone(d)' /\ Disconnecting(d)'
  BY <1>1, <1>2, Ending
<1>6. TypeOK'
  BY <1>2, <1>5, Types, TypesAfter DEF IInv, WorldTypes
<1>7. \A e \in Connects : pc'[e] = pc[e]
  BY <1>1, <1>5 DEF Attempts
<1>8. World'
  <2>1. \A e \in Connects : Chain(e)'
    BY <1>2, <1>7 DEF IInv, World, Chain
  <2>2. OneUnfinished'
    BY <1>2 DEF IInv, World, OneUnfinished, Unfinished
  <2>3. \A k \in Kinds : object[k] # None => object[k].uid = Foreign
    BY <1>1 DEF IInv, World, EffectsAreRecorded, Unfinished
  <2>4. \A r \in requests : r.verb # "create"
    BY <1>1 DEF IInv, World, EffectsAreRecorded, Unfinished
  <2>5. EffectsAreRecorded'
    BY <1>2, <2>3, <2>4 DEF EffectsAreRecorded
  <2>6. \A e \in Connects : Accounted(e)'
    BY <1>2 DEF IInv, World, Accounted, IsPending, Gone, Owned
  <2>7. ASSUME NEW q \in requests PROVE (IF q.verb = "delete" THEN Late(q) ELSE Created(q))'
    <3>1. CASE q.verb = "delete"
      <4>1. Late(q) /\ q.uid \in Connects
        BY <3>1 DEF IInv, World, TypeOK, Requests
      <4>. QED
        BY <1>2, <1>7, <3>1, <4>1 DEF Late, Owned, IsPending
    <3>2. CASE q.verb # "delete"
      BY <2>4, <3>2 DEF IInv, TypeOK, Requests
    <3>. QED
      BY <3>1, <3>2
  <2>8. \A k \in Kinds : Aged(k)'
    BY <1>2 DEF IInv, World, Aged
  <2>9. Reported'
    <3>. PICK e : e = anchor
      OBVIOUS
    <3>1. report' = [of |-> e, state |-> "stopped"] /\ report'.of = e
      BY <1>1, <1>2 DEF End
    <3>2. e \in Connects /\ Dead(e)' /\ pc'[e] = "done"
      BY <1>1, <1>2, <1>4, <1>7 DEF Dead, Gone, Owned
    <3>. QED
      BY <3>1, <3>2, Zenon DEF Reported
  <2>. QED
    BY <1>2, <2>1, <2>2, <2>5, <2>6, <2>7, <2>8, <2>9 DEF World
<1>. QED
  BY <1>1, <1>5, <1>6, <1>8, RunStep

\* Every step of a disconnect.
LEMMA DisconnectStep ==
  ASSUME IInv, NEW d \in Disconnects, Disconnect(d)
  PROVE  IInv'
BY RefuseDisconnectStep, BeginningStep, SurveyRootsStep, PickRootStep, RecordDeleteStep,
   RereadRootStep, SendDeleteStep, DeleteAnsweredStep, AwaitDeletedStep, InspectClosureStep,
   InspectProcessesStep, RetireRootStep, CompleteFamilyStep, RemoveAnchorStep
   DEF Disconnect

\* Whatever a run was doing, its end leaves the record and the cluster to the next one.
LEMMA AbortStep ==
  ASSUME IInv, NEW a \in Attempts, Abort(a)
  PROVE  IInv'
<1>1. /\ pc[a] \notin Resting /\ End(a, Failure(a)) /\ UNCHANGED <<cluster, requests, record>>
      /\ faults' = faults + 1 /\ faults < MaxFaults
  BY DEF Abort, Resting
<1>2. faults' \in 0 .. MaxFaults /\ faults <= faults'
  BY <1>1, FaultsAssumption DEF IInv, TypeOK
<1>. QED
  BY <1>1, <1>2, UnderWay, FailureKinds, EndStep

-----------------------------------------------------------------------------
(* The cluster *)

\* A step of the ReplicaSet, its Pods or their processes.
LEMMA WorkloadStep ==
  ASSUME IInv, UNCHANGED <<object, Local>>, faults' \in 0 .. MaxFaults, faults <= faults',
         replicas' \in ReplicaSets \cup {None},
         pod' \in [Pods -> [owner : Connects \cup {None}, api : BOOLEAN, running : BOOLEAN]],
         \A c \in Connects : Gone(c) => Gone(c)',
         \A c \in Connects : ~Owned(c, "Deployment") /\ ChildrenOf(c) = {} => ChildrenOf(c)' = {}
  PROVE  IInv'
<1>1. /\ object' = object /\ requests' = requests /\ lock' = lock /\ anchor' = anchor
      /\ family' = family /\ pc' = pc /\ conn' = conn /\ work' = work /\ seen' = seen
      /\ kids' = kids /\ asked' = asked /\ reply' = reply /\ stopped' = stopped
      /\ report' = report
  BY DEF Local, record, locals
<1>2. TypeOK'
  BY <1>1 DEF IInv, TypeOK
<1>3. ASSUME NEW c \in Connects, Dead(c) PROVE Dead(c)'
  BY <1>1, <1>3 DEF Dead
<1>4. World'
  <2>1. \A c \in Connects : Chain(c)'
    BY <1>1 DEF IInv, World, Chain
  <2>2. OneUnfinished'
    BY <1>1 DEF IInv, World, OneUnfinished, Unfinished
  <2>3. EffectsAreRecorded'
    BY <1>1 DEF IInv, World, EffectsAreRecorded, Unfinished, IsPending
  <2>4. \A c \in Connects : Accounted(c)'
    BY <1>1 DEF IInv, World, Accounted, IsPending
  <2>5. ASSUME NEW q \in requests PROVE (IF q.verb = "delete" THEN Late(q) ELSE Created(q))'
    <3>1. IF q.verb = "delete" THEN Late(q) ELSE Created(q)
      BY DEF IInv, World
    <3>. QED
      BY <1>1, <3>1 DEF Late, Owned, IsPending, Created
  <2>6. \A k \in Kinds : Aged(k)'
    <3>. SUFFICES ASSUME NEW k \in Kinds, object[k] # None PROVE Aged(k)'
      BY <1>1 DEF Aged
    <3>1. Aged(k) /\ object[k].version \in Nat /\ faults \in Nat /\ faults' \in Nat
      BY FaultsAssumption DEF IInv, World, TypeOK, Objects, Versions
    <3>. QED
      BY <1>1, <3>1 DEF Aged
  <2>7. Reported'
    BY <1>1, <1>3 DEF IInv, World, Reported
  <2>. QED
    BY <1>1, <2>1, <2>2, <2>3, <2>4, <2>5, <2>6, <2>7 DEF World
<1>5. ASSUME NEW a \in Attempts PROVE Alone(a)'
  BY <1>1 DEF IInv, Runs, Alone
<1>6. ASSUME NEW c \in Connects PROVE Connecting(c)'
  <2>1. Connecting(c)
    BY DEF IInv, Runs
  <2>. QED
    BY <1>1, <2>1 DEF Connecting, AllFinished, Unfinished, Creating
<1>7. ASSUME NEW d \in Disconnects PROVE Disconnecting(d)'
  <2>. SUFFICES ASSUME pc[d] # "idle" PROVE Disconnecting(d)'
    BY <1>1 DEF Disconnecting
  <2>1. Disconnecting(d) /\ conn[d] = anchor /\ anchor \in Connects
    BY OnAnchor
  <2>2. \A k \in Kinds : Owned(anchor, k)' = Owned(anchor, k)
    BY <1>1 DEF Owned
  <2>3. pc[d] = "processes" => ~Owned(anchor, "Deployment") /\ ChildrenOf(anchor) = {}
    BY Knows
  <2>4. pc[d] = "processes" => (ChildrenOf(anchor) = {})'
    BY <1>1, <2>1, <2>3
  <2>5. stopped[d] => Dead(anchor)'
    BY <1>1, <1>3, <2>1, Knows
  <2>6. pc[d] \in {"closure", "processes", "retire"} => ~Owned(anchor, work[d])'
    BY <1>1, <2>2, Knows DEF AtRoot
  <2>. QED
    BY <1>1, <2>1, <2>4, <2>5, <2>6 DEF Disconnecting
<1>. QED
  BY <1>2, <1>4, <1>5, <1>6, <1>7 DEF IInv, Runs

\* No controller revives a gateway that is gone.
LEMMA ControllersWork ==
  ASSUME IInv,
         \/ Replicate \/ CollectReplicas \/ RemoveReplicas
         \/ \E p \in Pods : Spawn(p) \/ Run(p) \/ Reap(p) \/ Die(p) \/ ForceRemove(p)
  PROVE  IInv'
<1>1. /\ replicas \in ReplicaSets \cup {None}
      /\ pod \in [Pods -> [owner : Connects \cup {None}, api : BOOLEAN, running : BOOLEAN]]
      /\ faults \in 0 .. MaxFaults
  BY DEF IInv, TypeOK
<1>3. CASE Replicate
  <2>1. PICK e \in Connects : Lives(e)
    BY <1>3 DEF Replicate
  <2>2. /\ replicas' = [owner |-> e, terminating |-> FALSE] /\ pod' = pod
        /\ UNCHANGED <<object, Local>> /\ faults' = faults /\ Owned(e, "Deployment")
    BY <1>3, <2>1 DEF Replicate, Lives, Owned
  <2>3. replicas' \in ReplicaSets /\ replicas'.owner = e
    BY <2>2 DEF ReplicaSets
  <2>4. \A c \in Connects : Gone(c) => Gone(c)'
    BY <2>2, <2>3 DEF Gone, Owned
  <2>5. \A c \in Connects : ~Owned(c, "Deployment") /\ ChildrenOf(c) = {} => ChildrenOf(c)' = {}
    BY <2>2, <2>3 DEF ChildrenOf
  <2>. QED
    BY <1>1, <2>2, <2>3, <2>4, <2>5, WorkloadStep, FaultsAssumption
<1>4. CASE CollectReplicas
  <2>1. /\ replicas' = [replicas EXCEPT !.terminating = TRUE] /\ pod' = pod
        /\ UNCHANGED <<object, Local>> /\ faults' = faults /\ replicas \in ReplicaSets
    BY <1>1, <1>4 DEF CollectReplicas
  <2>2. replicas' \in ReplicaSets /\ replicas'.owner = replicas.owner
    BY <2>1 DEF ReplicaSets
  <2>3. replicas # None
    BY <1>4 DEF CollectReplicas
  <2>4. \A c \in Connects : Gone(c) => Gone(c)'
    BY <2>1, <2>2, <2>3 DEF Gone, Owned
  <2>5. \A c \in Connects : ~Owned(c, "Deployment") /\ ChildrenOf(c) = {} => ChildrenOf(c)' = {}
    BY <2>1, <2>2, <2>3 DEF ChildrenOf
  <2>. QED
    BY <1>1, <2>1, <2>2, <2>4, <2>5, WorkloadStep, FaultsAssumption
<1>5. CASE RemoveReplicas
  <2>1. replicas' = None /\ pod' = pod /\ UNCHANGED <<object, Local>> /\ faults' = faults
    BY <1>5 DEF RemoveReplicas
  <2>2. \A c \in Connects : Gone(c) => Gone(c)'
    BY <2>1 DEF Gone, Owned
  <2>3. \A c \in Connects : ~Owned(c, "Deployment") /\ ChildrenOf(c) = {} => ChildrenOf(c)' = {}
    BY <2>1 DEF ChildrenOf
  <2>. QED
    BY <1>1, <2>1, <2>2, <2>3, WorkloadStep, FaultsAssumption
<1>6. ASSUME NEW p \in Pods, Spawn(p) PROVE IInv'
  <2>1. /\ replicas' = replicas /\ UNCHANGED <<object, Local>> /\ faults' = faults
        /\ replicas \in ReplicaSets /\ replicas # None
        /\ pod' = [pod EXCEPT ![p] = [owner |-> replicas.owner, api |-> TRUE, running |-> FALSE]]
    BY <1>1, <1>6 DEF Spawn
  <2>2. pod' \in [Pods -> [owner : Connects \cup {None}, api : BOOLEAN, running : BOOLEAN]]
    BY <1>1, <2>1 DEF ReplicaSets
  <2>3. pod'[p].owner = replicas.owner /\ \A o \in Pods : o # p => pod'[o] = pod[o]
    BY <1>1, <2>1
  <2>4. \A c \in Connects : Gone(c) => Gone(c)'
    BY <2>1, <2>3 DEF Gone, Owned
  <2>5. \A c \in Connects : ~Owned(c, "Deployment") /\ ChildrenOf(c) = {} => ChildrenOf(c)' = {}
    BY <2>1, <2>3 DEF ChildrenOf
  <2>. QED
    BY <1>1, <2>1, <2>2, <2>4, <2>5, WorkloadStep, FaultsAssumption
<1>7. ASSUME NEW p \in Pods, Run(p) \/ Reap(p) \/ Die(p) \/ ForceRemove(p) PROVE IInv'
  <2>1. /\ replicas' = replicas /\ UNCHANGED <<object, Local>> /\ faults' \in 0 .. MaxFaults
        /\ faults <= faults'
    BY <1>1, <1>7, FaultsAssumption DEF Run, Reap, Die, ForceRemove
  <2>2. /\ pod' \in [Pods -> [owner : Connects \cup {None}, api : BOOLEAN, running : BOOLEAN]]
        /\ pod'[p].owner = pod[p].owner
        /\ pod'[p].api => pod[p].api
        /\ pod'[p].running => pod[p].running \/ pod[p].api
        /\ \A o \in Pods : o # p => pod'[o] = pod[o]
    <3>. DEFINE Kept == [owner : Connects \cup {None}, api : BOOLEAN, running : BOOLEAN]
    <3>1. PICK x \in Kept : /\ pod' = [pod EXCEPT ![p] = x] /\ x.owner = pod[p].owner
                            /\ x.api => pod[p].api
                            /\ x.running => pod[p].running \/ pod[p].api
      <4>1. pod[p] \in Kept
        BY <1>1
      <4>2. CASE Run(p)
        <5>1. [pod[p] EXCEPT !.running = TRUE] \in Kept
          BY <4>1
        <5>. QED
          BY <1>1, <4>1, <4>2, <5>1 DEF Run
      <4>3. CASE Reap(p)
        <5>1. [pod[p] EXCEPT !.api = FALSE, !.running = FALSE] \in Kept
          BY <4>1
        <5>. QED
          BY <1>1, <4>1, <4>3, <5>1 DEF Reap
      <4>4. CASE Die(p)
        <5>1. [pod[p] EXCEPT !.running = FALSE] \in Kept
          BY <4>1
        <5>. QED
          BY <1>1, <4>1, <4>4, <5>1 DEF Die
      <4>5. CASE ForceRemove(p)
        <5>1. [pod[p] EXCEPT !.api = FALSE] \in Kept
          BY <4>1
        <5>. QED
          BY <1>1, <4>1, <4>5, <5>1 DEF ForceRemove
      <4>. QED
        BY <1>7, <4>2, <4>3, <4>4, <4>5
    <3>. QED
      BY <1>1, <3>1
  <2>3. \A c \in Connects : Gone(c) => Gone(c)'
    <3>1. ASSUME NEW c \in Connects, Gone(c), NEW o \in Pods, pod'[o].owner = c
          PROVE  ~pod'[o].running /\ ~pod'[o].api
      BY <2>2, <3>1 DEF Gone
    <3>2. object' = object
      BY <2>1
    <3>. QED
      BY <2>1, <3>1, <3>2 DEF Gone, Owned
  <2>4. \A c \in Connects : ~Owned(c, "Deployment") /\ ChildrenOf(c) = {} => ChildrenOf(c)' = {}
    <3>1. ASSUME NEW c \in Connects, ChildrenOf(c) = {}, NEW o \in Pods
          PROVE  ~(pod'[o].owner = c /\ pod'[o].api)
      BY <2>2, <3>1 DEF ChildrenOf
    <3>. QED
      BY <2>1, <3>1 DEF ChildrenOf
  <2>. QED
    BY <1>1, <2>1, <2>2, <2>3, <2>4, WorkloadStep
<1>. QED
  BY <1>3, <1>4, <1>5, <1>6, <1>7

\* What can become of the object under the name of kind k, with some requests answered.
Changed(k) ==
  \/ object'[k] = object[k]
  \/ object'[k] = None
  \/ object'[k] # None /\ object'[k].uid = Foreign
  \/ /\ object[k] # None /\ object'[k] # None
     /\ object'[k].uid = object[k].uid
     /\ object'[k].version = object[k].version + 1
  \/ \E r \in requests : r.verb = "create" /\ r.kind = k /\ object'[k].uid = r.uid

\* A step of the API server, or of somebody else there.
LEMMA ObjectStep ==
  ASSUME IInv,
         UNCHANGED <<replicas, pod, lock, record, pc, conn, work, seen, kids, asked, stopped, report>>,
         faults' \in 0 .. MaxFaults, object' \in [Kinds -> Objects \cup {None}],
         requests' \subseteq requests, reply' \in [Attempts -> {"ok", "refused", "none"}],
         \A a \in Attempts : asked[a] = None => reply'[a] = reply[a],
         \A c \in Connects : pc[c] = "creating" =>
           reply'[c] = reply[c] \/ \A r \in requests' : r.verb # "create",
         \A k \in Kinds : Changed(k) /\ Aged(k)'
  PROVE  IInv'
<1>1. /\ replicas' = replicas /\ pod' = pod /\ lock' = lock /\ anchor' = anchor
      /\ family' = family /\ pc' = pc /\ conn' = conn /\ work' = work /\ seen' = seen
      /\ kids' = kids /\ asked' = asked /\ stopped' = stopped /\ report' = report
  BY DEF record
<1>2. TypeOK'
  BY <1>1 DEF IInv, TypeOK
<1>3. ASSUME NEW c \in Connects, NEW k \in Kinds, Owned(c, k)', ~Owned(c, k)
      PROVE  \E r \in requests : r.verb = "create" /\ r.by = c /\ r.kind = k
  <2>1. Foreign # c
    BY NotNone
  <2>2. PICK r \in requests : r.verb = "create" /\ r.kind = k /\ object'[k].uid = r.uid
    BY <1>3, <2>1 DEF Changed, Owned
  <2>3. r.uid = r.by
    BY <2>2 DEF IInv, World, Created
  <2>. QED
    BY <1>3, <2>2, <2>3 DEF Owned
<1>4. ASSUME NEW c \in Connects, NEW k \in Kinds, Owned(c, k)', ~Owned(c, k)
      PROVE  anchor = c /\ Open(family[c]) /\ Says(family[c], "create", k)
  BY <1>3, <1>4, RecordSuits
<1>5. ASSUME NEW c \in Connects, Gone(c), ~Says(family[c], "create", "Deployment")
      PROVE  Gone(c)'
  BY <1>1, <1>4, <1>5, KindsNamed DEF Gone
<1>6. ASSUME NEW c \in Connects, Dead(c) PROVE Dead(c)'
  <2>1. ~Owned(c, "Deployment")'
    BY <1>3, <1>6, KindsNamed DEF Dead, Gone
  <2>. QED
    BY <1>1, <1>6, <2>1 DEF Dead, Gone
<1>7. World'
  <2>1. \A c \in Connects : Chain(c)'
    BY <1>1 DEF IInv, World, Chain
  <2>2. OneUnfinished'
    BY <1>1 DEF IInv, World, OneUnfinished, Unfinished
  <2>3. EffectsAreRecorded'
    <3>1. ASSUME NEW k \in Kinds, object'[k] # None, object'[k].uid # Foreign
          PROVE  LET c == object'[k].uid
                 IN anchor = c /\ Unfinished(c) /\ (k \in family[c].resources \/ IsPending(c, "create", k))
      <4>1. PICK c \in Connects : c = object'[k].uid
        BY <3>1 DEF Objects
      <4>2. Owned(c, k)'
        BY <3>1, <4>1 DEF Owned
      <4>3. anchor = c /\ Open(family[c]) /\ (k \in family[c].resources \/ Says(family[c], "create", k))
        BY <1>4, <4>2, RecordSuits
      <4>. QED
        BY <4>1, <4>3 DEF Open, Says, Unfinished, IsPending
    <3>2. \A r \in requests' : r.verb = "create" =>
            anchor = r.by /\ Unfinished(r.by) /\ IsPending(r.by, "create", r.kind)
      BY DEF IInv, World, EffectsAreRecorded
    <3>. QED
      BY <1>1, <3>1, <3>2 DEF EffectsAreRecorded, Unfinished, IsPending
  <2>4. ASSUME NEW c \in Connects PROVE Accounted(c)'
    <3>1. Accounted(c)
      BY DEF IInv, World
    <3>. QED
      BY <1>1, <1>5, <3>1 DEF Accounted, IsPending, Says
  <2>5. ASSUME NEW q \in requests' PROVE (IF q.verb = "delete" THEN Late(q) ELSE Created(q))'
    <3>1. q \in requests /\ q.kind \in Kinds
      BY DEF IInv, TypeOK, Requests
    <3>2. CASE q.verb = "delete"
      <4>1. Late(q) /\ q.uid \in Connects /\ q.version \in Nat
        BY <3>1, <3>2, FaultsAssumption DEF IInv, World, TypeOK, Requests, Versions
      <4>2. ASSUME Owned(q.uid, q.kind)'
            PROVE  /\ q.version <= object'[q.kind].version
                   /\ object'[q.kind].terminating => q.version < object'[q.kind].version
                   /\ q.version = object'[q.kind].version =>
                        /\ ~object'[q.kind].edited
                        /\ q.kind \in family[q.uid].resources
                        /\ IsPending(q.uid, "delete", q.kind)
        <5>1. Owned(q.uid, q.kind)
          BY <1>4, <3>1, <4>1, <4>2 DEF Late, Says
        <5>2. ~\E r \in requests : r.verb = "create" /\ r.kind = q.kind /\ r.uid = q.uid
          <6>. SUFFICES ASSUME NEW r \in requests, r.verb = "create", r.kind = q.kind, r.uid = q.uid
                        PROVE  FALSE
            OBVIOUS
          <6>1. r.by = q.uid
            BY DEF IInv, World, Created
          <6>. QED
            BY <4>1, <6>1, RecordSuits DEF Late, Says
        <5>3. object'[q.kind] = object[q.kind] \/ object'[q.kind].version = object[q.kind].version + 1
          BY <3>1, <4>1, <4>2, <5>1, <5>2, NotNone DEF Changed, Owned
        <5>4. object[q.kind].version \in Nat
          BY <3>1, <5>1, FaultsAssumption DEF Owned, IInv, TypeOK, Objects, Versions
        <5>. QED
          BY <4>1, <5>1, <5>3, <5>4 DEF Late
      <4>. QED
        BY <1>1, <3>2, <4>1, <4>2 DEF Late, IsPending
    <3>3. CASE q.verb # "delete"
      BY <3>1, <3>3 DEF IInv, World, Created
    <3>. QED
      BY <3>2, <3>3
  <2>6. Reported'
    BY <1>1, <1>6 DEF IInv, World, Reported
  <2>. QED
    BY <1>1, <2>1, <2>2, <2>3, <2>4, <2>5, <2>6 DEF World
<1>8. ASSUME NEW a \in Attempts PROVE Alone(a)'
  BY <1>1 DEF IInv, Runs, Alone
<1>9. ASSUME NEW c \in Connects PROVE Connecting(c)'
  <2>1. Connecting(c)
    BY DEF IInv, Runs
  <2>2. pc[c] = "creating" =>
          \A r \in requests' : r.verb = "create" => r = asked[c] /\ reply'[c] = "none"
    BY <2>1 DEF Connecting
  <2>3. pc[c] = "create" => \A r \in requests' : r.verb = "delete"
    BY <2>1 DEF Connecting
  <2>. QED
    BY <1>1, <2>1, <2>2, <2>3 DEF Connecting, AllFinished, Unfinished, Creating
<1>10. ASSUME NEW d \in Disconnects PROVE Disconnecting(d)'
  <2>. SUFFICES ASSUME pc[d] # "idle" PROVE Disconnecting(d)'
    BY <1>1 DEF Disconnecting
  <2>1. Disconnecting(d) /\ conn[d] = anchor /\ anchor \in Connects
    BY OnAnchor
  <2>2. \A k \in Kinds : ~Says(family[anchor], "create", k)
    BY Knows DEF Says
  <2>3. pc[d] \in {"closure", "processes", "retire"} => ~Owned(anchor, work[d])'
    BY <1>1, <1>4, <2>1, <2>2, Knows DEF AtRoot
  <2>4. stopped[d] => Dead(anchor)'
    BY <1>1, <1>6, <2>1, Knows
  <2>5. ChildrenOf(anchor)' = ChildrenOf(anchor)
    BY <1>1 DEF ChildrenOf
  <2>. QED
    BY <1>1, <2>1, <2>3, <2>4, <2>5 DEF Disconnecting
<1>. QED
  BY <1>2, <1>7, <1>8, <1>9, <1>10 DEF IInv, Runs

\* What the invariant says of the objects and of what is on its way.
LEMMA Objected ==
  ASSUME IInv
  PROVE  /\ object \in [Kinds -> Objects \cup {None}]
         /\ faults \in 0 .. MaxFaults /\ faults \in Nat /\ MaxFaults \in Nat
         /\ reply \in [Attempts -> {"ok", "refused", "none"}]
         /\ requests \subseteq Requests
         /\ \A k \in Kinds : Aged(k) /\ (object[k] # None => object[k] \in Objects)
BY FaultsAssumption DEF IInv, TypeOK, World

\* Nothing ages while the number of faults does not shrink.
LEMMA StillAged ==
  ASSUME IInv, NEW k \in Kinds, faults' \in Nat, faults <= faults',
         object'[k] = object[k] \/ object'[k] = None
  PROVE  Aged(k)'
<1>. SUFFICES ASSUME object'[k] # None, object'[k] = object[k] PROVE Aged(k)'
  BY DEF Aged
<1>1. Aged(k) /\ object[k].version \in Nat /\ faults \in Nat
  BY Objected DEF Objects, Versions
<1>. QED
  BY <1>1 DEF Aged

\* Finalizers only remove.
LEMMA FinalizeStep ==
  ASSUME IInv, NEW k \in Kinds, Finalize(k)
  PROVE  IInv'
<1>1. /\ object' = [object EXCEPT ![k] = None] /\ faults' = faults
      /\ requests' = requests /\ reply' = reply
      /\ UNCHANGED <<replicas, pod, lock, record, pc, conn, work, seen, kids, asked, stopped, report>>
  BY DEF Finalize, Local, locals
<1>2. object' \in [Kinds -> Objects \cup {None}]
  BY <1>1, Objected
<1>3. \A e \in Kinds : object'[e] = object[e] \/ object'[e] = None
  BY <1>1, Objected
<1>4. \A e \in Kinds : Changed(e) /\ Aged(e)'
  BY <1>1, <1>3, Objected, StillAged DEF Changed
<1>. QED
  BY <1>1, <1>2, <1>4, Objected, ObjectStep

\* Somebody else creates nothing in kmx's name and always changes the version.
LEMMA InterfereStep ==
  ASSUME IInv, NEW k \in Kinds, Interfere(k)
  PROVE  IInv'
<1>1. /\ faults' = faults + 1 /\ faults < MaxFaults
      /\ requests' = requests /\ reply' = reply
      /\ UNCHANGED <<replicas, pod, lock, record, pc, conn, work, seen, kids, asked, stopped, report>>
  BY DEF Interfere, Local, locals
<1>2. faults' \in 0 .. MaxFaults /\ faults' \in Nat /\ faults <= faults'
  BY <1>1, Objected
<1>3. PICK o \in Objects \cup {None} :
        /\ object' = [object EXCEPT ![k] = o]
        /\ \/ o = None
           \/ o.uid = Foreign /\ o.version = 0 /\ o.terminating = FALSE
           \/ /\ object[k] # None /\ o.uid = object[k].uid
              /\ o.version = object[k].version + 1 /\ o.terminating = object[k].terminating
  <2>1. CASE object' = [object EXCEPT ![k] = [uid |-> Foreign, version |-> 0, edited |-> FALSE,
                                              bumped |-> FALSE, terminating |-> FALSE]]
    <3>. DEFINE o == [uid |-> Foreign, version |-> 0, edited |-> FALSE, bumped |-> FALSE,
                      terminating |-> FALSE]
    <3>1. o \in Objects /\ o.uid = Foreign /\ o.version = 0 /\ o.terminating = FALSE
      BY Objected DEF Objects, Versions
    <3>2. object' = [object EXCEPT ![k] = o]
      BY <2>1
    <3>. HIDE DEF o
    <3>. QED
      BY <3>1, <3>2
  <2>2. CASE object' = [object EXCEPT ![k] = None]
    BY <2>2
  <2>3. ASSUME object[k] # None, NEW edit \in BOOLEAN,
               object' = [object EXCEPT ![k].version = @ + 1, ![k].edited = @ \/ edit]
        PROVE  \E o \in Objects : /\ object' = [object EXCEPT ![k] = o]
                                  /\ object[k] # None /\ o.uid = object[k].uid
                                  /\ o.version = object[k].version + 1
                                  /\ o.terminating = object[k].terminating
    <3>. DEFINE o == [object[k] EXCEPT !.version = @ + 1, !.edited = @ \/ edit]
    <3>1. object[k] \in Objects /\ Aged(k)
      BY <2>3, Objected
    <3>2. object[k].version + 1 \in Versions
      <4>1. object[k].version \in Nat /\ object[k].version <= faults + 1
        BY <2>3, <3>1, Objected DEF Aged, Objects, Versions
      <4>. QED
        BY <1>1, <4>1, Objected DEF Versions
    <3>3. o \in Objects
      BY <3>1, <3>2 DEF Objects
    <3>4. object' = [object EXCEPT ![k] = o]
      BY <2>3, Objected
    <3>. QED
      BY <2>3, <3>1, <3>3, <3>4 DEF Objects
  <2>. QED
    BY <2>1, <2>2, <2>3 DEF Interfere
<1>4. object' \in [Kinds -> Objects \cup {None}]
  BY <1>3, Objected
<1>5. object'[k] = o /\ \A e \in Kinds : e # k => object'[e] = object[e]
  BY <1>3, Objected
<1>6. Changed(k)
  BY <1>3, <1>5, NotNone DEF Changed
<1>7. Aged(k)'
  <2>. SUFFICES ASSUME o # None PROVE Aged(k)'
    BY <1>5 DEF Aged
  <2>1. object[k] # None => Aged(k) /\ object[k].version \in Nat
    BY Objected DEF Objects, Versions
  <2>. QED
    BY <1>1, <1>3, <1>5, <2>1, Objected DEF Aged
<1>8. \A e \in Kinds : Changed(e) /\ Aged(e)'
  BY <1>2, <1>5, <1>6, <1>7, StillAged DEF Changed
<1>. QED
  BY <1>1, <1>2, <1>4, <1>8, Objected, ObjectStep

\* An answer reaches only the run that still waits for it.
LEMMA Answered ==
  ASSUME IInv, NEW r \in requests, NEW result \in {"ok", "refused"}, Answer(r, result),
         requests' = requests \ {r}
  PROVE  /\ reply' \in [Attempts -> {"ok", "refused", "none"}]
         /\ \A a \in Attempts : asked[a] = None => reply'[a] = reply[a]
         /\ \A c \in Connects : pc[c] = "creating" =>
              reply'[c] = reply[c] \/ \A q \in requests' : q.verb # "create"
<1>1. reply' \in [Attempts -> {"ok", "refused", "none"}]
  BY Objected DEF Answer
<1>2. \A a \in Attempts : reply'[a] = IF asked[a] = r THEN result ELSE reply[a]
  BY DEF Answer
<1>3. r # None
  BY Objected, NotNone
<1>4. ASSUME NEW c \in Connects, pc[c] = "creating", reply'[c] # reply[c], NEW q \in requests'
      PROVE  q.verb # "create"
  <2>1. asked[c] = r
    BY <1>2, <1>4 DEF Attempts
  <2>2. Connecting(c)
    BY DEF IInv, Runs
  <2>3. q.verb = "create" => q = asked[c]
    BY <1>4, <2>2 DEF Connecting
  <2>. QED
    BY <1>4, <2>1, <2>3
<1>. QED
  BY <1>1, <1>2, <1>3, <1>4

\* A lost request changes no object.
LEMMA LoseStep ==
  ASSUME IInv, NEW r \in requests, Lose(r)
  PROVE  IInv'
<1>1. /\ faults' = faults + 1 /\ faults < MaxFaults /\ object' = object
      /\ requests' = requests \ {r} /\ Answer(r, "refused")
      /\ UNCHANGED <<replicas, pod, lock, record, pc, conn, work, seen, kids, asked, stopped, report>>
  BY DEF Lose, cluster
<1>2. faults' \in 0 .. MaxFaults /\ faults' \in Nat /\ faults <= faults'
  BY <1>1, Objected
<1>3. \A e \in Kinds : Changed(e) /\ Aged(e)'
  BY <1>1, <1>2, StillAged DEF Changed
<1>. QED
  BY <1>1, <1>2, <1>3, Answered, Objected, ObjectStep

\* A CREATE makes the pending object; a DELETE takes one that was not yet stamped.
LEMMA DeliverStep ==
  ASSUME IInv, NEW r \in requests, Deliver(r)
  PROVE  IInv'
<1>1. /\ faults' = faults /\ requests' = requests \ {r}
      /\ CreatesObject(r) \/ DeletesObject(r)
      /\ UNCHANGED <<replicas, pod, lock, record, pc, conn, work, seen, kids, asked, stopped, report>>
  BY DEF Deliver
<1>2. PICK result \in {"ok", "refused"} : Answer(r, result)
  BY <1>1 DEF CreatesObject, DeletesObject
<1>3. faults' \in 0 .. MaxFaults /\ faults' \in Nat /\ faults <= faults'
  BY <1>1, Objected
<1>4. r.kind \in Kinds /\ r.uid \in Connects
  BY Objected DEF Requests
<1>5. object' \in [Kinds -> Objects \cup {None}] /\ \A e \in Kinds : Changed(e) /\ Aged(e)'
  <2>1. CASE object' = object
    BY <1>3, <2>1, Objected, StillAged DEF Changed
  <2>2. ASSUME r.verb = "create", object[r.kind] = None,
               object' = [object EXCEPT ![r.kind] =
                 [uid |-> r.uid, version |-> 0, edited |-> FALSE, bumped |-> FALSE,
                  terminating |-> FALSE]]
        PROVE  object' \in [Kinds -> Objects \cup {None}] /\ \A e \in Kinds : Changed(e) /\ Aged(e)'
    <3>. DEFINE o == [uid |-> r.uid, version |-> 0, edited |-> FALSE, bumped |-> FALSE,
                      terminating |-> FALSE]
    <3>1. o \in Objects /\ o.uid = r.uid /\ o.version = 0 /\ o.terminating = FALSE
      BY <1>4, Objected DEF Objects, Versions
    <3>2. /\ object' = [object EXCEPT ![r.kind] = o]
          /\ object'[r.kind] = o /\ \A e \in Kinds : e # r.kind => object'[e] = object[e]
      BY <1>4, <2>2, Objected
    <3>. HIDE DEF o
    <3>3. Changed(r.kind)
      BY <2>2, <3>1, <3>2 DEF Changed
    <3>4. Aged(r.kind)'
      BY <1>3, <3>1, <3>2, Objected DEF Aged
    <3>. QED
      BY <1>3, <1>4, <2>2, <3>1, <3>2, <3>3, <3>4, Objected, StillAged DEF Changed
  <2>3. ASSUME object' = [object EXCEPT ![r.kind] = None]
        PROVE  object' \in [Kinds -> Objects \cup {None}] /\ \A e \in Kinds : Changed(e) /\ Aged(e)'
    <3>1. \A e \in Kinds : object'[e] = object[e] \/ object'[e] = None
      BY <1>4, <2>3, Objected
    <3>. QED
      BY <1>3, <1>4, <2>3, <3>1, Objected, StillAged DEF Changed
  <2>4. ASSUME r.verb = "delete", object[r.kind] # None, object[r.kind].uid = r.uid,
               object[r.kind].version = r.version, NEW bump \in BOOLEAN,
               object' = [object EXCEPT ![r.kind].terminating = TRUE, ![r.kind].bumped = bump,
                                        ![r.kind].version = @ + 1]
        PROVE  object' \in [Kinds -> Objects \cup {None}] /\ \A e \in Kinds : Changed(e) /\ Aged(e)'
    <3>. DEFINE o == [object[r.kind] EXCEPT !.terminating = TRUE, !.bumped = bump, !.version = @ + 1]
    <3>1. object[r.kind] \in Objects /\ Aged(r.kind) /\ object[r.kind].version \in Nat
      BY <1>4, <2>4, Objected DEF Objects, Versions
    <3>2. ~object[r.kind].terminating
      <4>1. Late(r)
        BY <2>4 DEF IInv, World
      <4>. QED
        BY <2>4, <3>1, <4>1 DEF Late, Owned
    <3>3. object[r.kind].version <= faults
      BY <2>4, <3>1, <3>2, Objected DEF Aged
    <3>4. o \in Objects
      <4>1. object[r.kind].version + 1 \in Versions
        BY <3>1, <3>3, Objected DEF Versions
      <4>. QED
        BY <2>4, <3>1, <4>1 DEF Objects
    <3>5. /\ object' = [object EXCEPT ![r.kind] = o]
          /\ o # None /\ o.uid = object[r.kind].uid /\ o.version = object[r.kind].version + 1
          /\ o.terminating = TRUE
      <4>1. object' = [object EXCEPT ![r.kind] = o]
        BY <1>4, <2>4, Objected
      <4>2. o.uid = object[r.kind].uid /\ o.version = object[r.kind].version + 1 /\ o.terminating = TRUE
        BY <3>1 DEF Objects
      <4>. QED
        BY <3>4, <4>1, <4>2, NotNone
    <3>. HIDE DEF o
    <3>6. object'[r.kind] = o /\ \A e \in Kinds : e # r.kind => object'[e] = object[e]
      BY <1>4, <3>5, Objected
    <3>7. Changed(r.kind)
      BY <2>4, <3>5, <3>6 DEF Changed
    <3>8. Aged(r.kind)'
      BY <1>1, <3>1, <3>3, <3>5, <3>6, Objected DEF Aged
    <3>. QED
      BY <1>3, <1>4, <3>4, <3>5, <3>6, <3>7, <3>8, Objected, StillAged DEF Changed
  <2>5. CASE CreatesObject(r)
    BY <2>1, <2>2, <2>5 DEF CreatesObject
  <2>6. CASE DeletesObject(r)
    <3>1. {FALSE} \cup {r.kind \in Versioned} \subseteq BOOLEAN
      OBVIOUS
    <3>. QED
      BY <2>1, <2>3, <2>4, <2>6, <3>1, Zenon DEF DeletesObject
  <2>. QED
    BY <1>1, <2>5, <2>6
<1>. QED
  BY <1>1, <1>2, <1>3, <1>5, Answered, ObjectStep

-----------------------------------------------------------------------------
(* The invariant *)

\* Nothing is recorded, done or under way.
LEMMA Initially == Init => IInv
<1>. SUFFICES ASSUME Init PROVE IInv
  OBVIOUS
<1>1. TypeOK
  <2>1. NoFamily \in Families
    BY DEF NoFamily, Families
  <2>. QED
    BY <2>1, FaultsAssumption, NotNone
       DEF Init, TypeOK, Unknown, ConnectSteps, DisconnectSteps, Attempts
<1>2. World
  <2>1. \A c \in Connects : Chain(c) /\ ~Unfinished(c)
    BY DEF Init, Chain, Unfinished, NoFamily
  <2>2. \A c \in Connects : Accounted(c)
    BY KindsNamed DEF Init, Accounted, Gone, Owned
  <2>3. Reported
    BY DEF Init, Reported, Unknown
  <2>. QED
    BY <2>1, <2>2, <2>3 DEF Init, World, OneUnfinished, EffectsAreRecorded, Aged
<1>3. Runs
  BY NotNone DEF Init, Runs, Alone, Connecting, Disconnecting, Resting, Attempts
<1>. QED
  BY <1>1, <1>2, <1>3 DEF IInv

\* A stuttering step.
LEMMA Stuttering ==
  ASSUME IInv, UNCHANGED vars
  PROVE  IInv'
<1>1. /\ UNCHANGED <<object, Local>> /\ faults' = faults /\ replicas' = replicas /\ pod' = pod
  BY DEF vars, Local, locals, record
<1>2. \A c \in Connects : Gone(c) => Gone(c)'
  BY <1>1 DEF Gone, Owned
<1>3. \A c \in Connects : ChildrenOf(c)' = ChildrenOf(c)
  BY <1>1 DEF ChildrenOf
<1>. QED
  BY <1>1, <1>2, <1>3, WorkloadStep, FaultsAssumption DEF IInv, TypeOK

\* Every step.
LEMMA Inductively == IInv /\ [Next]_vars => IInv'
<1>. SUFFICES ASSUME IInv, [Next]_vars PROVE IInv'
  OBVIOUS
<1>1. CASE \E c \in Connects : Connect(c)
  BY <1>1, ConnectStep
<1>2. CASE \E d \in Disconnects : Disconnect(d)
  BY <1>2, DisconnectStep
<1>3. CASE \E a \in Attempts : Abort(a)
  BY <1>3, AbortStep
<1>4. CASE \E r \in requests : Deliver(r) \/ Lose(r)
  BY <1>4, DeliverStep, LoseStep
<1>5. CASE Controllers
  BY <1>5, FinalizeStep, ControllersWork DEF Controllers
<1>6. CASE \E p \in Pods : ForceRemove(p)
  BY <1>6, ControllersWork
<1>7. CASE \E k \in Kinds : Interfere(k)
  BY <1>7, InterfereStep
<1>8. CASE UNCHANGED vars
  BY <1>8, Stuttering
<1>. QED
  BY <1>1, <1>2, <1>3, <1>4, <1>5, <1>6, <1>7, <1>8 DEF Next

\* The inductive invariant: every connection's record is a chain that ends completed
\* or names all the connection's effects, and only the run with the lock relies on it.
THEOREM Inductive == Spec => []IInv
BY Initially, Inductively, PTL DEF Spec

\* Every variable keeps its type, whatever runs, dies, arrives late or interferes.
THEOREM TypeCorrect == Spec => []TypeOK
<1>1. IInv => TypeOK
  BY DEF IInv
<1>. QED
  BY <1>1, Inductive, PTL

\* No effect of kmx on the cluster outruns the record: every object it created, and
\* every CREATE that may still create one, is named by the anchored, uncompleted chain
\* of checkpoints (orka_model_state.go), which the next run opens.
THEOREM EffectsRecorded == Spec => []EffectsAreRecorded
<1>1. IInv => EffectsAreRecorded
  BY DEF IInv, World
<1>. QED
  BY <1>1, Inductive, PTL

\* What a disconnect says of a stopped gateway (gateway_stopped of
\* orka_model_disconnect.go) is true and stays true: no Pod, no process, no object
\* and no CREATE of that connection is left that could start one again.
THEOREM StoppedForGood == Spec => []StoppedMeansStopped
<1>1. IInv => StoppedMeansStopped
  BY DEF IInv, World, Reported, Dead, Gone, Owned, StoppedMeansStopped
<1>. QED
  BY <1>1, Inductive, PTL

-----------------------------------------------------------------------------
(* What a DELETE may take *)

\* A run acts on the cluster through requests only.
LEMMA RunsLeaveTheCluster ==
  ASSUME \/ \E c \in Connects : Connect(c)
         \/ \E d \in Disconnects : Disconnect(d)
         \/ \E a \in Attempts : Abort(a)
  PROVE  UNCHANGED cluster
<1>1. ASSUME NEW c \in Connects, Connect(c) PROVE UNCHANGED cluster
  BY <1>1 DEF Connect, RefuseConnect, OpenFresh, OpenRetained, CheckRetained, CheckAbsent, MakeFamily,
     PublishAnchor, PublishZero, RecordCreate, SendCreate, RecordCreated, CreateRefused,
     FindServing, ServingFailed, RecheckServing, RecordReady, Fail
<1>2. ASSUME NEW d \in Disconnects, Disconnect(d) PROVE UNCHANGED cluster
  BY <1>2 DEF Disconnect, RefuseDisconnect, ResumeFinish, BeginDisconnect, SurveyRoots, PickRoot,
     RecordDelete, RereadRoot, SendDelete, DeleteAnswered, AwaitDeleted, InspectClosure,
     InspectProcesses, RetireRoot, CompleteFamily, RemoveAnchor
<1>3. ASSUME NEW a \in Attempts, Abort(a) PROVE UNCHANGED cluster
  BY <1>3 DEF Abort
<1>. QED
  BY <1>1, <1>2, <1>3

Authorized(k) ==
  LET o == object[k]
      o2 == object'[k]
  IN (/\ faults' = faults
      /\ o # None /\ ~o.terminating
      /\ o2 = None \/ o2.terminating)
     => /\ o.uid # Foreign /\ ~o.edited
        /\ anchor = o.uid
        /\ k \in family[o.uid].resources
        /\ IsPending(o.uid, "delete", k)

\* Only the delivery of a DELETE takes an object without a fault.
LEMMA AuthorizedStep ==
  ASSUME IInv, [Next]_vars, NEW k \in Kinds
  PROVE  Authorized(k)
<1>. SUFFICES ASSUME faults' = faults, object[k] # None, ~object[k].terminating,
                     object'[k] = None \/ object'[k].terminating
              PROVE  /\ object[k].uid # Foreign /\ ~object[k].edited
                     /\ anchor = object[k].uid
                     /\ k \in family[object[k].uid].resources
                     /\ IsPending(object[k].uid, "delete", k)
  BY DEF Authorized
<1>1. object' # object
  OBVIOUS
<1>2. ~UNCHANGED cluster /\ ~UNCHANGED vars
  BY <1>1 DEF cluster, vars
<1>3. faults \in Nat
  BY Objected
<1>4. ~\E r \in requests : Lose(r)
  BY <1>2 DEF Lose
<1>5. ~\E e \in Kinds : Interfere(e)
  <2>. SUFFICES ASSUME NEW e \in Kinds, Interfere(e) PROVE FALSE
    OBVIOUS
  <2>1. faults' = faults + 1
    BY DEF Interfere
  <2>. QED
    BY <1>3, <2>1
<1>6. ~Controllers
  <2>1. ~\E e \in Kinds : Finalize(e)
    BY Objected DEF Finalize
  <2>2. ~(Replicate \/ CollectReplicas \/ RemoveReplicas)
    BY <1>1 DEF Replicate, CollectReplicas, RemoveReplicas
  <2>3. ~\E p \in Pods : Spawn(p) \/ Run(p) \/ Reap(p) \/ Die(p)
    BY <1>1 DEF Spawn, Run, Reap, Die
  <2>. QED
    BY <2>1, <2>2, <2>3 DEF Controllers
<1>7. ~\E p \in Pods : ForceRemove(p)
  BY <1>1 DEF ForceRemove
<1>8. PICK r \in requests : Deliver(r)
  BY <1>2, <1>4, <1>5, <1>6, <1>7, RunsLeaveTheCluster DEF Next
<1>9. r.kind \in Kinds /\ r.uid \in Connects
  BY Objected DEF Requests
<1>10. /\ r.verb = "delete" /\ r.kind = k
       /\ object[k].uid = r.uid /\ object[k].version = r.version
  <2>1. ~CreatesObject(r)
    BY <1>1, <1>9, Objected DEF CreatesObject
  <2>2. DeletesObject(r)
    BY <1>8, <2>1 DEF Deliver
  <2>. QED
    BY <1>1, <1>9, <2>2, Objected DEF DeletesObject
<1>11. Late(r)
  BY <1>10 DEF IInv, World
<1>12. /\ ~object[k].edited /\ k \in family[r.uid].resources /\ IsPending(r.uid, "delete", k)
  BY <1>10, <1>11 DEF Late, Owned
<1>13. object[k].uid # Foreign
  BY <1>9, <1>10, NotNone
<1>14. anchor = object[k].uid
  BY <1>13 DEF IInv, World, EffectsAreRecorded
<1>. QED
  BY <1>10, <1>12, <1>13, <1>14

\* modelDeleteOwned sends one DELETE with the uid and the resourceVersion of its last
\* read.  Delayed for any time and past the end of the run that sent it, it removes
\* only what the record still holds, unedited, and still means to delete.
THEOREM DeletionAuthorized == Spec => DeletionIsAuthorized
<1>1. IInv /\ [Next]_vars => [\A k \in Kinds : Authorized(k)]_vars
  BY AuthorizedStep
<1>2. DeletionIsAuthorized <=> [][\A k \in Kinds : Authorized(k)]_vars
  BY DEF DeletionIsAuthorized, Authorized
<1>. QED
  BY <1>1, <1>2, Inductive, PTL DEF Spec

-----------------------------------------------------------------------------
(* The record is a lease *)

\* What is started belongs to an unfinished connection.
LEMMA NothingStarted ==
  ASSUME IInv, NEW c \in Connects, ~Unfinished(c)
  PROVE  Started(c) = {}
<1>1. family[c].resources = {} /\ family[c].pending = None
  BY DEF IInv, World, Chain, Unfinished
<1>2. \A k \in Kinds : ~Owned(c, k)
  BY RecordSuits DEF Open, Unfinished
<1>3. \A r \in requests : ~(r.verb = "create" /\ r.by = c)
  BY RecordSuits DEF Open, Unfinished
<1>4. Gone(c)
  BY <1>1, RecordSuits DEF Says
<1>. QED
  BY <1>2, <1>3, <1>4 DEF Started, Gone, Owned

\* The holder is the one unfinished connection.
LEMMA HolderIs ==
  ASSUME IInv
  PROVE  /\ \A c \in Connects : Unfinished(c) => Holder = c
         /\ (\A c \in Connects : ~Unfinished(c)) => Holder = None
         /\ Holder \in Connects => Unfinished(Holder)
         /\ Holder \in Connects \cup {None}
<1>1. ASSUME NEW c \in Connects, Unfinished(c) PROVE Holder = c
  <2>1. \A e \in Connects : Unfinished(e) => e = c
    BY <1>1 DEF IInv, World, OneUnfinished
  <2>. QED
    BY <1>1, <2>1 DEF Holder
<1>2. (\A c \in Connects : ~Unfinished(c)) => Holder = None
  BY DEF Holder
<1>. QED
  BY <1>1, <1>2, NotNone

\* And so it is after a step.
LEMMA HolderIsNow == IInv' =>
  /\ \A c \in Connects : Unfinished(c)' => Holder' = c
  /\ (\A c \in Connects : ~Unfinished(c)') => Holder' = None
<1>. SUFFICES ASSUME IInv'
              PROVE  /\ \A c \in Connects : Unfinished(c)' => Holder' = c
                     /\ (\A c \in Connects : ~Unfinished(c)') => Holder' = None
  OBVIOUS
<1>1. ASSUME NEW c \in Connects, Unfinished(c)' PROVE Holder' = c
  <2>1. \A e \in Connects : Unfinished(e)' => e = c
    BY <1>1 DEF IInv, World, OneUnfinished
  <2>. QED
    BY <1>1, <2>1 DEF Holder
<1>2. (\A c \in Connects : ~Unfinished(c)') => Holder' = None
  BY DEF Holder
<1>. QED
  BY <1>1, <1>2

\* The lease changes hands only when a family is made, and when one is completed.
LEMMA LeaseMoves ==
  ASSUME IInv, [Next]_vars
  PROVE  \/ \A c \in Connects : Unfinished(c)' = Unfinished(c)
         \/ \E c \in Connects : MakeFamily(c)
         \/ \E d \in Disconnects : CompleteFamily(d)
<1>. SUFFICES ASSUME ~\E c \in Connects : MakeFamily(c),
                     ~\E d \in Disconnects : CompleteFamily(d)
              PROVE  \A c \in Connects : Unfinished(c)' = Unfinished(c)
  OBVIOUS
<1>1. ASSUME family' = family PROVE \A c \in Connects : Unfinished(c)' = Unfinished(c)
  BY <1>1 DEF Unfinished
<1>2. ASSUME NEW e \in Connects, NEW f, family' = [family EXCEPT ![e] = f], Open(f) = Open(family[e])
      PROVE  \A c \in Connects : Unfinished(c)' = Unfinished(c)
  BY <1>2 DEF Unfinished, Open, IInv, TypeOK
<1>3. ASSUME NEW c \in Connects, Connect(c) PROVE \A e \in Connects : Unfinished(e)' = Unfinished(e)
  <2>1. ASSUME \/ RefuseConnect(c) \/ OpenFresh(c) \/ OpenRetained(c) \/ CheckRetained(c)
               \/ CheckAbsent(c) \/ PublishAnchor(c) \/ SendCreate(c) \/ CreateRefused(c)
               \/ FindServing(c) \/ ServingFailed(c) \/ RecheckServing(c)
        PROVE  family' = family
    BY <2>1 DEF RefuseConnect, OpenFresh, OpenRetained, CheckRetained, CheckAbsent, PublishAnchor,
       SendCreate, CreateRefused, FindServing, ServingFailed, RecheckServing, Fail, record
  <2>2. Connecting(c) /\ family \in [Connects -> Families]
    BY DEF IInv, Runs, TypeOK
  <2>3. CASE PublishZero(c)
    <3>1. conn[c] = c /\ family[c].stage = "made" /\ ~family[c].complete
      BY <2>2, <2>3 DEF PublishZero, Connecting, IInv, World, Chain
    <3>2. Open([NoFamily EXCEPT !.stage = "saved"]) = Open(family[c])
      BY <3>1 DEF Open, NoFamily
    <3>. QED
      BY <1>2, <2>3, <3>1, <3>2 DEF PublishZero, Checkpoint
  <2>4. CASE RecordCreate(c)
    <3>. DEFINE f == [family[c] EXCEPT
                        !.pending = [verb |-> "create", kind |-> work[c], by |-> c, children |-> {}]]
    <3>1. conn[c] = c
      BY <2>2, <2>4 DEF RecordCreate, Connecting
    <3>2. Open(f) = Open(family[c])
      BY <2>2 DEF Open, Families
    <3>. QED
      BY <1>2, <2>4, <3>1, <3>2 DEF RecordCreate, Checkpoint
  <2>5. CASE RecordCreated(c)
    <3>. DEFINE f == [family[c] EXCEPT !.pending = None, !.resources = @ \cup {work[c]}]
    <3>1. conn[c] = c
      BY <2>2, <2>5 DEF RecordCreated, Connecting
    <3>2. Open(f) = Open(family[c])
      BY <2>2 DEF Open, Families
    <3>. QED
      BY <1>2, <2>5, <3>1, <3>2 DEF RecordCreated, Checkpoint
  <2>6. CASE RecordReady(c)
    <3>. DEFINE f == [family[conn[c]] EXCEPT !.children = @ \cup seen[c]]
    <3>1. conn[c] \in Connects
      BY <2>2, <2>6, NotNone DEF RecordReady, Connecting, IInv, TypeOK
    <3>2. Open(f) = Open(family[conn[c]])
      BY <2>2, <3>1 DEF Open, Families
    <3>. QED
      BY <1>2, <2>6, <3>1, <3>2 DEF RecordReady, Checkpoint
  <2>. QED
    BY <1>1, <1>3, <2>1, <2>3, <2>4, <2>5, <2>6 DEF Connect
<1>4. ASSUME NEW d \in Disconnects, Disconnect(d)
      PROVE  \A e \in Connects : Unfinished(e)' = Unfinished(e)
  <2>1. ASSUME \/ RefuseDisconnect(d) \/ ResumeFinish(d) \/ BeginDisconnect(d) \/ SurveyRoots(d)
               \/ PickRoot(d) \/ RereadRoot(d) \/ SendDelete(d) \/ DeleteAnswered(d)
               \/ AwaitDeleted(d) \/ InspectClosure(d) \/ InspectProcesses(d) \/ RemoveAnchor(d)
        PROVE  family' = family
    BY <2>1 DEF RefuseDisconnect, ResumeFinish, BeginDisconnect, SurveyRoots, PickRoot, RereadRoot,
       SendDelete, DeleteAnswered, AwaitDeleted, InspectClosure, InspectProcesses, RemoveAnchor,
       record
  <2>2. pc[d] # "idle" => conn[d] \in Connects /\ family[conn[d]] \in Families
    BY OnAnchor
  <2>3. CASE RecordDelete(d)
    <3>. DEFINE f == [family[conn[d]] EXCEPT
                        !.pending = [verb |-> "delete", kind |-> work[d], by |-> d,
                                     children |-> kids[d]]]
    <3>1. conn[d] \in Connects /\ family[conn[d]] \in Families
      BY <2>2, <2>3 DEF RecordDelete
    <3>2. Open(f) = Open(family[conn[d]])
      BY <3>1 DEF Open, Families
    <3>. QED
      BY <1>2, <2>3, <3>1, <3>2 DEF RecordDelete, Checkpoint
  <2>4. CASE RetireRoot(d)
    <3>. DEFINE f == [family[conn[d]] EXCEPT
                        !.resources = @ \ {work[d]},
                        !.children = IF work[d] = "Deployment" THEN {} ELSE @,
                        !.pending = None]
    <3>1. conn[d] \in Connects /\ family[conn[d]] \in Families
      BY <2>2, <2>4 DEF RetireRoot
    <3>2. Open(f) = Open(family[conn[d]])
      BY <3>1 DEF Open, Families
    <3>. QED
      BY <1>2, <2>4, <3>1, <3>2 DEF RetireRoot, Checkpoint
  <2>. QED
    BY <1>1, <1>4, <2>1, <2>3, <2>4 DEF Disconnect
<1>5. ASSUME NEW a \in Attempts, Abort(a) PROVE family' = family
  BY <1>5 DEF Abort, record
<1>6. ASSUME NEW r \in requests, Deliver(r) \/ Lose(r) PROVE family' = family
  BY <1>6 DEF Deliver, Lose, record
<1>7. Controllers => family' = family
  BY DEF Controllers, Finalize, Replicate, CollectReplicas, RemoveReplicas, Spawn, Run, Reap, Die,
     Local, record
<1>8. ASSUME NEW p \in Pods, ForceRemove(p) PROVE family' = family
  BY <1>8 DEF ForceRemove, Local, record
<1>9. ASSUME NEW k \in Kinds, Interfere(k) PROVE family' = family
  BY <1>9 DEF Interfere, Local, record
<1>10. UNCHANGED vars => family' = family
  BY DEF vars
<1>. QED
  BY <1>1, <1>3, <1>4, <1>5, <1>6, <1>7, <1>8, <1>9, <1>10 DEF Next

NoTraces == \A c \in Connects : ~Unfinished(c) => Started(c) = {}

\* And so it is after a step.
LEMMA NothingStartedNow == IInv' => NoTraces'
<1>1. IInv => NoTraces
  BY NothingStarted DEF NoTraces
<1>. QED
  BY <1>1, PTL

\* Every step is one of the lease, or a stutter.
LEMMA LeaseStep ==
  ASSUME IInv, IInv', [Next]_vars
  PROVE  [Lease!Next]_<<Holder, [c \in Connects |-> Started(c)]>>
<1>. DEFINE before == [c \in Connects |-> Started(c)]
            after == [c \in Connects |-> Started(c)']
<1>0. before' = after
  OBVIOUS
<1>1. /\ \A c \in Connects : ~Unfinished(c) => before[c] = {}
      /\ \A c \in Connects : ~Unfinished(c)' => after[c] = {}
      /\ \A c \in Connects : after[c] \in SUBSET Traces
      /\ before = [c \in Connects |-> before[c]] /\ after = [c \in Connects |-> after[c]]
  <2>1. \A c \in Connects : Started(c)' \subseteq Traces
    BY DEF Started, Traces
  <2>. QED
    BY <2>1, NothingStarted, NothingStartedNow DEF NoTraces
<1>2. ASSUME cluster' = cluster, requests' = requests PROVE after = before
  BY <1>2 DEF Started, cluster
<1>. HIDE DEF before, after
<1>3. CASE \A c \in Connects : Unfinished(c)' = Unfinished(c)
  <2>1. Holder' = Holder
    BY <1>3, HolderIs, HolderIsNow
  <2>2. CASE Holder = None
    <3>1. \A c \in Connects : ~Unfinished(c)
      BY <2>2, HolderIs, NotNone
    <3>2. after = before
      BY <1>1, <1>3, <3>1
    <3>. QED
      BY <1>0, <2>1, <3>2 DEF before, after
  <2>3. CASE Holder # None
    <3>1. Holder \in Connects /\ \A c \in Connects : Unfinished(c) => c = Holder
      BY <2>3, HolderIs
    <3>2. after = [before EXCEPT ![Holder] = after[Holder]]
      BY <1>1, <1>3, <3>1
    <3>3. \E t \in SUBSET Traces : after = [before EXCEPT ![Holder] = t]
      BY <1>1, <3>1, <3>2
    <3>. QED
      BY <1>0, <2>1, <2>3, <3>3 DEF Lease!Next, Lease!Work, before, after
  <2>. QED
    BY <2>2, <2>3
<1>4. ASSUME NEW c \in Connects, MakeFamily(c) PROVE Lease!Next
  <2>1. /\ pc[c] = "family" /\ Connecting(c) /\ cluster' = cluster /\ requests' = requests
    BY <1>4 DEF MakeFamily, IInv, Runs
  <2>2. conn[c] = c /\ AllFinished
    BY <2>1 DEF Connecting
  <2>3. Holder = None
    BY <2>2, HolderIs DEF AllFinished, Unfinished
  <2>4. Unfinished(c)'
    BY <1>4, <2>2 DEF MakeFamily, Checkpoint, Unfinished, NoFamily, IInv, TypeOK
  <2>5. Holder' = c
    BY <2>4, HolderIsNow
  <2>. QED
    BY <1>0, <1>2, <2>1, <2>3, <2>5 DEF Lease!Next, Lease!Claim, before, after
<1>5. ASSUME NEW d \in Disconnects, CompleteFamily(d),
             ~\A c \in Connects : Unfinished(c)' = Unfinished(c)
      PROVE  Lease!Next
  <2>1. /\ pc[d] = "pick" /\ conn[d] = anchor /\ anchor \in Connects
        /\ cluster' = cluster /\ requests' = requests
        /\ family[anchor].stage = "saved" /\ family[anchor].complete = FALSE
    BY <1>5, OnAnchor, Knows DEF CompleteFamily
  <2>2. Unfinished(anchor)
    BY <2>1 DEF Unfinished
  <2>3. family' # family
    BY <1>5 DEF Unfinished
  <2>4. family' = [family EXCEPT ![anchor] = [family[anchor] EXCEPT !.complete = TRUE]]
    BY <1>5, <2>1, <2>3 DEF CompleteFamily, Checkpoint, record
  <2>5. \A c \in Connects : ~Unfinished(c)'
    <3>1. \A c \in Connects : Unfinished(c) => c = anchor
      BY <2>1, <2>2 DEF IInv, World, OneUnfinished
    <3>2. family \in [Connects -> Families]
      BY DEF IInv, TypeOK
    <3>3. family'[anchor].complete = TRUE /\ \A c \in Connects : c # anchor => family'[c] = family[c]
      BY <2>1, <2>4, <3>2 DEF Families
    <3>. QED
      BY <2>1, <3>1, <3>3 DEF Unfinished
  <2>6. Holder = anchor /\ Holder' = None /\ Holder # None
    BY <2>1, <2>2, <2>5, HolderIs, HolderIsNow, NotNone
  <2>7. after = before /\ before[anchor] = {}
    BY <1>1, <1>2, <2>1, <2>5
  <2>. QED
    BY <1>0, <2>6, <2>7 DEF Lease!Next, Lease!Release, before, after
<1>. QED
  BY <1>3, <1>4, <1>5, LeaseMoves DEF before

\* The fixed gateway names are leased: a family is made only when every earlier one is
\* completed, and completed only when nothing of its connection is left in the cluster
\* or on its way there (checkFinishedModelFamilies and finish of orka_model_state.go).
THEOREM LeaseKept == Spec => IsALease
<1>1. Init => Lease!Init
  <2>1. ASSUME Init PROVE Lease!Init
    <3>1. IInv /\ \A c \in Connects : ~Unfinished(c)
      BY <2>1, Initially DEF Init, NoFamily, Unfinished
    <3>. QED
      BY <3>1, HolderIs, NothingStarted DEF Lease!Init
  <2>. QED
    BY <2>1
<1>2. IInv /\ IInv' /\ [Next]_vars => [Lease!Next]_(Lease!leaseVars)
  BY LeaseStep DEF Lease!leaseVars
<1>. QED
  BY <1>1, <1>2, Inductive, PTL DEF Spec, IsALease, Lease!Spec
=============================================================================
