---------------------------- MODULE ModelConnection ----------------------------
(***************************************************************************)
(* The Copilot gateway connection of Orka (internal/kmx/app/orka_model*.go). *)
(*                                                                         *)
(* kmx cluster orka model connect creates the objects of a gateway one by   *)
(* one; disconnect deletes them one by one and proves that the gateway's    *)
(* process stopped.  Both work under one lock on a private record: a chain   *)
(* of checkpoints, each published before the effect it describes.  A run     *)
(* may die, time out or lose an answer anywhere, and a request it sent may   *)
(* reach the API server long after it is gone; the record alone decides     *)
(* what the next run may do.                                               *)
(*                                                                         *)
(* The chain is folded to its last checkpoint: the code reads all of them    *)
(* and keeps the last.  Checkpoints that fail before or after they become    *)
(* visible are a run that ends (Abort) before or after the step.  Reads that *)
(* fail, a changed target and a cancelled context end a run the same way.    *)
(***************************************************************************)
EXTENDS Naturals, Sequences, FiniteSets

CONSTANTS
  Connects,      \* connect runs; a run's operation also names the connection it anchors
  Disconnects,   \* disconnect operations; each may be run any number of times
  Pods,          \* identities for the gateway's Pods
  CreateOrder,   \* the kinds in the order connect creates them
  DeleteOrder,   \* the kinds in the order disconnect deletes them
  Foreign,       \* the creator of an object that is not kmx's
  None,
  MaxFaults      \* bound on deaths, lost answers and interference by others

Attempts == Connects \cup Disconnects

Kinds == {CreateOrder[i] : i \in DOMAIN CreateOrder}

ASSUME OrdersAssumption ==
  /\ CreateOrder \in Seq(Kinds) /\ DeleteOrder \in Seq(Kinds)
  /\ Kinds = {DeleteOrder[i] : i \in DOMAIN DeleteOrder}
  /\ "Deployment" \in Kinds /\ None \notin Kinds

ASSUME AttemptsAssumption ==
  /\ Connects \cap Disconnects = {}
  /\ {None, Foreign} \cap (Attempts \cup Pods) = {}
  /\ None # Foreign
  /\ Connects \cap Pods = {}

ASSUME FaultsAssumption == MaxFaults \in Nat

\* Kinds the API server keeps a generation for.
Versioned == Kinds \cap {"Deployment", "Provider"}

VARIABLES
  object,     \* object[k]: the live object under the fixed name of kind k, or None
  replicas,   \* the gateway's ReplicaSet, or None
  pod,        \* pod[p]: its owner, whether the API still lists it, whether it runs
  requests,   \* CREATEs and DELETEs on their way to the API server
  lock,       \* the run that holds the record's lock, or None
  anchor,     \* the connection connection.json names, or None
  family,     \* family[c]: the directory of connection c and its last checkpoint
  pc,         \* pc[a]: the step run a takes next
  conn,       \* conn[a]: the connection run a works on
  work,       \* work[a]: the kind run a works on
  seen,       \* seen[a]: the children run a listed
  kids,       \* kids[d]: the children disconnect d has to see gone
  asked,      \* asked[a]: the request run a waits for
  reply,      \* reply[a]: the answer that arrived for it
  stopped,    \* stopped[d]: whether d knows the gateway to be stopped
  report,     \* what the last run claimed of which connection; unknown claims nothing
  faults      \* how many of the MaxFaults happened

cluster == <<object, replicas, pod>>
record == <<anchor, family>>
locals == <<conn, work, seen, kids, asked, reply, stopped>>
vars == <<object, replicas, pod, requests, lock, anchor, family, pc, conn, work,
          seen, kids, asked, reply, stopped, report, faults>>

\* A set of children names Pods by themselves and a ReplicaSet by its connection.
Children == Connects \cup Pods

Unknown == [of |-> None, state |-> "unknown"]

NoFamily ==
  [stage |-> "none", pending |-> None, resources |-> {}, children |-> {}, complete |-> FALSE]

Pending ==
  [verb : {"create", "delete"}, kind : Kinds, by : Attempts, children : SUBSET Children]

Families ==
  [stage : {"none", "made", "saved"}, pending : Pending \cup {None}, resources : SUBSET Kinds,
   children : SUBSET Children, complete : BOOLEAN]

Versions == 0 .. MaxFaults + 1

Objects ==
  [uid : Connects \cup {Foreign}, version : Versions, edited : BOOLEAN, bumped : BOOLEAN,
   terminating : BOOLEAN]

Requests ==
  [verb : {"create", "delete"}, by : Attempts, kind : Kinds, uid : Connects, version : Versions]

ReplicaSets == [owner : Connects, terminating : BOOLEAN]

ASSUME NoneAssumption == None \notin Pending \cup Objects \cup Requests \cup ReplicaSets

ConnectSteps ==
  {"idle", "absent", "family", "anchor", "zero", "intent", "create", "creating", "reuse",
   "serving", "recheck", "ready", "done"}

DisconnectSteps ==
  {"idle", "survey", "pick", "intent", "reread", "send", "deleting", "wait", "closure",
   "processes", "retire", "complete", "finish"}

TypeOK ==
  /\ object \in [Kinds -> Objects \cup {None}]
  /\ replicas \in ReplicaSets \cup {None}
  /\ pod \in [Pods -> [owner : Connects \cup {None}, api : BOOLEAN, running : BOOLEAN]]
  /\ requests \subseteq Requests
  /\ lock \in Attempts \cup {None}
  /\ anchor \in Connects \cup {None}
  /\ family \in [Connects -> Families]
  /\ \A c \in Connects : pc[c] \in ConnectSteps
  /\ \A d \in Disconnects : pc[d] \in DisconnectSteps
  /\ DOMAIN pc = Attempts
  /\ conn \in [Attempts -> Connects \cup {None}]
  /\ work \in [Attempts -> Kinds \cup {None}]
  /\ seen \in [Attempts -> SUBSET Children]
  /\ kids \in [Disconnects -> SUBSET Children]
  /\ asked \in [Attempts -> Requests \cup {None}]
  /\ reply \in [Attempts -> {"ok", "refused", "none"}]
  /\ stopped \in [Disconnects -> BOOLEAN]
  /\ report \in [of : Connects \cup {None}, state : {"unknown", "ready", "stopped"}]
  /\ faults \in 0 .. MaxFaults

Init ==
  /\ object = [k \in Kinds |-> None]
  /\ replicas = None
  /\ pod = [p \in Pods |-> [owner |-> None, api |-> FALSE, running |-> FALSE]]
  /\ requests = {}
  /\ lock = None
  /\ anchor = None
  /\ family = [c \in Connects |-> NoFamily]
  /\ pc = [a \in Attempts |-> "idle"]
  /\ conn = [a \in Attempts |-> None]
  /\ work = [a \in Attempts |-> None]
  /\ seen = [a \in Attempts |-> {}]
  /\ kids = [d \in Disconnects |-> {}]
  /\ asked = [a \in Attempts |-> None]
  /\ reply = [a \in Attempts |-> "none"]
  /\ stopped = [d \in Disconnects |-> FALSE]
  /\ report = Unknown
  /\ faults = 0

-------------------------------------------------------------------------------
(***************************************************************************)
(* Observations.                                                           *)
(***************************************************************************)

\* readModelObject of a resource of connection c: there is an object, and it is the
\* acknowledged one with the execution and generation it was acknowledged with.
Intact(c, k) ==
  /\ object[k] # None
  /\ object[k].uid = c
  /\ ~object[k].edited
  /\ ~object[k].bumped

\* readModelObject returns an error: the name is taken, or the object changed.
Unreadable(c, k) == object[k] # None /\ ~Intact(c, k)

Serving(c, k) == Intact(c, k) /\ ~object[k].terminating

\* modelChildren: the controller-owner closure of the gateway of connection c.
ChildrenOf(c) ==
  {p \in Pods : pod[p].owner = c /\ pod[p].api}
    \cup (IF replicas # None /\ replicas.owner = c THEN {c} ELSE {})

Closure(c, k) == IF k = "Deployment" THEN ChildrenOf(c) ELSE {}

\* modelChildrenGone: none of the known children is listed any more.
ChildrenGone(set) == set \cap UNION {ChildrenOf(c) : c \in Connects} = {}

\* modelGatewayStopped: no node runs a container of a Pod under the gateway's name.
NoProcess == \A p \in Pods : ~pod[p].running

\* Mutant: an earlier family need not be completed.
AnyFamily == TRUE

\* checkFinishedModelFamilies: every earlier family ended in a completed checkpoint.
AllFinished ==
  \A c \in Connects : family[c].stage # "none" => family[c].stage = "saved" /\ family[c].complete

First == CreateOrder[1]

\* The kind connect creates after k, None after the last one.
After(k) ==
  LET i == CHOOSE i \in DOMAIN CreateOrder : CreateOrder[i] = k
  IN IF i = Len(CreateOrder) THEN None ELSE CreateOrder[i + 1]

\* The retained kind disconnect deletes next.
NextToDelete(left) ==
  LET i == CHOOSE i \in DOMAIN DeleteOrder :
             /\ DeleteOrder[i] \in left
             /\ \A j \in 1 .. i - 1 : DeleteOrder[j] \notin left
  IN DeleteOrder[i]

-------------------------------------------------------------------------------
(***************************************************************************)
(* How a run takes the lock, moves on and ends.                             *)
(***************************************************************************)

Go(a, step) == pc' = [pc EXCEPT ![a] = step]

\* The run ends: the lock is released with the process and its memory is gone.
End(a, result) ==
  /\ Go(a, IF a \in Connects THEN "done" ELSE "idle")
  /\ lock' = None
  /\ work' = [work EXCEPT ![a] = None]
  /\ seen' = [seen EXCEPT ![a] = {}]
  /\ kids' = [d \in Disconnects |-> IF d = a THEN {} ELSE kids[d]]
  /\ asked' = [asked EXCEPT ![a] = None]
  /\ reply' = [reply EXCEPT ![a] = "none"]
  /\ stopped' = [d \in Disconnects |-> IF d = a THEN FALSE ELSE stopped[d]]
  /\ conn' = [conn EXCEPT ![a] = None]
  /\ report' = IF result = "unknown" THEN Unknown ELSE [of |-> conn[a], state |-> result]

\* What a failed run reports: a disconnect that saw the gateway stop says so.
Failure(a) == IF a \in Disconnects /\ stopped[a] THEN "stopped" ELSE "unknown"

Fail(a) == End(a, Failure(a)) /\ UNCHANGED <<cluster, requests, record, faults>>

\* A death, a cancelled or expired context, a failed read or a lost answer.
Abort(a) ==
  /\ pc[a] \notin {"idle", "done"}
  /\ faults < MaxFaults
  /\ faults' = faults + 1
  /\ End(a, Failure(a))
  /\ UNCHANGED <<cluster, requests, record>>

\* The next checkpoint of the family run a works on.
Checkpoint(a, state) ==
  /\ family' = [family EXCEPT ![conn[a]] = state]
  /\ UNCHANGED anchor

Send(a, request) ==
  /\ requests' = requests \cup {request}
  /\ asked' = [asked EXCEPT ![a] = request]

-------------------------------------------------------------------------------
(***************************************************************************)
(* ConnectOrkaModel.                                                       *)
(***************************************************************************)

\* The lock is taken, another operation is unfinished, or this one asks for a
\* connection other than the retained one.
RefuseConnect(c) ==
  /\ pc[c] = "idle"
  /\ lock # None \/ anchor # None \/ ~AllFinished
  /\ Go(c, "done")
  /\ UNCHANGED <<cluster, requests, lock, record, locals, report, faults>>

OpenFresh(c) ==
  /\ pc[c] = "idle"
  /\ lock = None
  /\ anchor = None
  /\ AllFinished
  /\ lock' = c
  /\ conn' = [conn EXCEPT ![c] = c]
  /\ work' = [work EXCEPT ![c] = First]
  /\ Go(c, "absent")
  /\ UNCHANGED <<cluster, requests, record, seen, kids, asked, reply, stopped, report, faults>>

\* The same connection is asked for again and its record is complete.
OpenRetained(c) ==
  /\ pc[c] = "idle"
  /\ lock = None
  /\ anchor # None
  /\ LET held == family[anchor]
     IN held.stage = "saved" /\ ~held.complete /\ held.pending = None /\ held.resources = Kinds
  /\ lock' = c
  /\ conn' = [conn EXCEPT ![c] = anchor]
  /\ Go(c, "reuse")
  /\ UNCHANGED <<cluster, requests, record, work, seen, kids, asked, reply, stopped, report, faults>>

\* Every root of the retained connection is still there and unchanged.
CheckRetained(c) ==
  /\ pc[c] = "reuse"
  /\ IF \A k \in Kinds : Intact(conn[c], k)
     THEN Go(c, "serving") /\ UNCHANGED <<lock, locals, report>>
     ELSE End(c, "unknown")
  /\ UNCHANGED <<cluster, requests, record, faults>>

\* modelAbsent, name by name.
CheckAbsent(c) ==
  /\ pc[c] = "absent"
  /\ IF object[work[c]] # None
     THEN End(c, "unknown")
     ELSE /\ work' = [work EXCEPT ![c] = After(work[c])]
          /\ Go(c, IF After(work[c]) = None THEN "family" ELSE "absent")
          /\ UNCHANGED <<lock, conn, seen, kids, asked, reply, stopped, report>>
  /\ UNCHANGED <<cluster, requests, record, faults>>

\* Checkpoint zero is three publications: the family, the anchor, the checkpoint.
MakeFamily(c) ==
  /\ pc[c] = "family"
  /\ Checkpoint(c, [NoFamily EXCEPT !.stage = "made"])
  /\ Go(c, "anchor")
  /\ UNCHANGED <<cluster, requests, lock, locals, report, faults>>

PublishAnchor(c) ==
  /\ pc[c] = "anchor"
  /\ anchor' = c
  /\ Go(c, "zero")
  /\ UNCHANGED <<cluster, requests, lock, family, locals, report, faults>>

PublishZero(c) ==
  /\ pc[c] = "zero"
  /\ Checkpoint(c, [NoFamily EXCEPT !.stage = "saved"])
  /\ work' = [work EXCEPT ![c] = First]
  /\ Go(c, "intent")
  /\ UNCHANGED <<cluster, requests, lock, conn, seen, kids, asked, reply, stopped, report, faults>>

\* Mutant: the CREATE is sent before its checkpoint is published.
RecordCreateLater(c) ==
  /\ pc[c] = "intent"
  /\ Go(c, "create")
  /\ UNCHANGED <<cluster, requests, lock, record, locals, report, faults>>

RecordCreate(c) ==
  /\ pc[c] = "intent"
  /\ Checkpoint(c, [family[c] EXCEPT
        !.pending = [verb |-> "create", kind |-> work[c], by |-> c, children |-> {}]])
  /\ Go(c, "create")
  /\ UNCHANGED <<cluster, requests, lock, locals, report, faults>>

SendCreate(c) ==
  /\ pc[c] = "create"
  /\ Send(c, [verb |-> "create", by |-> c, kind |-> work[c], uid |-> c, version |-> 0])
  /\ Go(c, "creating")
  /\ UNCHANGED <<cluster, lock, record, conn, work, seen, kids, reply, stopped, report, faults>>

\* Mutant: the loop over the documents does not end after the last one.
RecordCreatedAgain(c) ==
  /\ pc[c] = "creating"
  /\ reply[c] = "ok"
  /\ Checkpoint(c, [family[c] EXCEPT !.pending = None, !.resources = @ \cup {work[c]}])
  /\ work' = [work EXCEPT ![c] = After(work[c])]
  /\ asked' = [asked EXCEPT ![c] = None]
  /\ reply' = [reply EXCEPT ![c] = "none"]
  /\ Go(c, "intent")
  /\ UNCHANGED <<cluster, requests, lock, conn, seen, kids, stopped, report, faults>>

\* The answer carries the new object: the record owns it from here on.
RecordCreated(c) ==
  /\ pc[c] = "creating"
  /\ reply[c] = "ok"
  /\ Checkpoint(c, [family[c] EXCEPT !.pending = None, !.resources = @ \cup {work[c]}])
  /\ work' = [work EXCEPT ![c] = After(work[c])]
  /\ asked' = [asked EXCEPT ![c] = None]
  /\ reply' = [reply EXCEPT ![c] = "none"]
  /\ Go(c, IF After(work[c]) = None THEN "serving" ELSE "intent")
  /\ UNCHANGED <<cluster, requests, lock, conn, seen, kids, stopped, report, faults>>

\* The refused CREATE stays pending: nobody may conclude what became of it.
CreateRefused(c) ==
  /\ pc[c] = "creating"
  /\ reply[c] = "refused"
  /\ Fail(c)

\* modelServingGateway: poll until a Pod of the closure is ready.
FindServing(c) ==
  /\ pc[c] = "serving"
  /\ Serving(conn[c], "Deployment")
  /\ \E p \in Pods \cap ChildrenOf(conn[c]) : pod[p].running
  /\ seen' = [seen EXCEPT ![c] = ChildrenOf(conn[c])]
  /\ Go(c, "recheck")
  /\ UNCHANGED <<cluster, requests, lock, record, conn, work, kids, asked, reply, stopped, report, faults>>

\* The wait ends after 30 seconds, and at once when the gateway is not ours any more.
ServingFailed(c) ==
  /\ pc[c] = "serving"
  /\ Fail(c)

\* After the health probe: every root and the same closure again.
RecheckServing(c) ==
  /\ pc[c] = "recheck"
  /\ IF /\ \A k \in family[conn[c]].resources : Serving(conn[c], k)
        /\ ChildrenOf(conn[c]) = seen[c]
     THEN Go(c, "ready") /\ UNCHANGED <<lock, locals, report>>
     ELSE End(c, "unknown")
  /\ UNCHANGED <<cluster, requests, record, faults>>

RecordReady(c) ==
  /\ pc[c] = "ready"
  /\ Checkpoint(c, [family[conn[c]] EXCEPT !.children = @ \cup seen[c]])
  /\ End(c, "ready")
  /\ UNCHANGED <<cluster, requests, faults>>

Connect(c) ==
  \/ RefuseConnect(c) \/ OpenFresh(c) \/ OpenRetained(c) \/ CheckRetained(c)
  \/ CheckAbsent(c) \/ MakeFamily(c) \/ PublishAnchor(c) \/ PublishZero(c)
  \/ RecordCreate(c) \/ SendCreate(c) \/ RecordCreated(c) \/ CreateRefused(c)
  \/ FindServing(c) \/ ServingFailed(c) \/ RecheckServing(c) \/ RecordReady(c)

-------------------------------------------------------------------------------
(***************************************************************************)
(* DisconnectOrkaModel.                                                    *)
(***************************************************************************)

\* The lock, a missing or unreadable record, another connection, a pending CREATE
\* or a DELETE of this very operation: nothing is done.
RefuseDisconnect(d) ==
  /\ pc[d] = "idle"
  /\ report' = Unknown
  /\ UNCHANGED <<cluster, requests, lock, record, pc, locals, faults>>

\* The anchor leads to a readable chain for the connection asked for.
OpenAnchored(d) ==
  /\ pc[d] = "idle"
  /\ lock = None
  /\ anchor # None
  /\ family[anchor].stage = "saved"
  /\ lock' = d
  /\ conn' = [conn EXCEPT ![d] = anchor]

\* The record was completed, only its anchor is left.
ResumeFinish(d) ==
  /\ OpenAnchored(d)
  /\ family[anchor].complete
  /\ Go(d, "finish")
  /\ UNCHANGED <<cluster, requests, record, work, seen, kids, asked, reply, stopped, report, faults>>

\* Mutant: a pending DELETE is never taken up again.
BeginUnpending(d) ==
  /\ OpenAnchored(d)
  /\ LET held == family[anchor]
     IN /\ ~held.complete
        /\ held.pending = None
        /\ stopped' = [stopped EXCEPT ![d] = "Deployment" \notin held.resources]
  /\ Go(d, "survey")
  /\ UNCHANGED <<cluster, requests, record, work, seen, kids, asked, reply, report, faults>>

\* A pending DELETE of another operation may be taken up again.
BeginDisconnect(d) ==
  /\ OpenAnchored(d)
  /\ LET held == family[anchor]
     IN /\ ~held.complete
        /\ held.pending # None => held.pending.verb = "delete" /\ held.pending.by # d
        /\ stopped' = [stopped EXCEPT ![d] = "Deployment" \notin held.resources]
  /\ Go(d, "survey")
  /\ UNCHANGED <<cluster, requests, record, work, seen, kids, asked, reply, report, faults>>

\* Every root is read before the first effect.  A gateway that is gone without any
\* retained child leaves no proof that its processes stopped.
SurveyRoots(d) ==
  /\ pc[d] = "survey"
  /\ LET c == conn[d]
         held == family[c]
         unproven == /\ "Deployment" \in held.resources
                     /\ object["Deployment"] = None
                     /\ held.pending = None
                     /\ held.children = {}
     IN IF unproven \/ \E k \in held.resources : Unreadable(c, k)
        THEN End(d, Failure(d))
        ELSE Go(d, "pick") /\ UNCHANGED <<lock, locals, report>>
  /\ UNCHANGED <<cluster, requests, record, faults>>

\* The next root is read again, with its children; the retained ones stay.
PickRoot(d) ==
  /\ pc[d] = "pick"
  /\ family[conn[d]].resources # {}
  /\ LET c == conn[d]
         held == family[c]
         k == NextToDelete(held.resources)
         retained == (IF k = "Deployment" THEN held.children ELSE {})
                       \cup (IF held.pending # None THEN held.pending.children ELSE {})
         listed == IF object[k] # None THEN Closure(c, k) ELSE {}
     IN IF \/ Unreadable(c, k)
           \/ held.pending # None /\ held.pending.kind # k
        THEN End(d, Failure(d))
        ELSE /\ work' = [work EXCEPT ![d] = k]
             /\ seen' = [seen EXCEPT ![d] = listed]
             /\ kids' = [kids EXCEPT ![d] = retained \cup listed]
             /\ Go(d, IF object[k] # None THEN "intent" ELSE "wait")
             /\ UNCHANGED <<lock, conn, asked, reply, stopped, report>>
  /\ UNCHANGED <<cluster, requests, record, faults>>

RecordDelete(d) ==
  /\ pc[d] = "intent"
  /\ Checkpoint(d, [family[conn[d]] EXCEPT
        !.pending = [verb |-> "delete", kind |-> work[d], by |-> d, children |-> kids[d]]])
  /\ Go(d, "reread")
  /\ UNCHANGED <<cluster, requests, lock, locals, report, faults>>

\* modelDeleteOwned: the root and exactly the children listed before, else no DELETE.
RereadRoot(d) ==
  /\ pc[d] = "reread"
  /\ LET c == conn[d]
         k == work[d]
     IN IF Unreadable(c, k) \/ (Serving(c, k) /\ Closure(c, k) # seen[d])
        THEN End(d, Failure(d))
        ELSE /\ Go(d, IF Serving(c, k) THEN "send" ELSE "wait")
             /\ UNCHANGED <<lock, locals, report>>
  /\ UNCHANGED <<cluster, requests, record, faults>>

\* Mutant: the conditions are those of whatever object the last read finds.
SendDeleteUnread(d) ==
  /\ pc[d] = "send"
  /\ LET k == work[d]
     IN IF object[k] # None /\ object[k].uid # Foreign
        THEN /\ Send(d, [verb |-> "delete", by |-> d, kind |-> k, uid |-> object[k].uid,
                         version |-> object[k].version])
             /\ Go(d, "deleting")
        ELSE Go(d, "wait") /\ UNCHANGED <<requests, asked>>
  /\ UNCHANGED <<cluster, record, faults, lock, conn, work, seen, kids, reply, stopped, report>>

\* The last read gives the conditions of the one DELETE.
SendDelete(d) ==
  /\ pc[d] = "send"
  /\ LET c == conn[d]
         k == work[d]
     IN \/ /\ Unreadable(c, k)
           /\ End(d, Failure(d))
           /\ UNCHANGED requests
        \/ /\ ~Unreadable(c, k)
           /\ ~Serving(c, k)
           /\ Go(d, "wait")
           /\ UNCHANGED <<requests, lock, locals, report>>
        \/ /\ Serving(c, k)
           /\ Send(d, [verb |-> "delete", by |-> d, kind |-> k, uid |-> object[k].uid,
                       version |-> object[k].version])
           /\ Go(d, "deleting")
           /\ UNCHANGED <<lock, conn, work, seen, kids, reply, stopped, report>>
  /\ UNCHANGED <<cluster, record, faults>>

\* An unclear answer ends the run; the pending DELETE stays recorded.
DeleteAnswered(d) ==
  /\ pc[d] = "deleting"
  /\ reply[d] # "none"
  /\ IF reply[d] = "ok"
     THEN /\ Go(d, "wait")
          /\ asked' = [asked EXCEPT ![d] = None]
          /\ reply' = [reply EXCEPT ![d] = "none"]
          /\ UNCHANGED <<lock, conn, work, seen, kids, stopped, report>>
     ELSE End(d, Failure(d))
  /\ UNCHANGED <<cluster, requests, record, faults>>

\* modelWaitDeleted: poll the root and the known children.
AwaitDeleted(d) ==
  /\ pc[d] = "wait"
  /\ \/ /\ Unreadable(conn[d], work[d])
        /\ End(d, Failure(d))
     \/ /\ object[work[d]] = None
        /\ ChildrenGone(kids[d])
        /\ Go(d, "closure")
        /\ UNCHANGED <<lock, locals, report>>
  /\ UNCHANGED <<cluster, requests, record, faults>>

\* The closure is listed once more: a child nobody listed may have appeared.
InspectClosure(d) ==
  /\ pc[d] = "closure"
  /\ IF Closure(conn[d], work[d]) # {}
     THEN End(d, Failure(d))
     ELSE /\ Go(d, IF work[d] = "Deployment" THEN "processes" ELSE "retire")
          /\ UNCHANGED <<lock, locals, report>>
  /\ UNCHANGED <<cluster, requests, record, faults>>

\* Mutant: a gateway whose objects are absent counts as stopped.
InspectNothing(d) ==
  /\ pc[d] = "processes"
  /\ stopped' = [stopped EXCEPT ![d] = TRUE]
  /\ Go(d, "retire")
  /\ UNCHANGED <<cluster, requests, record, lock, conn, work, seen, kids, asked, reply, report,
                 faults>>

\* Absence from the API is not process death: the nodes' containers are listed.
InspectProcesses(d) ==
  /\ pc[d] = "processes"
  /\ IF NoProcess
     THEN /\ stopped' = [stopped EXCEPT ![d] = TRUE]
          /\ Go(d, "retire")
          /\ UNCHANGED <<lock, conn, work, seen, kids, asked, reply, report>>
     ELSE End(d, Failure(d))
  /\ UNCHANGED <<cluster, requests, record, faults>>

RetireRoot(d) ==
  /\ pc[d] = "retire"
  /\ Checkpoint(d, [family[conn[d]] EXCEPT
        !.resources = @ \ {work[d]},
        !.children = IF work[d] = "Deployment" THEN {} ELSE @,
        !.pending = None])
  /\ Go(d, "pick")
  /\ UNCHANGED <<cluster, requests, lock, locals, report, faults>>

CompleteFamily(d) ==
  /\ pc[d] = "pick"
  /\ family[conn[d]].resources = {}
  /\ IF family[conn[d]].pending # None
     THEN End(d, Failure(d)) /\ UNCHANGED record
     ELSE /\ Checkpoint(d, [family[conn[d]] EXCEPT !.complete = TRUE])
          /\ Go(d, "finish")
          /\ UNCHANGED <<lock, locals, report>>
  /\ UNCHANGED <<cluster, requests, faults>>

\* finish: the anchor goes last.
RemoveAnchor(d) ==
  /\ pc[d] = "finish"
  /\ anchor' = None
  /\ End(d, "stopped")
  /\ UNCHANGED <<cluster, requests, family, faults>>

Disconnect(d) ==
  \/ RefuseDisconnect(d) \/ ResumeFinish(d) \/ BeginDisconnect(d) \/ SurveyRoots(d)
  \/ PickRoot(d) \/ RecordDelete(d) \/ RereadRoot(d) \/ SendDelete(d) \/ DeleteAnswered(d)
  \/ AwaitDeleted(d) \/ InspectClosure(d) \/ InspectProcesses(d) \/ RetireRoot(d)
  \/ CompleteFamily(d) \/ RemoveAnchor(d)

-------------------------------------------------------------------------------
(***************************************************************************)
(* The cluster: the API server, its controllers, kubelets, other people.    *)
(***************************************************************************)

\* The run that still waits for request r gets its answer.
Answer(r, result) ==
  reply' = [a \in Attempts |-> IF asked[a] = r THEN result ELSE reply[a]]

CreatesObject(r) ==
  /\ r.verb = "create"
  /\ IF object[r.kind] = None
     THEN /\ object' = [object EXCEPT ![r.kind] =
               [uid |-> r.uid, version |-> 0, edited |-> FALSE, bumped |-> FALSE,
                terminating |-> FALSE]]
          /\ Answer(r, "ok")
     ELSE Answer(r, "refused") /\ UNCHANGED object

\* Both conditions of the DELETE hold: the object goes at once, or it is stamped and
\* waits for its dependents and finalizers, usually with another generation.
DeletesObject(r) ==
  /\ r.verb = "delete"
  /\ LET o == object[r.kind]
     IN IF o # None /\ o.uid = r.uid /\ o.version = r.version
        THEN /\ Answer(r, "ok")
             /\ \/ /\ r.kind # "Deployment"
                   /\ object' = [object EXCEPT ![r.kind] = None]
                \/ \E bump \in {FALSE} \cup {r.kind \in Versioned} :
                     object' = [object EXCEPT
                       ![r.kind].terminating = TRUE,
                       ![r.kind].bumped = bump,
                       ![r.kind].version = @ + 1]
        ELSE Answer(r, "refused") /\ UNCHANGED object

Deliver(r) ==
  /\ r \in requests
  /\ requests' = requests \ {r}
  /\ CreatesObject(r) \/ DeletesObject(r)
  /\ UNCHANGED <<replicas, pod, lock, record, pc, conn, work, seen, kids, asked, stopped, report, faults>>

Lose(r) ==
  /\ r \in requests
  /\ faults < MaxFaults
  /\ faults' = faults + 1
  /\ requests' = requests \ {r}
  /\ Answer(r, "refused")
  /\ UNCHANGED <<cluster, lock, record, pc, conn, work, seen, kids, asked, stopped, report>>

Local == <<requests, lock, record, pc, locals, report>>

\* The last dependents and finalizers of a deleted object are gone.
Finalize(k) ==
  /\ object[k] # None
  /\ object[k].terminating
  /\ k = "Deployment" => replicas = None
  /\ object' = [object EXCEPT ![k] = None]
  /\ UNCHANGED <<replicas, pod, faults, Local>>

\* The Deployment of connection c asks for a replica.
Lives(c) ==
  object["Deployment"] # None /\ object["Deployment"].uid = c /\ ~object["Deployment"].terminating

Replicate ==
  /\ replicas = None
  /\ \E c \in Connects : Lives(c)
  /\ replicas' = [owner |-> object["Deployment"].uid, terminating |-> FALSE]
  /\ UNCHANGED <<object, pod, faults, Local>>

\* The garbage collector follows the owner.
CollectReplicas ==
  /\ replicas # None
  /\ ~replicas.terminating
  /\ ~Lives(replicas.owner)
  /\ replicas' = [replicas EXCEPT !.terminating = TRUE]
  /\ UNCHANGED <<object, pod, faults, Local>>

Listed(c) == {p \in Pods : pod[p].owner = c /\ pod[p].api}

RemoveReplicas ==
  /\ replicas # None
  /\ replicas.terminating
  /\ Listed(replicas.owner) = {}
  /\ replicas' = None
  /\ UNCHANGED <<object, pod, faults, Local>>

\* One replica; the ReplicaSet makes Pods until it is collected itself.
Spawn(p) ==
  /\ replicas # None
  /\ ~replicas.terminating
  /\ Listed(replicas.owner) = {}
  /\ pod[p].owner = None
  /\ pod' = [pod EXCEPT ![p] = [owner |-> replicas.owner, api |-> TRUE, running |-> FALSE]]
  /\ UNCHANGED <<object, replicas, faults, Local>>

\* The kubelet starts the containers of a Pod that the API lists, and of no other.
\* That is an assumption about the cluster, on which StoppedMeansStopped rests: a Pod
\* that was force-removed before it ran must never start.
Run(p) ==
  /\ pod[p].api
  /\ ~pod[p].running
  /\ pod' = [pod EXCEPT ![p].running = TRUE]
  /\ UNCHANGED <<object, replicas, faults, Local>>

\* A collected Pod leaves the API after its containers ended.
Reap(p) ==
  /\ pod[p].api
  /\ replicas = None \/ replicas.terminating
  /\ pod' = [pod EXCEPT ![p].api = FALSE, ![p].running = FALSE]
  /\ UNCHANGED <<object, replicas, faults, Local>>

\* The kubelet ends the containers of a Pod that is not listed any more.
Die(p) ==
  /\ ~pod[p].api
  /\ pod[p].running
  /\ pod' = [pod EXCEPT ![p].running = FALSE]
  /\ UNCHANGED <<object, replicas, faults, Local>>

\* A forced deletion or a lost node takes a Pod from the API and not its process.
ForceRemove(p) ==
  /\ pod[p].api
  /\ faults < MaxFaults
  /\ faults' = faults + 1
  /\ pod' = [pod EXCEPT ![p].api = FALSE]
  /\ UNCHANGED <<object, replicas, Local>>

\* Somebody else takes a free name, deletes an object or writes to one; a write
\* leaves the execution as it was, or edits it.
Interfere(k) ==
  /\ faults < MaxFaults
  /\ faults' = faults + 1
  /\ \/ /\ object[k] = None
        /\ object' = [object EXCEPT ![k] =
             [uid |-> Foreign, version |-> 0, edited |-> FALSE, bumped |-> FALSE,
              terminating |-> FALSE]]
     \/ /\ object[k] # None
        /\ object' = [object EXCEPT ![k] = None]
     \/ /\ object[k] # None
        /\ \E edit \in BOOLEAN :
             object' = [object EXCEPT ![k].version = @ + 1, ![k].edited = @ \/ edit]
  /\ UNCHANGED <<replicas, pod, Local>>

Controllers ==
  \/ \E k \in Kinds : Finalize(k)
  \/ Replicate \/ CollectReplicas \/ RemoveReplicas
  \/ \E p \in Pods : Spawn(p) \/ Run(p) \/ Reap(p) \/ Die(p)

Next ==
  \/ \E c \in Connects : Connect(c)
  \/ \E d \in Disconnects : Disconnect(d)
  \/ \E a \in Attempts : Abort(a)
  \/ \E r \in requests : Deliver(r) \/ Lose(r)
  \/ Controllers
  \/ \E p \in Pods : ForceRemove(p)
  \/ \E k \in Kinds : Interfere(k)

Spec == Init /\ [][Next]_vars

(***************************************************************************)
(* A run that started goes on until it ends, requests arrive, the cluster   *)
(* works, and the operator asks for the disconnect again until it is done.  *)
(***************************************************************************)
Persist(d) == Disconnect(d) /\ pc'[d] # pc[d]

FairSpec ==
  /\ Spec
  /\ \A c \in Connects : WF_vars(Connect(c))
  /\ \A d \in Disconnects : WF_vars(Persist(d))
  /\ WF_vars(\E r \in requests : Deliver(r))
  /\ WF_vars(Controllers)

-------------------------------------------------------------------------------
(***************************************************************************)
(* Properties.                                                             *)
(***************************************************************************)

\* The connection's effects are not known to be over.
Unfinished(c) == family[c].stage # "none" /\ ~family[c].complete

IsPending(c, verb, k) ==
  /\ family[c].pending # None
  /\ family[c].pending.verb = verb
  /\ family[c].pending.kind = k

(***************************************************************************)
(* Whatever died and whenever: an object kmx created, and a CREATE that may *)
(* still create one, is named by the record the next run opens, as a        *)
(* resource or as the pending action.                                      *)
(***************************************************************************)
EffectsAreRecorded ==
  /\ \A k \in Kinds : object[k] # None /\ object[k].uid # Foreign =>
       LET c == object[k].uid
       IN /\ anchor = c
          /\ Unfinished(c)
          /\ k \in family[c].resources \/ IsPending(c, "create", k)
  /\ \A r \in requests : r.verb = "create" =>
       /\ anchor = r.by
       /\ Unfinished(r.by)
       /\ IsPending(r.by, "create", r.kind)

(***************************************************************************)
(* A disconnect that reports a stopped gateway, in success or in failure, is *)
(* right about it for good: no container of the connection runs, listed by   *)
(* the API or not, and none can start again.                                *)
(***************************************************************************)
StoppedMeansStopped ==
  report.state = "stopped" =>
    /\ \A p \in Pods : pod[p].owner = report.of => ~pod[p].running /\ ~pod[p].api
    /\ replicas # None => replicas.owner # report.of
    /\ object["Deployment"] # None => object["Deployment"].uid # report.of
    /\ \A r \in requests : r.verb = "create" => r.by # report.of

(***************************************************************************)
(* A DELETE of kmx, however late it arrives, takes effect only on an object  *)
(* the record holds, still as kmx last read it, while that deletion is the   *)
(* pending action: never on an edited one, on a replacement, or on an object *)
(* of a later connection.                                                   *)
(***************************************************************************)
DeletionIsAuthorized ==
  [][\A k \in Kinds :
       LET o == object[k]
           o2 == object'[k]
       IN (/\ faults' = faults
           /\ o # None /\ ~o.terminating
           /\ o2 = None \/ o2.terminating)
          => /\ o.uid # Foreign /\ ~o.edited
             /\ anchor = o.uid
             /\ k \in family[o.uid].resources
             /\ IsPending(o.uid, "delete", k)]_vars

(***************************************************************************)
(* The record is a lease (ModelLease): the fixed names serve one connection  *)
(* at a time, and a connection's record is completed only when no object, no *)
(* CREATE on its way, no child and no process of it is left.                *)
(***************************************************************************)
Holder ==
  IF \E c \in Connects : Unfinished(c) THEN CHOOSE c \in Connects : Unfinished(c) ELSE None

Traces == Kinds \cup Pods \cup {"ReplicaSet", "CREATE"}

Started(c) ==
  {k \in Kinds : object[k] # None /\ object[k].uid = c}
    \cup {p \in Pods : pod[p].owner = c /\ (pod[p].api \/ pod[p].running)}
    \cup (IF replicas # None /\ replicas.owner = c THEN {"ReplicaSet"} ELSE {})
    \cup (IF \E r \in requests : r.verb = "create" /\ r.by = c THEN {"CREATE"} ELSE {})

Lease == INSTANCE ModelLease WITH
  Connections <- Connects,
  holder <- Holder,
  started <- [c \in Connects |-> Started(c)]

IsALease == Lease!Spec

(***************************************************************************)
(* What a crashed connect or disconnect left is cleaned up by asking again,  *)
(* as long as no CREATE is unresolved, nobody edited or replaced a root, and *)
(* a missing gateway left retained children behind as proof of its closure.  *)
(***************************************************************************)
Recoverable(c) ==
  LET held == family[c]
  IN /\ anchor = c
     /\ held.stage = "saved"
     /\ held.pending # None => held.pending.verb = "delete"
     /\ \A k \in held.resources : object[k] # None => object[k].uid = c /\ ~object[k].edited
     /\ ~(/\ "Deployment" \in held.resources
          /\ object["Deployment"] = None
          /\ held.pending = None
          /\ held.children = {})

RecoverableIsReleased == \A c \in Connects : []<>~Recoverable(c)
==============================================================================
