----------------------------- MODULE SuiteCandidate -----------------------------
(***************************************************************************)
(* kmx package test against a cluster (internal/kmx/app/suite_*.go).         *)
(*                                                                         *)
(* An evaluation places a temporary Provider and Agent under names of its     *)
(* own, runs one fresh Task per declared run, judges the answers, deletes     *)
(* what it created, proves that nothing is left, and only then records the    *)
(* pass in the evidence store of the workspace.  A run knows what it created  *)
(* from answers to its requests alone and keeps that in memory; what a dead   *)
(* run left is found by its run marker and deleted by an operator.           *)
(*                                                                         *)
(* Reads with no effect between them are one step, and so are a read and the  *)
(* request it conditions: the server decides when the request arrives.       *)
(***************************************************************************)
EXTENDS Naturals, Sequences, SequencesExt, FiniteSets

CONSTANTS
  Runs,          \* evaluations of one workspace
  Operators,     \* people running kmx package test cleanup, any number of times
  Cases,         \* the suite: for each case its Tasks in order and the passes it needs
  Foreign,       \* the creator of an object that is not kmx's
  None,
  Earlier,       \* the runs before these
  MaxRecords,    \* capacity of the evidence store
  MaxFaults      \* bound on deaths, lost requests, expired cleanups and interference

Actors == Runs \cup Operators

TaskOrder == FlattenSeq([i \in DOMAIN Cases |-> Cases[i].tasks])
Tasks == {TaskOrder[i] : i \in DOMAIN TaskOrder}

\* The kinds of roots an evaluation creates: the pair and its Tasks.
CreateOrder == <<"Provider", "Agent">> \o TaskOrder
DeleteOrder == TaskOrder \o <<"Agent", "Provider">>
Kinds == {CreateOrder[i] : i \in DOMAIN CreateOrder}

ASSUME ActorsAssumption ==
  /\ Runs \cap Operators = {}
  /\ {None, Foreign, Earlier} \cap Actors = {}
  /\ None # Foreign

\* A suite has cases, a case has as many Tasks as it needs, and their names are all different.
ASSUME CasesAssumption ==
  /\ Cases \in Seq(Range(Cases)) /\ Cases # << >>
  /\ \A i \in DOMAIN Cases :
       /\ Cases[i].tasks \in Seq(Range(Cases[i].tasks)) /\ IsInjective(Cases[i].tasks)
       /\ Cases[i].need \in 1 .. Len(Cases[i].tasks)
       /\ {"Provider", "Agent"} \cap Range(Cases[i].tasks) = {}
       /\ \A j \in DOMAIN Cases : j # i => Range(Cases[i].tasks) \cap Range(Cases[j].tasks) = {}

ASSUME BoundsAssumption == MaxRecords \in Nat /\ MaxFaults \in Nat

VARIABLES
  object,     \* object[r][k]: the live object under the name run r has for kind k
  jobs,       \* jobs[r]: the Tasks whose Job exists
  pods,       \* pods[r]: the Tasks a Pod of whose Job exists
  answer,     \* answer[r][t]: what the Task answered, spoiled if not from the untouched pair
  requests,   \* CREATEs and DELETEs on their way to the API server
  lock,       \* the run that holds the store's lock, or None
  store,      \* the runs of the passing records, in sequence
  pc,         \* pc[a]: the step actor a takes next
  of,         \* of[a]: the run whose roots a deletes
  cur,        \* cur[r]: the kind run r is creating
  roots,      \* roots[a]: the roots acknowledged to a run, or selected by an operator
  unsure,     \* unsure[r]: whether run r intended a CREATE and got no UID for it
  credited,   \* credited[r]: the Tasks run r counts as passes
  failed,     \* failed[r]: whether the execution of run r ended in an error
  approved,   \* approved[a][k]: the edits of the root that a may delete
  known,      \* known[a]: the Tasks whose Job a has listed
  left,       \* left[a]: the roots cleanup has yet to see absent
  reply,      \* reply[a]: the answer to the request a waits for
  report,     \* report[a]: what a said when it ended
  faults      \* how many of the MaxFaults happened

cluster == <<object, jobs, pods, answer>>
evidence == <<lock, store>>
judged == <<credited, failed>>
execution == <<cur, unsure, judged>>
cleanup == <<of, roots, approved, known, left>>
vars == <<object, jobs, pods, answer, requests, lock, store, pc, of, cur, roots, unsure,
          credited, failed, approved, known, left, reply, report, faults>>

Executing == {"admit", "create", "creating", "ready", "running"}
Cleaning == {"survey", "delete", "poll", "quiet", "final"}

Objects ==
  [owner : Runs \cup {Foreign}, edits : 0 .. MaxFaults, terminating : BOOLEAN]

Requests ==
  [verb : {"create", "delete"}, waiter : Actors \cup {None}, run : Runs, kind : Kinds,
   current : BOOLEAN, approved : 0 .. MaxFaults]

\* A run in progress holds the lock, and the room for its record stays reserved.
TypeOK ==
  /\ object \in [Runs -> [Kinds -> Objects \cup {None}]]
  /\ jobs \in [Runs -> SUBSET Tasks]
  /\ pods \in [Runs -> SUBSET Tasks]
  /\ answer \in [Runs -> [Tasks -> {"none", "good", "spoiled", "bad"}]]
  /\ requests \subseteq Requests
  /\ lock \in Runs \cup {None}
  /\ store \in Seq(Runs \cup {Earlier})
  /\ Len(store) <= MaxRecords
  /\ \A r \in Runs : pc[r] \in {"idle", "proof", "linked", "over"} \cup Executing \cup Cleaning
  /\ \A r \in Runs :
       pc[r] \in Executing \cup Cleaning \cup {"proof"} => lock = r /\ Len(store) < MaxRecords
  /\ \A o \in Operators : pc[o] \in {"idle"} \cup Cleaning
  /\ of \in [Actors -> Runs \cup {None}]
  /\ cur \in [Runs -> Kinds \cup {None}]
  /\ roots \in [Actors -> SUBSET Kinds]
  /\ unsure \in [Runs -> BOOLEAN]
  /\ credited \in [Runs -> SUBSET Tasks]
  /\ failed \in [Runs -> BOOLEAN]
  /\ approved \in [Actors -> [Kinds -> 0 .. MaxFaults]]
  /\ known \in [Actors -> SUBSET Tasks]
  /\ left \in [Actors -> SUBSET Kinds]
  /\ reply \in [Actors -> {"none", "ok", "refused"}]
  /\ report \in [Actors -> {"none", "passed", "uncertain", "clean", "incomplete"}]
  /\ faults \in 0 .. MaxFaults

Init ==
  /\ object = [r \in Runs |-> [k \in Kinds |-> None]]
  /\ jobs = [r \in Runs |-> {}]
  /\ pods = [r \in Runs |-> {}]
  /\ answer = [r \in Runs |-> [t \in Tasks |-> "none"]]
  /\ requests = {}
  /\ lock = None
  /\ \E n \in 0 .. MaxRecords : store = [i \in 1 .. n |-> Earlier]
  /\ pc = [a \in Actors |-> "idle"]
  /\ of = [a \in Actors |-> IF a \in Runs THEN a ELSE None]
  /\ cur = [r \in Runs |-> None]
  /\ roots = [a \in Actors |-> {}]
  /\ unsure = [r \in Runs |-> FALSE]
  /\ credited = [r \in Runs |-> {}]
  /\ failed = [r \in Runs |-> FALSE]
  /\ approved = [a \in Actors |-> [k \in Kinds |-> 0]]
  /\ known = [a \in Actors |-> {}]
  /\ left = [a \in Actors |-> {}]
  /\ reply = [a \in Actors |-> "none"]
  /\ report = [a \in Actors |-> "none"]
  /\ faults = 0

-------------------------------------------------------------------------------
(***************************************************************************)
(* Observations.                                                           *)
(***************************************************************************)

Ours(r, k) == object[r][k] # None /\ object[r][k].owner = r
Taken(r, k) == object[r][k] # None /\ object[r][k].owner # r

\* The object as its CREATE was acknowledged.
Intact(r, k) == Ours(r, k) /\ object[r][k].edits = 0 /\ ~object[r][k].terminating

\* verifySuiteNative: the pair the run placed, same UIDs and generations.
PairIntact(r) == Intact(r, "Provider") /\ Intact(r, "Agent")

\* Mutant: an operator's root, too, is compared with what its CREATE asked for.
ChangedSinceCreation(a, k) == Taken(of[a], k) \/ (Ours(of[a], k) /\ object[of[a]][k].edits # 0)

\* suiteCandidateCleanupRoot refuses the root: its name is taken or its spec changed.
Changed(a, k) ==
  \/ Taken(of[a], k)
  \/ Ours(of[a], k) /\ object[of[a]][k].edits # approved[a][k]

\* discoverSuiteCandidates is uncertain: an evaluation's name carries no run marker, or a
\* child has no live parent and none that actor a retained.
Uncertain(a) ==
  \E r \in Runs :
    \/ \E k \in Kinds : Taken(r, k)
    \/ \E t \in Tasks :
         \/ t \in jobs[r] /\ ~Ours(r, t) /\ ~(of[a] = r /\ t \in roots[a])
         \/ t \in pods[r] /\ t \notin jobs[r] /\ ~(of[a] = r /\ t \in known[a])

\* The operator's inventory check: certain, and no root but the selected ones.
InventoryChanged(o) ==
  \/ Uncertain(o)
  \/ \E k \in Kinds : Ours(of[o], k) /\ (k \notin roots[o] \/ Changed(o, k))

\* suiteCandidateCleanupChildren: the Jobs listed so far by a Task's UID, and whether a
\* Pod that names one of the Tasks belongs to none of them.
Found(a) == known[a] \cup (roots[a] \cap jobs[of[a]])

Unanchored(a) == ~(roots[a] \cap pods[of[a]] \subseteq Found(a))

ChildrenUnknown(a) == Unanchored(a) \/ (a \in Operators /\ InventoryChanged(a))

\* Mutant: the children are not waited for, only the roots.
RootsOnly(a) == TRUE

ChildrenGone(a) ==
  roots[a] \cap (jobs[of[a]] \cup pods[of[a]]) = {}

-------------------------------------------------------------------------------
(***************************************************************************)
(* How an actor moves on, asks and ends.                                   *)
(***************************************************************************)

Go(a, step) == pc' = [pc EXCEPT ![a] = step]

\* Nobody waits any more for what actor a sent; an outdated DELETE is refused unseen.
Abandoned(a) ==
  {IF q.waiter = a THEN [q EXCEPT !.waiter = None] ELSE q :
     q \in {w \in requests : w.waiter = a => w.current}}

Send(a, verb, r, k) ==
  /\ requests' = requests \cup {[verb |-> verb, waiter |-> a, run |-> r, kind |-> k,
                                 current |-> TRUE, approved |-> approved[a][k]]}
  /\ reply' = [reply EXCEPT ![a] = "none"]

\* The process ends with what it says; its memory and the store's lock go with it.
End(a, said) ==
  /\ Go(a, IF a \in Runs THEN "over" ELSE "idle")
  /\ lock' = IF lock = a THEN None ELSE lock
  /\ requests' = Abandoned(a)
  /\ reply' = [reply EXCEPT ![a] = "none"]
  /\ report' = [report EXCEPT ![a] =
       IF a \in Operators /\ said = "incomplete" THEN "none" ELSE said]
  /\ roots' = [roots EXCEPT ![a] = IF said = "clean" THEN @ ELSE {}]
  /\ of' = [of EXCEPT ![a] = IF a \in Runs \/ said = "clean" THEN @ ELSE None]
  /\ approved' = [approved EXCEPT ![a] = [k \in Kinds |-> 0]]
  /\ known' = [known EXCEPT ![a] = {}]
  /\ left' = [left EXCEPT ![a] = {}]
  /\ cur' = [r \in Runs |-> IF r = a THEN None ELSE cur[r]]
  /\ unsure' = [r \in Runs |-> unsure[r] /\ r # a]
  /\ LET forgets(r) == r = a /\ pc[r] # "linked"
     IN /\ credited' = [r \in Runs |-> IF forgets(r) THEN {} ELSE credited[r]]
        /\ failed' = [r \in Runs |-> failed[r] /\ ~forgets(r)]

\* A death or an expired cleanup.
Die(a) ==
  /\ pc[a] \notin {"idle", "over"}
  /\ faults < MaxFaults
  /\ faults' = faults + 1
  /\ \/ End(a, "none")
     \/ pc[a] \in Cleaning /\ End(a, "incomplete")
  /\ UNCHANGED <<cluster, store>>

-------------------------------------------------------------------------------
(***************************************************************************)
(* An evaluation.                                                          *)
(***************************************************************************)

\* Any error in placement or execution: the run is stopped and goes on to its cleanup.
Fail(r) ==
  /\ failed' = [failed EXCEPT ![r] = TRUE]
  /\ credited' = [credited EXCEPT ![r] = {}]
  /\ left' = [left EXCEPT ![r] = roots[r]]
  /\ cur' = [cur EXCEPT ![r] = None]
  /\ Go(r, "survey")
  /\ requests' = Abandoned(r)
  /\ reply' = [reply EXCEPT ![r] = "none"]

\* Mutant: the capacity is not checked before the run.
OpenFull(r) ==
  /\ pc[r] = "idle"
  /\ lock = None
  /\ lock' = r
  /\ Go(r, "admit")
  /\ UNCHANGED <<cluster, requests, store, execution, cleanup, reply, report, faults>>

\* The store is opened under its lock and a sequence number is reserved.
Open(r) ==
  /\ pc[r] = "idle"
  /\ lock = None
  /\ Len(store) < MaxRecords
  /\ lock' = r
  /\ Go(r, "admit")
  /\ UNCHANGED <<cluster, requests, store, execution, cleanup, reply, report, faults>>

Refuse(r) ==
  /\ pc[r] = "idle"
  /\ lock # None \/ Len(store) >= MaxRecords
  /\ Go(r, "over")
  /\ UNCHANGED <<cluster, requests, evidence, execution, cleanup, reply, report, faults>>

\* Both names of the pair are free, and the server admits both documents.
Admit(r) ==
  /\ pc[r] = "admit"
  /\ object[r]["Provider"] = None /\ object[r]["Agent"] = None
  /\ cur' = [cur EXCEPT ![r] = "Provider"]
  /\ Go(r, "create")
  /\ UNCHANGED <<cluster, requests, evidence, unsure, credited, failed, cleanup, reply, report, faults>>

\* The intent is noted before the one CREATE; a Task is created for the verified pair only.
SendCreate(r) ==
  /\ pc[r] = "create"
  /\ object[r][cur[r]] = None
  /\ cur[r] \in Tasks => PairIntact(r)
  /\ unsure' = [unsure EXCEPT ![r] = TRUE]
  /\ Send(r, "create", r, cur[r])
  /\ Go(r, "creating")
  /\ UNCHANGED <<cluster, evidence, cur, credited, failed, cleanup, report, faults>>

\* The answer carries the UID: the root is the run's from here on.
Created(r) ==
  /\ pc[r] = "creating"
  /\ reply[r] = "ok"
  /\ roots' = [roots EXCEPT ![r] = @ \cup {cur[r]}]
  /\ unsure' = [unsure EXCEPT ![r] = FALSE]
  /\ Go(r, IF cur[r] \in Tasks THEN "running" ELSE "ready")
  /\ reply' = [reply EXCEPT ![r] = "none"]
  /\ UNCHANGED <<cluster, requests, evidence, cur, credited, failed, of, approved, known, left,
                 report, faults>>

\* The kind created after k.
After(k) == CreateOrder[1 + CHOOSE i \in DOMAIN CreateOrder : CreateOrder[i] = k]

\* Ready, and read again as it was acknowledged; before the first Task the whole pair.
BecomeReady(r) ==
  /\ pc[r] = "ready"
  /\ Intact(r, cur[r])
  /\ cur[r] = "Agent" => PairIntact(r)
  /\ cur' = [cur EXCEPT ![r] = After(cur[r])]
  /\ Go(r, "create")
  /\ UNCHANGED <<cluster, requests, evidence, unsure, credited, failed, cleanup, reply, report, faults>>

CaseOf(t) == CHOOSE i \in DOMAIN Cases : \E j \in DOMAIN Cases[i].tasks : Cases[i].tasks[j] = t
TasksOf(i) == {Cases[i].tasks[j] : j \in DOMAIN Cases[i].tasks}

Enough(i, passes) == Cardinality(passes \cap TasksOf(i)) >= Cases[i].need

\* Mutant: the pair is not verified again after the answer.
VerifiedTask(r) == Intact(r, cur[r])

\* The fences around an answer: the same pair and the same Task, after the judgement.
Verified(r) == PairIntact(r) /\ Intact(r, cur[r])

\* An attributed answer counts as a pass, or as a miss where runs are repeated.
Judge(r) ==
  LET t == cur[r]
      i == CaseOf(t)
      passes == IF answer[r][t] # "bad" THEN credited[r] \cup {t} ELSE credited[r]
      last == t = Last(Cases[i].tasks)
  IN /\ pc[r] = "running"
     /\ answer[r][t] # "none"
     /\ Verified(r)
     /\ answer[r][t] = "bad" => Len(Cases[i].tasks) > 1
     /\ last => Enough(i, passes)
     /\ credited' = [credited EXCEPT ![r] = passes]
     /\ IF t = Last(TaskOrder)
        THEN Go(r, "survey") /\ left' = [left EXCEPT ![r] = roots[r]] /\ cur' = [cur EXCEPT ![r] = None]
        ELSE Go(r, "create") /\ cur' = [cur EXCEPT ![r] = After(t)] /\ UNCHANGED left
     /\ UNCHANGED <<cluster, requests, evidence, unsure, failed, of, roots, approved, known,
                    reply, report, faults>>

\* What a step requires does not hold, or cannot be read, or the run's deadline expires or
\* it is cancelled: a request it waited for may still arrive.
Stop(r) ==
  /\ pc[r] \in Executing
  /\ Fail(r)
  /\ UNCHANGED <<cluster, evidence, unsure, of, roots, approved, known, report, faults>>

\* After a complete cleanup: sources and inputs are checked, and the record is linked.
Link(r) ==
  /\ pc[r] = "proof"
  /\ store' = Append(store, r)
  /\ Go(r, "linked")
  /\ UNCHANGED <<cluster, requests, lock, execution, cleanup, reply, report, faults>>

\* Any check before the link fails: the cleanup is all the run reports.
Withhold(r) ==
  /\ pc[r] = "proof"
  /\ End(r, "clean")
  /\ UNCHANGED <<cluster, store, faults>>

\* The stage is removed and the directory flushed, or that fails.
Pass(r) ==
  /\ pc[r] = "linked"
  /\ \E said \in {"passed", "uncertain"} : End(r, said)
  /\ UNCHANGED <<cluster, store, faults>>

-------------------------------------------------------------------------------
(***************************************************************************)
(* Cleanup, by a run of its own roots and by an operator of those selected.  *)
(***************************************************************************)

Incomplete(a) == End(a, "incomplete") /\ UNCHANGED <<cluster, store, faults>>

\* Every root is read before the first effect, and the children are listed.
Survey(a) ==
  /\ pc[a] = "survey"
  /\ \A k \in roots[a] : ~Changed(a, k)
  /\ ~ChildrenUnknown(a)
  /\ known' = [known EXCEPT ![a] = Found(a)]
  /\ Go(a, IF roots[a] = {} THEN "final" ELSE "delete")
  /\ UNCHANGED <<cluster, requests, evidence, execution, of, roots, approved, left, reply, report, faults>>

\* Tasks first, the Agent, the Provider last.
NextRoot(a) ==
  DeleteOrder[CHOOSE i \in DOMAIN DeleteOrder :
                /\ DeleteOrder[i] \in left[a]
                /\ \A j \in 1 .. i - 1 : DeleteOrder[j] \notin left[a]]

\* Root k is absent.  After the last Task the children have to go, too.
Advance(a, k) ==
  /\ left' = [left EXCEPT ![a] = @ \ {k}]
  /\ Go(a, IF k \in Tasks /\ left[a] \cap Tasks = {k} THEN "quiet"
           ELSE IF left[a] = {k} THEN "final" ELSE "delete")
  /\ reply' = [reply EXCEPT ![a] = "none"]

Skip(a) ==
  /\ pc[a] = "delete"
  /\ object[of[a]][NextRoot(a)] = None
  /\ Advance(a, NextRoot(a))
  /\ UNCHANGED <<cluster, requests, evidence, execution, of, roots, approved, known, report, faults>>

\* Mutant: the specification of the root is not compared again before its DELETE.
SendDeleteUnread(a) ==
  LET k == NextRoot(a)
  IN /\ pc[a] = "delete"
     /\ Ours(of[a], k)
     /\ IF object[of[a]][k].terminating
        THEN reply' = [reply EXCEPT ![a] = "ok"] /\ UNCHANGED requests
        ELSE Send(a, "delete", of[a], k)
     /\ Go(a, "poll")
     /\ UNCHANGED <<cluster, evidence, execution, cleanup, report, faults>>

\* The root is read again; one DELETE, conditioned on UID and resourceVersion of that read.
SendDelete(a) ==
  LET k == NextRoot(a)
  IN /\ pc[a] = "delete"
     /\ Ours(of[a], k)
     /\ ~Changed(a, k)
     /\ IF object[of[a]][k].terminating
        THEN reply' = [reply EXCEPT ![a] = "ok"] /\ UNCHANGED requests
        ELSE Send(a, "delete", of[a], k)
     /\ Go(a, "poll")
     /\ UNCHANGED <<cluster, evidence, execution, cleanup, report, faults>>

\* The DELETE is accepted: poll the root by its UID; Jobs that appear meanwhile are retained.
Poll(a) ==
  LET k == NextRoot(a)
  IN /\ pc[a] = "poll"
     /\ reply[a] = "ok"
     /\ ~ChildrenUnknown(a)
     /\ known' = [known EXCEPT ![a] = Found(a)]
     /\ \/ object[of[a]][k] = None /\ Advance(a, k)
        \/ Ours(of[a], k) /\ Found(a) # known[a] /\ UNCHANGED <<pc, left, reply>>
     /\ UNCHANGED <<cluster, requests, evidence, execution, of, roots, approved, report, faults>>

\* A Task's absence is not its children's: rounds of listings, until two in a row are empty.
Quiet(a) ==
  /\ pc[a] = "quiet"
  /\ ~ChildrenUnknown(a)
  /\ known' = [known EXCEPT ![a] = Found(a)]
  /\ \/ ChildrenGone(a) /\ Go(a, IF left[a] = {} THEN "final" ELSE "delete")
     \/ ~ChildrenGone(a) /\ Found(a) # known[a] /\ UNCHANGED pc
  /\ UNCHANGED <<cluster, requests, evidence, execution, of, roots, approved, left, reply, report, faults>>

Certain(a) == a \in Runs => ~unsure[a]

\* The closure again, then every root, then what is unknown.
Clean(a) ==
  /\ pc[a] = "final"
  /\ ~ChildrenUnknown(a)
  /\ ChildrenGone(a)
  /\ \A k \in roots[a] : object[of[a]][k] = None
  /\ Certain(a)
  /\ \/ /\ a \in Runs => failed[a]
        /\ End(a, "clean")
     \/ /\ a \in Runs /\ ~failed[a]
        /\ Go(a, "proof")
        /\ UNCHANGED <<requests, lock, reply, report, execution, cleanup>>
  /\ UNCHANGED <<cluster, store, faults>>

\* What the code finds at its last read and ends over.
Refused(a) ==
  \/ pc[a] = "survey" /\ ((\E k \in roots[a] : Changed(a, k)) \/ ChildrenUnknown(a))
  \/ pc[a] = "delete" /\ Changed(a, NextRoot(a))
  \/ pc[a] = "poll" /\ reply[a] = "refused"
  \/ pc[a] = "poll" /\ reply[a] = "ok" /\ (Taken(of[a], NextRoot(a)) \/ ChildrenUnknown(a))
  \/ pc[a] = "quiet" /\ ChildrenUnknown(a)
  \/ /\ pc[a] = "final"
     /\ \/ ChildrenUnknown(a)
        \/ /\ ChildrenGone(a)
           /\ Certain(a) => \E k \in roots[a] : object[of[a]][k] # None

RefuseCleanup(a) == Refused(a) /\ Incomplete(a)

Cleanup(a) ==
  \/ Survey(a) \/ Skip(a) \/ SendDelete(a) \/ Poll(a) \/ Quiet(a) \/ Clean(a)
  \/ RefuseCleanup(a)

Run(r) ==
  \/ Open(r) \/ Refuse(r) \/ Admit(r) \/ SendCreate(r) \/ Created(r) \/ BecomeReady(r)
  \/ Judge(r) \/ Stop(r) \/ Link(r) \/ Withhold(r) \/ Pass(r) \/ Cleanup(r)

\* The roots that carry the run's marker, with their children, are frozen and shown to be
\* confirmed, which takes any time.
Discover(o, r) ==
  /\ pc[o] = "idle"
  /\ LET found == {k \in Kinds : Ours(r, k)}
         listed == found \cap jobs[r]
     IN /\ found # {}
        /\ ~Uncertain(o)
        /\ found \cap pods[r] \subseteq listed
        /\ of' = [of EXCEPT ![o] = r]
        /\ roots' = [roots EXCEPT ![o] = found]
        /\ left' = [left EXCEPT ![o] = found]
        /\ known' = [known EXCEPT ![o] = listed]
        /\ approved' = [approved EXCEPT ![o] =
             [k \in Kinds |-> IF k \in found THEN object[r][k].edits ELSE 0]]
  /\ Go(o, "survey")
  /\ report' = [report EXCEPT ![o] = "none"]
  /\ UNCHANGED <<cluster, requests, evidence, execution, reply, faults>>

-------------------------------------------------------------------------------
(***************************************************************************)
(* The cluster.                                                            *)
(***************************************************************************)

Answer(q, result) ==
  reply' = [a \in Actors |-> IF a = q.waiter THEN result ELSE reply[a]]

\* A write to an object outdates the resourceVersion of a DELETE on its way.
Outdated(r, k, rest) ==
  {IF q.verb = "delete" /\ q.run = r /\ q.kind = k THEN [q EXCEPT !.current = FALSE] ELSE q : q \in rest}

\* A Task takes its status with it.
Put(r, k, o, rest) ==
  /\ object' = [object EXCEPT ![r][k] = o]
  /\ answer' = [answer EXCEPT ![r] = [t \in Tasks |-> IF t = k /\ o = None THEN "none" ELSE @[t]]]
  /\ requests' = Outdated(r, k, rest)

Reject(q) ==
  /\ requests' = requests \ {q}
  /\ Answer(q, "refused")
  /\ UNCHANGED <<object, answer>>

CreatesObject(q) ==
  /\ q.verb = "create"
  /\ IF object[q.run][q.kind] = None
     THEN /\ Put(q.run, q.kind, [owner |-> q.run, edits |-> 0, terminating |-> FALSE], requests \ {q})
          /\ Answer(q, "ok")
     ELSE Reject(q)

\* Both conditions hold: the object goes at once, or waits for finalizers and dependents.
DeletesObject(q) ==
  /\ q.verb = "delete"
  /\ LET o == object[q.run][q.kind]
     IN IF Ours(q.run, q.kind) /\ q.current
        THEN /\ Answer(q, "ok")
             /\ \/ Put(q.run, q.kind, None, requests \ {q})
                \/ Put(q.run, q.kind, [o EXCEPT !.terminating = TRUE], requests \ {q})
        ELSE Reject(q)

Deliver(q) ==
  /\ q \in requests
  /\ CreatesObject(q) \/ DeletesObject(q)
  /\ UNCHANGED <<jobs, pods, evidence, pc, execution, cleanup, report, faults>>

Lose(q) ==
  /\ q \in requests
  /\ faults < MaxFaults
  /\ faults' = faults + 1
  /\ Reject(q)
  /\ UNCHANGED <<jobs, pods, evidence, pc, execution, cleanup, report>>

Local == <<evidence, pc, execution, cleanup, reply, report>>

Finalize(r, k) ==
  /\ Ours(r, k)
  /\ object[r][k].terminating
  /\ Put(r, k, None, requests)
  /\ UNCHANGED <<jobs, pods, Local, faults>>

\* Orka's controller starts a Task's Job, and the Job its Pod.
StartJob(r, t) ==
  /\ Ours(r, t) /\ ~object[r][t].terminating
  /\ t \notin jobs[r]
  /\ jobs' = [jobs EXCEPT ![r] = @ \cup {t}]
  /\ UNCHANGED <<object, requests, pods, answer, Local, faults>>

StartPod(r, t) ==
  /\ t \in jobs[r]
  /\ t \notin pods[r]
  /\ pods' = [pods EXCEPT ![r] = @ \cup {t}]
  /\ UNCHANGED <<object, requests, jobs, answer, Local, faults>>

\* The agent answers with the pair as it is, and the Task's status is written; once
\* the run is not executing, nobody judges the answer.
AnswerTask(r, t) ==
  /\ Ours(r, t) /\ ~object[r][t].terminating
  /\ t \in pods[r]
  /\ answer[r][t] = "none"
  /\ \E result \in {IF PairIntact(r) /\ Intact(r, t) THEN "good" ELSE "spoiled", "bad"} :
       /\ pc[r] \in Executing \/ result = "bad"
       /\ answer' = [answer EXCEPT ![r][t] = result]
  /\ requests' = Outdated(r, t, requests)
  /\ UNCHANGED <<object, jobs, pods, Local, faults>>

\* Garbage collection follows the owners, in the background.
CollectJob(r, t) ==
  /\ t \in jobs[r]
  /\ Ours(r, t) => object[r][t].terminating
  /\ jobs' = [jobs EXCEPT ![r] = @ \ {t}]
  /\ UNCHANGED <<object, requests, pods, answer, Local, faults>>

CollectPod(r, t) ==
  /\ t \in pods[r]
  /\ t \notin jobs[r]
  /\ pods' = [pods EXCEPT ![r] = @ \ {t}]
  /\ UNCHANGED <<object, requests, jobs, answer, Local, faults>>

\* Somebody takes a free name, deletes an object, writes to one, or edits its spec.
Interfere(r, k) ==
  /\ faults < MaxFaults
  /\ faults' = faults + 1
  /\ \/ /\ object[r][k] = None
        /\ Put(r, k, [owner |-> Foreign, edits |-> 0, terminating |-> FALSE], requests)
     \/ object[r][k] # None /\ Put(r, k, None, requests)
     \/ /\ object[r][k] # None
        /\ \E edit \in {0, 1} : Put(r, k, [object[r][k] EXCEPT !.edits = @ + edit], requests)
  /\ UNCHANGED <<jobs, pods, Local>>

Controllers ==
  \E r \in Runs :
    \/ \E k \in Kinds : Finalize(r, k)
    \/ \E t \in Tasks :
         StartJob(r, t) \/ StartPod(r, t) \/ AnswerTask(r, t) \/ CollectJob(r, t) \/ CollectPod(r, t)

Next ==
  \/ \E r \in Runs : Run(r)
  \/ \E o \in Operators : Cleanup(o) \/ \E r \in Runs : Discover(o, r)
  \/ \E a \in Actors : Die(a)
  \/ \E q \in requests : Deliver(q) \/ Lose(q)
  \/ Controllers
  \/ \E r \in Runs, k \in Kinds : Interfere(r, k)

Spec == Init /\ [][Next]_vars

(***************************************************************************)
(* Every wait of a run and of a cleanup ends, requests arrive, the cluster   *)
(* works, and an operator comes back for every run that left roots.          *)
(***************************************************************************)
FairSpec ==
  /\ Spec
  /\ \A r \in Runs : WF_vars(Run(r))
  /\ \A o \in Operators : WF_vars(Cleanup(o)) /\ \A r \in Runs : SF_vars(Discover(o, r))
  /\ WF_vars(\E q \in requests : Deliver(q))
  /\ WF_vars(Controllers)

-------------------------------------------------------------------------------
(***************************************************************************)
(* Properties.                                                             *)
(***************************************************************************)

\* Nothing of these kinds of run r exists.
Absent(r, kinds) ==
  /\ \A k \in kinds : ~Ours(r, k)
  /\ kinds \cap (jobs[r] \cup pods[r]) = {}

NothingLeft(r) == Absent(r, Kinds) /\ \A q \in requests : q.run = r => q.verb # "create"

Recorded(r) == r \in Range(store)

(***************************************************************************)
(* A pass is attributed: the answer that counts was given by the pair and    *)
(* the Task of this run, exactly as they were acknowledged, whoever edited,   *)
(* replaced or deleted them before the answer or since.  A record in the      *)
(* evidence store is earned: the run did not fail, every case has its passes,  *)
(* and no object, child or CREATE on its way is left of it.                 *)
(***************************************************************************)
PassIsAttributed ==
  \A r \in Runs :
    /\ \A t \in credited[r] : answer[r][t] = "good" \/ (answer[r][t] = "none" /\ ~Ours(r, t))
    /\ Recorded(r) =>
         ~failed[r] /\ NothingLeft(r) /\ \A i \in DOMAIN Cases : Enough(i, credited[r])

(***************************************************************************)
(* A cleanup that reports completeness left nothing: of a run, no object,     *)
(* child or CREATE on its way, whatever of its requests was lost or is late;   *)
(* of an operator's selection, neither roots nor children.  What a run says    *)
(* of its record is what the store holds.                                  *)
(***************************************************************************)
ProofMeansClean ==
  /\ \A r \in Runs :
       /\ Recorded(r) \/ report[r] = "clean" => NothingLeft(r)
       /\ report[r] \in {"passed", "uncertain"} => Recorded(r)
       /\ report[r] \in {"clean", "incomplete"} => ~Recorded(r)
  /\ \A o \in Operators : report[o] = "clean" => Absent(of[o], roots[o])

(***************************************************************************)
(* A DELETE of kmx, however late, takes effect only on an object of the run   *)
(* it was sent for, with the spec that was acknowledged to that run or shown   *)
(* to the operator who confirmed it.                                       *)
(***************************************************************************)
CleanupDeletesItsOwn ==
  [][\A q \in requests :
       (q \notin requests' /\ q.verb = "delete" /\ object'[q.run][q.kind] # object[q.run][q.kind])
         => Ours(q.run, q.kind) /\ object[q.run][q.kind].edits = q.approved]_vars

(***************************************************************************)
(* Whatever a run leaves, by dying, by a lost answer or by a cleanup that     *)
(* gave up, the operator's cleanup removes in the end, unless somebody else    *)
(* occupies an evaluation's name, which makes every inventory uncertain.      *)
(***************************************************************************)
Occupied == \E r \in Runs, k \in Kinds : Taken(r, k)

LeftoversAreReclaimed == \A r \in Runs : []<>(Absent(r, Kinds) \/ Occupied)
===============================================================================
