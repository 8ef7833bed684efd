# Kaimahi in TLA+

Kaimahi is the command `kmx`. It packages agents, evaluates a package on a
cluster, publishes it, and deploys it. This directory holds TLA+ models of the
parts of `kmx` that carry state across processes, hosts and failures, the TLC
configurations that check them on small instances, and proofs that TLAPS checks
for every instance.

The present state, part by part:

| Part | Section | Modelled | Proved |
| --- | --- | --- | --- |
| release protocol: `kmx package deploy` and `--update` of a native Orka suite member | 2 | yes | its safety properties and its refinement |
| retained package store: a library of private packages on one host | 3 | yes | its safety properties and its refinement |
| model connection: `kmx cluster orka model connect` and `disconnect` | 4 | yes | its safety properties and its refinement |
| suite evaluation: `kmx package test` on Orka, its evidence and its cleanup | 5 | yes, for Orka | all its safety properties |
| pair publication: saving an agent and its tests, from the MCP server and after a run | 6 | yes | all its properties |

The other parts are inventoried below.

    tlc -workers 2 -config race.cfg MCReleaseLift.tla
    tlc -workers 2 -config store.cfg MCRetainedStore.tla
    tlc -workers 2 -config connection.cfg MCModelConnection.tla
    tlc -workers 2 -config candidate.cfg MCSuiteCandidate.tla
    tlc -workers 2 -config pairs.cfg MCPairPublication.tla
    tlapm ReleaseRecord_proofs.tla
    tlapm ReleaseLift_proofs.tla
    tlapm ReleaseLiftOutcome_proofs.tla
    tlapm ReleaseLiftRecord_proofs.tla
    tlapm RetainedStore_proofs.tla
    tlapm ModelConnection_proofs.tla
    tlapm SuiteCandidate_proofs.tla
    tlapm PairPublication_proofs.tla

## 1. The system

The life of a package is `package create`, `package test` (evaluate), `push`,
`deploy`. There is no daemon: every command is a process that reads files, talks to an API
server through `kubectl` and leaves its results in files and cluster objects.
Consequently the shared state is outside the process, nothing is ever rolled back
by somebody else, and the hard questions are what a second process may conclude
from what a first one left behind.

| Component | State | Operations | What is hard | What makes it correct |
| --- | --- | --- | --- | --- |
| Shared release record (`app/release_state.go`, `release_create_state.go`) | one ConfigMap per suite member: origin, reservation, baseline, pending and past revisions | create, compare-and-swap write, decode | two hosts, lost responses, 64 KiB, ten completed revisions | one holder, no takeover, always readable and always releasable |
| Release apply and update (`release_lift*.go`, `release_update*.go`) | the plan, the acknowledged identities, the outcomes of one run | plan, confirm, reserve, write two objects, wait, finish, finalize | every write may time out and land later; every step may be the last | no object write without the reservation, honest outcomes, the record describes the pair |
| Private lift records (`release_lift_record.go`, `release_ownership.go`) | five files per attempt and a commit marker, one lock per host | open slots, checkpoint, publish a candidate, link its marker, read ownership | visible is not committed; a marker may be lost | an acknowledgment speaks only of what the record took over |
| Planning and gates (`release_lift.go`, `release_lift_gate.go`, `release_dependencies.go`) | none | read-only inspections | stale reads | decisions are re-proved before effects |
| Retained package store (`retained_package_*.go`) | entry directories with `control`, `ready`, `released`, `use.lock`, and `family.lock` | allocate, prepare, use, release, reclaim, recover | a crash between any two file operations; readers during a reclaim | no entry in use is removed, no entry is unrecoverable |
| Private files (`fileaccess/`) | stages and links | publish, lock, remove | torn publications | all or nothing, once |
| Suite evaluation and candidates (`suite_*evaluate.go`, `suite_candidate_*.go`) | temporary objects, tasks, authorities to clean up | place, run, judge, clean up | lost create responses, partial cleanup | cleanup by UID removes only its own, and eventually all |
| Evaluation evidence (`suite_pass*.go`, `suite_failure_store.go`) | receipts, bounded failure store | reserve, commit, export | crash between reserve and commit | a receipt exists only for a finished passing run |
| Workspace lift (`suite_workspace_lift*.go`) | the stages of one composed deploy | evaluate, publish, lift | skipping a stage on stale evidence | every skipped stage was proved for these bytes |
| Orka model connection (`orka_model_*.go`) | a private checkpointed record, gateway objects | connect, disconnect, clean up | crash between checkpoint and effect | everything created is recorded, only that is deleted |
| MCP authoring server (`mcp/`) | an agent's two source files, their locks, the retained history | create, edit, capture, restore, record | two renames are no transaction; locks follow inodes; several kmx processes and editors | no save lost, no pair of different minds, exact reports |
| Local preview, tools, model access (`localpreview/`, `localtools/`, `modelaccess/`) | journals, child processes, tokens | run, record, call | cancellation | no lost or duplicated call |
| Package format, runtimes, cluster tooling, terminal interfaces | content-addressed files, or none | build, push, render, drive external programs, display | bounded input and output | mostly pure; left to unit tests |

The components meet in four places. A deploy reads the passing receipts that an
evaluation committed, and the objects that an evaluation left at the destination.
A deploy and all later updates meet in the release record. An update starts from
the private records of earlier attempts, which may have been copied from another
host. And two savers of one agent, in any two processes, meet in its two files.
The retained package store stands apart: no command uses it yet. So does the model
connection, which has a cluster's gateway names to itself.
`PROJECT.json` lists every component with its sources, and every hazard at
its line.

## 2. The release protocol

A suite member is placed as a *pair*, a Provider and an Agent. The pair is guarded
by a ConfigMap, the *release record*, and every run of the command is an *attempt*
with an ID of its own. A first deploy of an absent pair creates the record with
itself as the pending operation, creates the two objects, credits each to the
record once it is acknowledged, and gives the record back with one completed
revision. An update reserves the record with one compare-and-swap, patches the
objects, and gives the record back with a completed or partial revision, or, when
it sent no patch at all, with exactly the data it found. Only then it
*acknowledges* in its private directory: `4.json`, and as the commit point the
link `committed.json`. The next update requires the acknowledgments of the origin
and of the last revision.

Two further forms of deploy write no record. When evaluation left one of the two
objects behind, the attempt only adds the other (`mixed`). When it left both, the
attempt only verifies them (`reuse`).

### Modules

| Module | Content |
| --- | --- |
| `ReleaseReservation` | the abstract specification: who holds the record, who wrote the objects |
| `ReleaseRecord` | the data of the record as pure operators: validity, retention, size, and each state an attempt writes into it |
| `ReleaseLift` | the protocol: server, attempts, private directories, environment; and all properties |
| `MCReleaseLift` | small instances for TLC |
| `ReleaseRecord_proofs` | lemmas and two theorems about the record's operators |
| `ReleaseLift_proofs` | the inductive invariant of the reservation and its theorems |
| `ReleaseLiftOutcome_proofs` | the refinement; what an attempt reports of the objects and acknowledges |
| `ReleaseLiftRecord_proofs` | what the record says and has room for, and what is reported of it |

### How the state corresponds to the code

| Variable | Code |
| --- | --- |
| `record` | the ConfigMap as `decodeReleaseState` sees it: UID, version, `releaseState` |
| `live` | the Provider and Agent at the API server |
| `pc`, `row` | the point of execution in `ApplyReleaseLift` or `applyReleaseUpdate`; the index of the write loop |
| `mode` | what planning found: the actions of the two resources, `p.update`, `p.noop` |
| `before`, `seen` | `p.before`; `shared` respectively `cursor` |
| `proof` | `created` respectively `objects` |
| `outcome`, `result`, `observed` | `row.Outcome`, `result.State`, `result.ReleaseRecord.State` |
| `known` | `known` in the update's finalizer, after its proof |
| `sent`, `late` | the request whose answer is awaited; requests that nobody waits for |
| `slots`, `candidate`, `committed` | `w.next`; `4.json`; `committed.json` |

The locations follow the functions in order: `planned` (reviewed, before the
guard), `confirmed` (guarded and preflighted), `prepared` (the private directory
is open and the store lock is held), `reserving`, then per row `checking`,
`writing`, `recording`, `crediting`, `waiting`, then `finishing`; the finalizer is
`settling` (an update re-proves), `persisting` (final snapshot), `releasing`,
`acking` (publish `4.json`), `linking` (link the marker).

### Actions

* **Planning**: `PlanLift` is `PrepareReleaseLift`, `PlanUpdate` is
  `prepareReleaseUpdate` with everything it inspects. `Confirm` covers the guard
  prompt, the rechecks around it and the preflights. `VerifyNoop` is the branch of
  an update with nothing to do. `Prepare` takes the lock and opens the slots.
  `Refuse` is any refusal before that.
* **Writing**: `Reserve` rechecks and sends the reservation (or, for `mixed`, goes
  straight to the loop). `CheckRow` rechecks and sends the one write of a row with
  its outcome already `unknown`. `Checkpoint` publishes the next snapshot and
  credits the object to the record. `BecomeReady` ends a wait. `Finish` is the
  final verification. `RefusePrepared`, `CheckpointFails` and `LoopFails` are the
  error exits.
* **Finalizing**: `Settle` and `SettleFails`, `Persist` and `PersistFails`,
  `PublishCandidate`, `Commit` and `AcknowledgeFails`.
* **Answers**: `Answer` serves the awaited request and tells the attempt; `GiveUp`
  is the deadline or the lost response, after which `DeliverLate` may still serve
  the request; `OnAccept` and `OnError` say what the attempt does at each waiting
  location. `Crash` may happen wherever an attempt has planned and not stopped.
* **Environment**: `StatusUpdate`, `Interfere`, `LoseMarker`, and `TearDown`, the
  operator recovery that the documentation describes, which requires that every
  writer and every write has stopped.

### What is abstracted

* A digest is the thing it identifies. A fingerprint keeps UID, generation, spec
  and the attempt whose markers the object carries. Model, inference binding,
  target and dependencies are fixed for a member; that they differ is one of the
  reasons for which a step may fail.
* The reads of one recheck are one step, and rechecks with no effect between them
  are one. Each write is nevertheless tested by the server when it arrives, so the
  window between the last read and the write is there.
* An answer travels instantly once the request is served; its loss is a request
  that is given up and delivered late. An admission controller that mutates the
  spec after the dry run, and a response that does not decode, are lost responses.
* Cancellation of the context ends at the error exits. A generic write error and a
  time-out are one thing for the code, and so for the model.
* `releaseCreateProof` fails only for a reply that contradicts an earlier one; the
  failure leaves the same state as `PersistFails` and is not a step of its own.
* Snapshots `1.json` to `3.json` are only counted: no code decides from them.
* The byte limit counts fingerprints: one unit for a fingerprint without UID and
  generation, one more when it has them.
* Nobody edits or deletes the ConfigMap outside the documented recovery.
* Other runtimes (kagent, AgentSessions) keep no shared record and are left out.

## 3. The retained package store

A retained package is a directory `pkg-H` for a random handle H. It holds the
package (`build`, `layout`), the binding that makes it the store's
(`control.json`), its completion (`ready.json`), its revocation
(`released.json`), and `use.lock`. Each JSON file is *published*: written to a
stage of its own name, linked, unstaged and flushed. `PrepareRetainedFile` makes
an entry, `OpenVerifiedUse` borrows it exclusively, `Release` revokes and removes
it, and `Cleanup` does the same to what is incomplete or revoked already.

The locks are `flock`s, so they vanish with their process. `use.lock` excludes
borrowers and reclaims from each other, but it is a file of the entry that it
protects, so it appears late and goes early. `family.lock` covers both ends.

### Modules

| Module | Content |
| --- | --- |
| `PackageLifecycle` | the abstract specification: the life of a handle, every operation atomic |
| `RetainedStore` | the store: files, locks, processes, failures; and its properties |
| `RetainedStore_proofs` | its theorems and the refinement, see section 8 |
| `MCRetainedStore` | small instances for TLC |

### How the state and the actions correspond to the code

| Variable | Code |
| --- | --- |
| `dirs`, `names` | the directories `pkg-H` and the files in them, by name |
| `dirsOnDisk`, `onDisk` | what the disk may hold of these directories if power is lost now |
| `torn` | stages whose bytes are not complete |
| `tree`, `unflushed` | `build` and `layout` together; whether their bytes were flushed |
| `family`, `lock` | the holders of the two kinds of lock |
| `pc`, `op`, `arg`, `pub`, `then` | where a process is, in which operation, on which handle, publishing which file, and what follows a flush |

* **Publication** (`publishPrivate`): `CreateStage`, `WriteStage`, `LinkStage`,
  `RemoveStage`, `Sync`.
* **Prepare**: `OpenStore`, `Allocate` (the directory, under the family lock),
  publication of `control.json`, `CreateUseLock`, `LockNew`, `Own` (the family lock
  is given back), `Build`, `retainedFinalize`, `Flush` (verify and flush), the
  publication of `ready.json`, `Acknowledge`.
* **Use**: `Open`, `LockEntry`, `CheckEntry`, `Verify`, `Close`.
* **Reclaim**: `Decide`, `RetireStage`, `Revoke`, `Inventory` and `InventoryRaw`,
  `RemoveData`, `RemoveTree`, `Finish` (take the family lock), then `Strip` once per
  file, `RemoveEntry`, `SyncStore`.
* **Terminal cleanup**, when `use.lock` is missing: `OpenMissing`, `Recover` or
  `Decline` (`recoverInitialization`), `Mark`, then the same `Strip`, `RemoveEntry`,
  `SyncStore`.
* **Failures**: `Refuse` is an early return of the code's own. `Stop` is every
  other end of an operation at any place but a borrower's: an error, a
  cancellation, a kill. `StopPublishing` and `StopLocking` are the ends at which the
  code removes what it just created. `PowerLoss` ends all processes and takes each
  directory back to one of the states it has had since it was last flushed.

### What is abstracted

* The package is one value: absent, being written (`raw`, with modes that the
  inventory may refuse), whole and private, or cut. The verification against the
  compiler's fingerprint is that it is whole. Its files are removed and flushed one
  by one; the model has one intermediate state.
* A changed source, a foreign object in the entry, a limit of bytes or depth and a
  wrong owner are reasons to `Stop`. Identities never differ: nobody replaces an
  entry or a file by another.
* A directory loses its last changes in the order in which they were made, as on a
  journalled file system. Were they lost in any order, a power loss could keep
  `released.json` and lose a `use.lock` that was created before it and not flushed
  yet, and the entry would be one that nobody finishes.
* A handle is drawn once: it is a random number of 128 bits.
* `familyLock` waits up to a second: the wait is the guard of the step, giving up is
  `Stop`. `use.lock` is not waited for, as in the code.
* The three stages are retired in any order. The flush of the bytes of a new lock
  file is not a step: the file is empty.
* `Inspect` and `List` change nothing and take no lock; they are left out. So is
  Windows, where the store refuses to work.

## 4. The model connection

`connect` creates the fixed objects of a gateway one by one and waits until it
serves; `disconnect` deletes them one by one and proves that the gateway's process
has stopped. Both hold one lock and work on one private record: `connection.json`,
the *anchor*, names a connection, and the connection's *family* is a chain of
checkpoints, each published before the effect that it describes.

| Module | Content |
| --- | --- |
| `ModelLease` | the abstract specification: one connection at a time has the names, and keeps them until nothing of it is left |
| `ModelConnection` | record, runs, API server, controllers and interference |
| `MCModelConnection` | a gateway and the Secret that it mounts |

| Variable | Code |
| --- | --- |
| `object`, `replicas`, `pod` | the fixed names at the API server; ReplicaSet and Pods of the gateway, a Pod with what the API lists and what runs |
| `requests` | CREATEs and conditional DELETEs that are under way |
| `lock`, `anchor`, `family` | the record's lock, `connection.json`, the last checkpoint of each connection |
| `pc`, `conn`, `work`, `seen`, `kids`, `stopped` | where a run is, on which connection and kind, the children it listed and waits for, whether it knows that the gateway has stopped |
| `asked`, `reply`, `report` | the request a run waits for, its answer; what the last run claimed |

**Connect** is `OpenFresh` or `OpenRetained`, `CheckAbsent`, `MakeFamily`,
`PublishAnchor`, `PublishZero`; per kind `RecordCreate`, `SendCreate`,
`RecordCreated`; then `FindServing`, `RecheckServing`, `RecordReady`.
**Disconnect** is `OpenAnchored`, `BeginDisconnect` or `BeginUnpending`,
`SurveyRoots`; per root `PickRoot`, `RecordDelete`, `RereadRoot`, `SendDelete`,
`AwaitDeleted`, `InspectClosure`, `InspectProcesses`, `RetireRoot`; then
`CompleteFamily`, `RemoveAnchor`. `Abort` is a run that ends anywhere: it dies,
times out, or cannot publish a checkpoint. `Deliver` and `Lose` are requests that
arrive at any later time, or never. The controllers replicate, run, collect and
finalize; `ForceRemove` takes a Pod from the API and leaves its process. One
assumption about the cluster is in `Run`: the kubelet starts the containers of Pods
that the API lists, and of no others. A Pod that was removed by force before it ran
must never start; the code has no way to see one that does, and `StoppedMeansStopped`
rests on it.

Abstracted: the chain is its last checkpoint, because the code reads all of it and
keeps the last. The comparison of a live object with the one intended is
`Intact`, over UID and edits. Mounts, the credential, the choice of a model and the
health probe are reasons for which a step fails. The Namespace and the Orka
installation stay.

Two observations, which the properties state as exceptions:

* `readModelObject` rejects a root that is terminating and whose generation its own
  foreground DELETE has advanced. So a disconnect that returns while the gateway
  terminates has to be asked again; the evaluation's cleanup tolerates that one
  step of the generation.
* A crash during the first checkpoint leaves an anchor without a record. Neither
  command proceeds from there, by intention; `Recoverable` asks for `saved`.

## 5. Suite evaluation

`kmx package test` on Orka places a temporary Provider and Agent under names
derived from the run, executes one fresh Task per declared run, judges the answers,
deletes what it created, proves that nothing is left, and only then records the
pass in the workspace's evidence store. What a run knows to be its own it knows
from the answers to its CREATEs, in memory. What a dead run left is found by its
marker and deleted by an operator (`kmx package test cleanup`).

| Module | Content |
| --- | --- |
| `SuiteCandidate` | runs, operators, store, API server, controllers and interference |
| `SuiteCandidate_proofs` | its theorems, see section 8 |
| `MCSuiteCandidate` | a suite of one repeated case, a suite of one Task; two evaluations alike |

| Variable | Code |
| --- | --- |
| `object`, `jobs`, `pods`, `answer` | a run's roots; the children of its Tasks; what the agent answered, and whether from the pair as it was placed |
| `requests`, `reply` | as in section 4 |
| `lock`, `store` | `suitePassStore`: its lock and the runs of its records |
| `pc`, `cur`, `roots`, `unsure` | where an actor is; the root being created, those acknowledged, and whether one was intended and not acknowledged |
| `credited`, `failed` | the Tasks that count as passes; whether the evaluation ended in an error |
| `of`, `approved`, `known`, `left` | an actor's cleanup: whose roots, which version it may delete, which children it has to see gone |

**Run** is `Open` (lock the store, reserve room), `Admit`; `SendCreate`, `Created`
and `BecomeReady` per root; `Judge` per Task, with `Verified` the fences before
and after the answer, or `Stop`; then the cleanup, and `Link` and `Pass` or
`Withhold`. **Cleanup**, of a run or of an operator, is `Survey`, per root `Skip` or
`SendDelete` and `Poll`, then `Quiet` and `Clean`, or `RefuseCleanup`.
`Discover` is the operator's inventory together with the confirmation. `Die` ends
any actor.

Abstracted:

* Listing the children of a root is one snapshot, and the two quiet rounds are one.
  A Pod counts as its Task's because of the label the code looks for; the ConfigMap
  of a Task goes with its Job. After a Task is absent no Job is made for it.
* A read and the request that it conditions are one step: the request is decided
  when it arrives. The operator's confirmation takes as long as the step after it
  is delayed.
* A refused CREATE is as unknown as a lost one; so it is in the code.
* The public metadata and the store of failures decide nothing about a pass.
* Runs share nothing but the store and its lock. Those before are records in it.
* Once a run is not executing, nobody judges an answer, and all answers are alike.
  An operator whose cleanup gave up is as one who has not begun.
* Candidates of Flow, AgentSessions and kagent are not modelled, nor is the lift of a
  workspace that follows a pass.

One observation, an exception of `LeftoversAreReclaimed`: an object of somebody else
under any evaluation's name makes the operator's inventory uncertain, and with
it every cleanup.

## 6. Pair publication

An agent is one file or two: its definition and its tests. The MCP server's pair
operations and `PublishSourcePair` save both; a recording after a run and the
server's single-file edit replace one of the two and rely on the other. Nothing
else orders these processes but `flock` on the files themselves, and an editor
outside takes none.

A save *holds* what it read by open descriptors, locks the inodes it holds, and
then looks again at both names before each rename. It renames staged bytes over one
name, then over the other. A lock follows its inode. As soon as a name is replaced,
it is the lock of a file without a name; whoever waits with that file finds the name
taken by another.

| Module | Content |
| --- | --- |
| `PairPublication` | the two names, the savers, an editor outside |
| `PairPublication_proofs` | the inductive invariant and the theorems |
| `MCPairPublication` | three savers |

| Variable | Code |
| --- | --- |
| `file` | what each name holds: an inode and its bytes, or nothing |
| `held`, `wanted`, `alone` | `b.agent` and `b.tests`, or their held absence; the bytes to publish; whether the save is of one file |
| `pc` | where the save is: before the locks, looking at one of the two names, about to rename, rereading what it renamed |
| `locks` | the inodes it has locked |
| `ack` | `sourcePairPublicationResult`: unchanged, not written, written or unknown, per name |
| `put`, `whole`, `meddled`, `untested` | history: what was replaced by whom, whose pair has been on disk, what changed from outside, whether there has been a moment without tests |

| Action | Code |
| --- | --- |
| `EditPair`, `SaveAlone` | `hold` for a pair, respectively for a recording or single-file edit |
| `Lock` | `lockTarget` for each held file, in the order of paths, and the first look at the agent |
| `Verify` | `checkPublishing`, `check`: one name at a time |
| `Put` | one `Rename`, exclusive rename or `Remove`, and what follows from its success |
| `PutRefused`, `PutFails` | the name is taken, respectively an error after which the effect may be there or not |
| `Reread` | `readTarget` and `SameFile` on the published name |
| `Refuse`, `Crash` | an error before the next rename; the end of the process |
| `Meddle` | an editor outside |

Abstracted:

* Inodes and bytes are named by who made them, so that nobody makes the same bytes
  twice. A save's own two files are told apart by their names.
* Nobody waits for a lock (`LOCK_NB`, and a busy file is a refusal), so taking two
  at once, and the first look with them, loses no interleaving with an effect in it.
  `hold` is one step for the same reason: whatever it read is looked at again.
* Looks with no effect between them are one. Staging, new directories, the checks of
  ancestors and times, validation and cancellation end in `Refuse`.
* The history of versions is kept beside the files and authorizes nothing.
* On file systems without exclusive rename and hard links, the code copies; readers
  may then see an incomplete file, as its comment says. That fallback is left out.

What holds, and what does not:

* `PairsDoNotMix` needs tests from the beginning: the lock of the tests is what
  excludes two savers from each other. Without tests there is nothing to lock
  under that name. A recorder that looked at an agent without tests while a creator of
  tests is between its two renames replaces the agent beside the new tests.
* A pair editor that is told `complete` of an agent *without* tests knows that each
  name was right when it was looked at last, and not that both were at one moment:
  the tests may have come and gone in between.
* An editor outside can be overwritten between the last look and the rename. No
  check can exclude that; it is the exception in `NoLostUpdate`. Onto an empty name
  the rename is exclusive and there is no exception.

## 7. What is checked

All runs have the crashes, losses and late deliveries of their model enabled,
except that the run `capacity` has no power losses. They turn deadlock checking
off, except for `connection`: an attempt or a save that is done stays done, and a
store whose handles are all drawn may be empty and idle.

### The release protocol

| Run | Instance | Distinct states | Question |
| --- | --- | --- | --- |
| `race` | two first deploys and an update, three hosts, any evaluated pair | 89,000 | Is every object write under the reservation? Is the report honest? Is the abstract reservation implemented? |
| `history` | a deploy and three updates on one host, one completed revision retained, 23 units, status churn up to version 3 | 1,370,000 | Is the record readable and releasable as it fills up? Does a release restore or add exactly one revision? Do the slots suffice on every path? |
| `acknowledged` | a deploy and two updates, three hosts, any evaluated pair, one foreign step, fair | 224,000 | What may an update start from? Does an unknown effect block for ever? Who may end a reservation, and is any left behind silently? |

The properties, each stated at its definition in `ReleaseLift`:

* `TypeOK`.
* `WriteUnderReservation`: an object request, in time or late, never meets a record
  that is not reserved by its sender.
* `UnknownBlocks`: while an effect is unknown, the record stays reserved.
* `FreeRecordDescribesPair`: a free record describes the live pair exactly.
* `AcknowledgedIsRecorded`, `SuccessIsAcknowledged`,
  `UpdatesFollowAcknowledgment`: the private acknowledgment, the shared record and
  the result agree, across a boundary that no transaction spans.
* `ReportIsHonest`: no report is contradicted later. "Not attempted" and "not applied"
  are said of what was not and will not be written (`EffectReportIsTrue`); "pending" is
  said only of a record that stays reserved until it is torn down, and an attempt that
  claims no reservation has none and gets none from a late request
  (`RecordReportIsTrue`).
* `RecordStaysReadable`, `ReleaseFits`, `SlotsSuffice`: the bounded resources are
  reserved before the first effect, on every path.
* `NoTakeover`, `ReleaseIsRestoreOrRevision`: how a reservation may end.
* `ReservationIsAccountedFor`: every reservation is given back, or its holder is
  dead, or its report says so.
* `ImplementsReservation`: the refinement, with `holder` read from the record,
  `author` from the objects, and `completers` the attempts that found half a pair.

**Bounds.** Three attempts give every pair of roles a third party: two first
deploys and the update that follows the winner, or an update between two others.
Four are needed to make a completed revision roll off behind a partial one with
`MaxCompleted = 1`; 23 units let two updates pass and turn a third one away.
`MaxChurn` bounds only status updates, so that a version can pass between a plan,
its recheck and its write. One foreign step is enough to disturb any single proof;
`MaxForeign = 0` keeps the other two small, which do not ask about it. There is no
symmetry, because the attempts carry different packages.

**Fairness.** `FairSpec` asks that an attempt whose directory is open eventually
takes some step. The code justifies it: every request has a time limit of 10
seconds and every call one of 15 (`orkaCaptureInto`), readiness waits end, the
finalizer runs under a 5-second context detached from cancellation, and locks are
not waited for. Nothing is assumed of the server: `GiveUp` is always possible.
Planning and the confirmation prompt are not fair.

### The retained package store

| Run | Instance | Distinct states | Question |
| --- | --- | --- | --- |
| `store` | one entry, three processes, power losses | 601,000 | Is a completed package complete, is a returned one kept, is a borrower undisturbed, is a revocation finishable? Is the lifecycle implemented? |
| `capacity` | two entries, two processes, a store for one | 83,000 | May a store overflow? Is a completed package complete whatever a release leaves? |
| `reclaimed` | one entry, two processes, power losses, fair | 308,000 | Does repeated Cleanup end with nothing to clean up? |
| `stage`, `preempted` | one entry, one or two processes | | The two disagreements below. |

The properties are defined in `RetainedStore`:

* `TypeOK`.
* `ReadyIsComplete`: completion without revocation stands beside all of the
  package, whatever failed. The one exception, `resumed`, needs three steps: a release is
  interrupted between the link of `released.json` and its flush; a second reclaim of
  the package finds that file and goes on, and `reclaim` does not flush a revocation
  that it finds; a power loss takes the revocation back after files have gone.
  `Cleanup` then refuses the entry, and `Release` removes it. A package that was
  merely released is not excepted, and without power losses (`capacity`) nothing is.
* `AcknowledgedIsKept`: what Prepare returned can be borrowed until Release is
  called.
* `BorrowedIsUndisturbed`: a borrower is alone with its package, and the package is
  whole. That is what must not follow from the case above: the completed package that
  came back with files missing is never lent, because `Open` compares the files with
  what the completion records. The mutant `VerifiedByRecord`, which does not, is
  refuted by exactly that history.
* `NoUnmarkedLock`, `RevokedIsFinishable`: the two sentences in the code about what
  a crash may leave.
* `WithinCapacity`: the number of entries. With power losses it is not a promise: a
  removal that was not flushed may be undone.
* `RestIsReclaimed`: after the last failure and the last new operation, repeated
  `Cleanup` leaves completed packages and *stranded* entries only. Stranded are a
  package that was interrupted before `retainedFinalize`, because the modes the
  compiler leaves need not pass the inventory, and the two cases below.
* `ImplementsLifecycle`: the refinement. `lent` is who is at `using`, and the phase
  is read from the files; a revocation counts from its link, and has *ended* when
  the disk has it. It is a statement of safety only.

`AcknowledgedIsKept`, `RevokedIsFinishable` and `RestIsReclaimed` except entries
in `preempted`: somebody took `use.lock` after it was created and before Prepare
locked it. That moment belongs to the family lock, which a reclaim does not take
before its end. A reclaim that comes and goes in it revokes an entry which Prepare
then completes and returns.

**Bounds.** One entry suffices for what happens within an entry, because the
operations on two entries share only the family lock and the directory above.
Three processes are a creator, a reclaim and a borrower, or two reclaims and a third
that finds what they left. Handles and processes are symmetric: no action and no
safety property names one. `capacity` needs a second handle, and leaves out power
losses, so that the variables about the disk and the history decide nothing there;
its `VIEW` drops them and keeps `used`. `reclaimed` uses no symmetry, being about
liveness.

**Fairness.** `FairSpec` has a running process take its next step; each is bounded
by the code (system calls, and one second for a lock). A borrower gives the package
back. Somebody repeats Cleanup on every entry that exists: strongly fair, since
between two attempts the guard may not hold. The property's premise is that
failures, power losses and new operations other than Cleanup cease. `InventoryRaw`
is not fair: unfinished bytes may or may not pass.

### The model connection

| Run | Instance | Distinct states | Question |
| --- | --- | --- | --- |
| `connection` | two connects, two disconnect operations, two roots, one Pod, two faults, fair | 479,000 | All of the properties below. |

* `TypeOK`.
* `EffectsAreRecorded`: what was created, and every CREATE that may still arrive, is
  in the record that the next run opens.
* `StoppedMeansStopped`: a report that the gateway has stopped stays right, given
  that the kubelet starts no Pod that has left the API (section 4).
* `DeletionIsAuthorized`: a DELETE, however late, takes effect only on what the
  record holds, unedited, while that deletion is the pending action.
* `IsALease`: the refinement. The holder is the connection whose record is
  unfinished; its traces are objects, children, processes and CREATEs under way.
* `RecoverableIsReleased`: asking again ends with everything deleted, except where the
  code says that it will not: an unresolved CREATE, an edited or replaced root, a
  gateway that is gone without a proof of its closure.

**Bounds.** Two connections are a first one and its successor, two operations of
disconnect are one and a later one over what it left; each may be run any number of
times. Two faults put a lost answer beside a death, or a late DELETE beside an edit.
A Secret and a Deployment are all that the order of roots distinguishes: one has
children and processes. The Pod's name may be used again after it is gone.

**Fairness.** A run that has started goes on: its requests and waits have limits. The
operator repeats the disconnect. Requests that are not lost arrive, and the
controllers, including garbage collection and kubelet, do their work.

### Suite evaluation

| Run | Instance | Distinct states | Question |
| --- | --- | --- | --- |
| `candidate` | two runs of one case with two Tasks, room for one record, one fault | 1,136,000 (up to symmetry) | What does an answer that counts, and what does a record prove? |
| `leftovers` | one run with one Task, an operator who works at any time and comes back, one fault, fair | 510,000 | What does a cleanup prove, what may it delete, and does everything go in the end? |

* `TypeOK`, which includes that a run in progress has the lock and room for its
  record.
* `PassIsAttributed`: an answer counts only if the pair and Task that gave it are
  those that were acknowledged, before the answer and since. A record is of a run
  that did not fail, with the passes of every case, and of which no object, child or
  CREATE under way is left.
* `ProofMeansClean`: a report of completeness means that no object, no child and no
  CREATE under way is left of the run; for an operator, neither roots nor children of
  the selection. What a run says of its record is what the store holds.
* `CleanupDeletesItsOwn`: a DELETE, however late, takes effect only on an object of its
  run, as it was acknowledged or shown.
* `LeftoversAreReclaimed`.

**Bounds.** One fault is a death, a lost request, an expired cleanup, or somebody's
interference; the deadlines and late deliveries are not counted. Two Tasks of one case
give a threshold and a Task that follows a judged one; two runs compete for the lock
and for the last record. The operator may work while the run does; the single Task
of `leftovers` has every kind of root, child and order of deletion that a cleanup
tells apart. **Fairness** is as for the model connection; the operator's discovery is strongly
fair, because a run that holds on to its roots interrupts it.

### Pair publication

| Run | Instance | Distinct states | Question |
| --- | --- | --- | --- |
| `pairs` | three savers of any kind, one fault | 2,507,000 (up to symmetry) | All of the properties below. |

* `TypeOK`, which includes that no file is locked by two saves.
* `NoLostUpdate`: a save overwrites the version it has read and no other.
* `PairsDoNotMix`: a file is replaced beside the very file that it was validated with.
  A crash or a failure between the two renames of one save still leaves a new file
  beside an old one; that the save then says so of each name is `ReportIsTrue`.
* `ReportIsTrue`: what a save says of each name is true, and a pair with tests that is
  `complete` has been on disk, both files at one moment.

**Bounds.** Three savers are two that meet between the renames of one of them and a
third that brings a version back; the faults are a crash, a failing rename, or a change
from outside. Savers are symmetric and every property is one of safety. Since the
properties are proved for any number of savers and faults, this run is there to
look for mistakes in them, and for the mutants.


### Two disagreements

The runs `stage` and `preempted` each end in a violation.

* `InterruptedIsRecoverable` (`stage`): the documentation says that interrupted
  ownership publication uses recoverable stages. A kill between the creation of
  `control.stage` and its last byte leaves a stage that does not parse. Recovery
  refuses it, so the entry stays for ever.
* `EveryCrashIsFinishable` (`preempted`): a Prepare that is cancelled while it
  creates `use.lock` removes the file, even when a reclaim has locked it by then.
  The reclaim publishes its revocation, misses the lock and refuses; what it leaves
  is neither lockable, nor the bare marker, nor empty.

### Mutants

Every property of a passing run has a mutant in `PROJECT.json`: an operator of the
model changed as a plausible bug would change the code, for which TLC finds the
property violated. The changed operators stand beside the original ones and are
marked.

## 8. What is proved

### The release protocol

For every set of attempts, every package, every history limit, every byte limit that
holds the record of a first deploy, and every environment bound:

| Theorem | Statement |
| --- | --- |
| `Inductive` | `Spec => []IInv` |
| `TypeCorrect` | `Spec => []TypeOK` |
| `WritesAreReserved` | `Spec => []WriteUnderReservation` |
| `ReservationsAreKept` | `Spec => NoTakeover` |
| `ReservationImplemented` | `Spec => ImplementsReservation` |
| `SlotsAreEnough` | `Spec => []SlotsSuffice` |
| `SuccessAcknowledged` | `Spec => []SuccessIsAcknowledged` |
| `UpdatesFollow` | `Spec => UpdatesFollowAcknowledgment` |
| `StaysReadable` | `Spec => []RecordStaysReadable` |
| `UnknownsBlock` | `Spec => []UnknownBlocks` |
| `FreeRecordDescribes` | `Spec => []FreeRecordDescribesPair` |
| `AcknowledgedRecorded` | `Spec => []AcknowledgedIsRecorded` |
| `ReleasesRestoreOrRevise` | `Spec => ReleaseIsRestoreOrRevision` |
| `CapacityIsReserved` | `Spec => []ReleaseFits` |
| `ReportsAreHonest` | `Spec => []ReportIsHonest` |
| `RollDropsOldestCompleted` | rolling a history keeps every partial revision and removes at most one, the oldest completed one |
| `UpdateFits` | what `reserveReleaseUpdateCapacity` has sized bounds all that an update can write |

They rest on the assumptions of the modules: packages have the right type,
`None`, `Foreign` and `Evaluated` are no attempts, the limits are natural
numbers, and the byte limit holds the record of a first deploy (`CapacityAssumption`):
nothing reserves capacity for that one, but each of its fields is bounded and
`maxReleaseStateBytes` is 64 KiB. TLC evaluates those in every run.

`WriteUnderReservation` is not inductive: that a request finds the reservation
follows from what its sender knew when it sent it and from what others can do
meanwhile. `IInv` adds, attempt by attempt,

* `Planned`: what the plan established and the cursor still holds;
* `Rows`: which objects are acknowledged at which location;
* `Finalizing`: an attempt that may give the record back owns it and has no object
  request in flight. This is where the order of the finalizer matters;
* `Sending`: what can be in flight at which location, and that an attempt with late
  requests never writes again;
* `Requested`: a record request that frees the record is alone in flight, expects
  its sender's reservation and comes from the finalizer;
* `Named`: the record names only attempts that reserve.

The step lemmas prove that each action preserves its own attempt's invariant; the
lemma `Frame` carries the others over, because a step changes another attempt's
invariant only by changing whether the record names it, and `OthersUntouched` with
the tests of `Accepts` excludes that.

Two further invariants stand on `IInv`. `Reports` (in `ReleaseLiftOutcome_proofs`) is what
an attempt says of itself: `Spent` counts the slots of each path, `Honest` says that what
it denies having written is neither there nor on its way, `Successful` leads every
success to the candidate and its marker, `Followed` says that an update starts from
acknowledged revisions and sends its reservation against the record that it planned with.

`Records` (in `ReleaseLiftRecord_proofs`) is what the record says. The record is never
written blindly: every write carries a copy that its sender has read, changed by one
of a few operators. Hence `Copies`: what an attempt has read, and what it has sent, is sound
and differs from what it found only as `ReservationOf` and `GivesBack` say; a record in the
server is one of these. The other parts say what else the writer knew:

* `Unborn`: nobody has seen the record of a first deploy that is still creating it, so its
  UID is new. Without this the reservation of a torn-down record could return.
* `Blocked`: with an effect unknown, the attempt is where it can no longer ask for a
  release, and no release of its own is in flight.
* `Credited`, `Untried`: the pending objects of a first deploy are what it has
  proved, row by row; an update that was refused has touched nothing, so that what it
  found still describes the pair.
* `Known`: while it holds the record, an attempt knows the live objects whose outcome
  it knows, unless a foreign hand changed them. With it, every way of giving the record
  back establishes `FreeRecordDescribesPair`, which is the inductive half for the
  time when nobody holds the record.
* `Taken`: from the release on, the record has the attempt's revision, until retention
  drops it, which `Remembered` limits to completed ones and to a full history.

`ReleaseIsRestoreOrRevision` is then `Replaced`: whichever request is served, the
history stays or gets the holder's revision and rolls.

`ReleaseFits` needs to know what a size is. `HistorySize` is a fold, and a theorem about
folds in general needs induction over an operator, which the provers cannot
instantiate. `ReleaseRecord_proofs` inducts over a set of positions instead (`UpTo`): it shows
that some function solves the equations of the sum (`HistorySums`), that a smaller
revision in the same place makes no larger history, also after it has rolled
(`SmallerAppended`, `RollRolled`), and hence that the one record which
`reserveReleaseUpdateCapacity` encodes, the largest form, bounds all others
(`UpdateFits`). The invariant `Roomy` carries this to the write: an update that holds the record
has checked that capacity, and what it has proved is acknowledged. `ReleaseFits` follows
with `Credited`: no checkpoint and no release is refused, for its size or for
any other test of `writeReleaseState`.

`RecordReportIsTrue` rests on `Declared`, which divides what an attempt says in two: says it
neither "pending" nor "unknown", nothing of it is at the record or on its way there
(`Gone`), and it asks for nothing without saying "unknown" first; says it "pending",
it has asked for nothing that ends its reservation (`Kept`), until it asks for the
release, after which only the answer keeps it from saying "unknown".
`Unborn` is needed once more: the UID of a torn-down record does not return.

### Pair publication

For every set of savers and any number of faults:

| Theorem | Statement |
| --- | --- |
| `Inductive` | `Spec => []IInv` |
| `TypeCorrect` | `Spec => []TypeOK` |
| `NoSaveIsLost` | `Spec => NoLostUpdate` |
| `NeverMixed` | `Spec => PairsDoNotMix` |
| `ReportsAreTrue` | `Spec => []ReportIsTrue` |

The assumptions are that the savers are no numbers, that `None` is neither a maker nor
a file, and that `MaxFaults` is a natural number.

The properties speak of the moment of a rename and of a report. `IInv` says what
a save knows on the way there:

* `Known`: a version that a name or a save has was made by now. It follows that what a
  save is about to make is new to everybody, and that a version which has left its
  name does not come back to it. Absence does come back, hence the exceptions for an
  agent without tests.
* `Locking`: what a save has still to replace, it has locked; `Named`: what it has
  looked at under that lock still has its name, unless somebody meddled. Two saves
  that have looked at the same version would have to hold the same lock.
* `Beside`: about to rename, and left alone, a save has both files in place. Having
  looked at the agent only, it has the agent, or will not find its tests. Whoever
  replaces the agent holds the lock of the tests (`TestsAreLocked`).
* `Sensible`, `Matching`, `Told`, `Ordered`: how wishes, acknowledgments and the
  place in the code relate; `Whole`: a save with nothing left to write that has seen
  its agent has had its whole pair on disk, or will not find its tests.

There is one lemma per action. `StillStep` and `EffectStep` reduce each to its own
save; `FrameStill` and `FrameEffect` carry the other saves over, the second by the
exclusion of the locks.

### The retained package store

For every set of handles and processes, every capacity, with power losses and without:

| Theorem | Statement |
| --- | --- |
| `Inductive` | `Spec => []IInv` |
| `TypeCorrect` | `Spec => []TypeOK` |
| `ReadyMeansComplete` | `Spec => []ReadyIsComplete` |
| `AcknowledgedKept` | `Spec => []AcknowledgedIsKept` |
| `BorrowedAlone` | `Spec => []BorrowedIsUndisturbed` |
| `LocksAreMarked` | `Spec => []NoUnmarkedLock` |
| `RevokedFinishes` | `Spec => []RevokedIsFinishable` |
| `CapacityHeld` | `Spec => []WithinCapacity` |
| `LifecycleImplemented` | `Spec => ImplementsLifecycle` |

Three of them carry the exceptions of their properties (section 7): `ReadyMeansComplete`
that of `resumed` where power fails, `AcknowledgedKept` and `RevokedFinishes` that of
`preempted`, for which the run `preempted` shows an entry that cannot be finished.

The assumptions are that `None` is no process and no handle, and that the capacity is a
positive number.

A power loss takes a directory back to any moment since it was last flushed, so what
an entry holds now says little. `IInv` says, handle by handle (`Entry`), what all those
moments have in common: `Files` (a lock stands beside a binding or a revocation, a
completion beside both), `Completion` and `Revocation` (which moments may show a
completion alone, and that every revoked one can be resumed; files are removed
only when no moment shows a completion alone, or in a `resumed` entry), `Succession` (what a
revocation leaves behind until it is flushed). Process by process (`Process`) it says what
each location implies for the entry: `Binding`, `Initializes`, `Completes`,
`Reclaiming`, `Retires`; and `Placed` says who holds which of the two kinds of lock.

`Coverage` divides the processes at an entry into roles and the `Beside` lemmas say
which roles meet: whoever holds `use.lock` has nobody for company but those who wait,
a Prepare that was preempted, and the remover of an entry that has no `use.lock`. The
`Entry...` lemmas show what one effect on the files (a name added, a name removed, a flush)
does to an entry for every moment, the `Step...` lemmas combine both.

The refinement (the last part of `RetainedStore_proofs`) needs no further invariant. Its proof
corrected the abstract specification: one flush of the store can make the removal of
several packages final, so `Remove` takes a set of handles. With the single
entry of the run `store` this does not show.

### The model connection

For every set of connections, disconnections, Pods and children, every order of the
kinds and any number of faults:

| Theorem | Statement |
| --- | --- |
| `Inductive` | `Spec => []IInv` |
| `TypeCorrect` | `Spec => []TypeOK` |
| `EffectsRecorded` | `Spec => []EffectsAreRecorded` |
| `StoppedForGood` | `Spec => []StoppedMeansStopped` |
| `DeletionAuthorized` | `Spec => DeletionIsAuthorized` |
| `LeaseKept` | `Spec => IsALease` |

The assumptions are that the orders name every kind, the Deployment among them, that
connections, disconnections, Pods, `None` and `Foreign` are different things, that absence is no
value, and that the number of faults is a natural number.

`IInv` has two halves. `World` relates the last checkpoint to the cluster: a gateway that
no checkpoint names is dead (`Accounted`), a DELETE on its way finds the object as it was
read or nothing (`Late`, which compares versions with the faults so far, `Aged`), at most one
connection is unfinished. `Runs` says what the run under way knows beyond the record:
`Alone`, `Connecting`, `Disconnecting`. Only one run is under way at a time, so most steps need
one lemma for the half they change; the steps of the cluster (`ControllersWork`,
`InterfereStep`, `DeliverStep`) are the long ones, because a late request may be served at any
moment. `IsALease` follows: between two connections nothing of the first is left
(`Dead`), in flight or running.

### The suite evaluation

For every set of runs and operators, every suite, every capacity of the store and any
number of faults:

| Theorem | Statement |
| --- | --- |
| `Inductive` | `Spec => []IInv` |
| `TypeCorrect` | `Spec => []TypeOK` |
| `PassesAreAttributed` | `Spec => []PassIsAttributed` |
| `ProofsMeanClean` | `Spec => []ProofMeansClean` |
| `DeletesItsOwn` | `Spec => CleanupDeletesItsOwn` |

The assumptions are that runs, operators, `None`, `Foreign` and `Earlier` are different
things, that the bounds are natural numbers, and `CasesAssumption`: each Task of the suite
has a name of its own, each case is a sequence of Tasks shared with no other case, and needs
some of them. That the concatenation of the cases is then a sequence without repetitions,
in which each case has all of its Tasks, is proved (`TasksInOrder`, by induction over a
set of lengths).

What makes a proof of absence hard is the CREATE that is still on its way. `Pending(r, k)`
says that the CREATE of kind `k` of run `r` may still be sent or take effect. It can only
become false, and whatever was pending has never been there (`World`). So a run that is
sure of all its CREATEs knows that what is not among its roots does not exist
(`Accounted`), and what an operator has seen once does not come back (`Operating`). The rest
of `IInv`:

* `Placed`: the order of creation tells which roots a run has, and that it is unsure of
  at most the one it is waiting for;
* `Requesting`: a run has one CREATE under way at most; one that outlives its sender's
  interest leaves the sender unsure;
* `Counted`: a counted answer is good, or its Task is gone for good. An answer spoiled by
  a changed pair stays recognizable, because nothing turns back into what was
  acknowledged (the second half of `World`);
* `Concluded`: what a run says, and what the store has of it;
* `Selecting`, `Conditional`: a cleanup has left what it selected, and a DELETE that may
  take effect was sent for the object as it is.

`Apart` carries an evaluation over the steps of all other actors, `Shrinks` shows for
its own steps that nothing becomes pending again; there is one lemma for each step
of placement and execution, and one for each way in which a cleanup goes on, ends, or
leads to a record. `Happens` says what any step of the cluster can do, and `BornOnce`
that what it creates was pending and is no longer.

### What is only model-checked

* Liveness, since TLAPS proves none under fairness: `RecoverableIsReleased`,
  `RestIsReclaimed`, `LeftoversAreReclaimed`, `ReservationIsAccountedFor`.
* The two violations, which TLC exhibits.

## 9. The plan

1. *Done.* `ReleaseRecord`, `ReleaseReservation`, `ReleaseLift`, their runs, the
   invariant and its theorems.
2. *Done:* `RetainedStore`, `PackageLifecycle` and their runs.
3. *Done:* `ModelLease`, `ModelConnection`, `SuiteCandidate` and their runs.
4. *Done:* `PairPublication`, its run and its proofs.
5. **Proofs.** *Done:* every safety property that a passing run checks, and the three
   refinements.
6. **The workspace lift**, as a composition: it evaluates, publishes and lifts, and
   relies on the receipt and on the objects that the evaluation left behind.
7. **Local tools and recordings**: calls to child processes, their cancellation, and
   the journal.

### Not modelled

The workspace lift, local tools and recordings are next in the plan. Not planned are
the kagent and AgentSessions lifts (no shared protocol), terminal
interfaces, drivers of external programs, and parsers, which are sequential and
tested as such. These are most of the repository's lines.
