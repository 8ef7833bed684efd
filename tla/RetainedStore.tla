---------------------------- MODULE RetainedStore ----------------------------
(***************************************************************************)
(* The store of retained packages, $STATE/retained-packages/v1: one          *)
(* directory pkg-H for a handle H, with the package and the files that say    *)
(* what became of it.  Any number of processes run PrepareRetainedFile,       *)
(* OpenVerifiedUse, Release and Cleanup on it.  They exclude each other with  *)
(* two kinds of flock: use.lock in an entry, and family.lock above them, which *)
(* covers the moments when an entry has no use.lock.                         *)
(*                                                                         *)
(* A step is one effect on the file system, or one decision from what it      *)
(* holds.  A process may stop after any of them (Stop: an error, a           *)
(* cancellation or a kill) and the host may lose power (PowerLoss), which      *)
(* takes a directory back to a moment since it was last flushed.             *)
(***************************************************************************)
EXTENDS Naturals, FiniteSets

CONSTANTS
  Handles,      \* the random names of entries; each is drawn at most once
  Processes,
  None,
  MaxPackages,  \* how many entries a store may hold
  PowerFails    \* whether the host may lose power

ASSUME NoneAssumption == None \notin Handles \cup Processes
ASSUME BoundsAssumption == MaxPackages \in Nat \ {0} /\ PowerFails \in BOOLEAN

VARIABLES
  dirs,        \* the entries that exist
  dirsOnDisk,  \* the sets of entries that a power loss may leave
  names,       \* the files of an entry, its package apart
  onDisk,      \* the sets of files that a power loss may leave of an entry
  torn,        \* stages whose bytes are not all written
  tree,        \* the package itself: build and layout
  unflushed,   \* entries whose package was not flushed
  family,      \* who holds family.lock
  lock,        \* who holds use.lock of an entry, even after it was unlinked
  pc, op, arg, pub, then,  \* a process: place, operation, handle, file, continuation
  used,        \* history: the handles drawn
  acked,       \* history: the handles that Prepare returned
  ended,       \* history: the handles whose revocation is durable
  requested,   \* history: the handles that Release was called with
  preempted,   \* history: the handles whose use.lock somebody took before Prepare did
  resumed      \* history: the handles reclaimed on an unflushed revocation of theirs

entry == <<dirs, dirsOnDisk, names, onDisk, torn, tree, unflushed>>
process == <<pc, op, arg, pub, then>>
history == <<used, acked, ended, requested, preempted, resumed>>
vars == <<dirs, dirsOnDisk, names, onDisk, torn, tree, unflushed, family, lock,
          pc, op, arg, pub, then, used, acked, ended, requested, preempted, resumed>>

Published == {"control.json", "ready.json", "released.json"}
Stages == {"control.stage", "ready.stage", "released.stage"}
Names == Published \cup Stages \cup {"use.lock"}

retainedStage(n) ==
  CASE n = "control.json" -> "control.stage"
    [] n = "ready.json" -> "ready.stage"
    [] n = "released.json" -> "released.stage"

\* "raw" is whatever the packager has written so far, with modes of its own;
\* "whole" is complete and private; "cut" has lost files.
Trees == {"none", "raw", "whole", "cut"}

Publishing == {"staging", "writing", "linking", "unstaging"}
Locations == Publishing \cup
  {"idle", "allocating", "syncing", "creating", "locking", "owned", "building",
   "built", "finalized", "prepared", "opening", "checking", "verifying", "using",
   "deciding", "retiring", "revoked", "removing", "recovering", "marking",
   "stripping", "unlinked"}
Operations == {"prepare", "use", "release", "cleanup"}

\* retainedStore.control: the first of three names that is present, if it parses.
Controlled(h) ==
  \/ names[h] \cap {"control.json", "released.json"} # {}
  \/ "control.stage" \in names[h] /\ "control.stage" \notin torn[h]

\* retainedEntry.check
Checked(h) == h \in dirs /\ Controlled(h) /\ "use.lock" \in names[h]

-----------------------------------------------------------------------------
(* Steps of a process *)

Goto(p, l) == pc' = [pc EXCEPT ![p] = l] /\ UNCHANGED <<op, arg, pub, then>>

\* Mutant: the step after the flush is forgotten.
SyncThenForgets(p, l) ==
  /\ pc' = [pc EXCEPT ![p] = "syncing"]
  /\ UNCHANGED <<op, arg, pub, then>>

\* Go on at l once the entry is flushed.
SyncThen(p, l) ==
  /\ pc' = [pc EXCEPT ![p] = "syncing"]
  /\ then' = [then EXCEPT ![p] = l]
  /\ UNCHANGED <<op, arg, pub>>

Publish(p, n) ==
  /\ pc' = [pc EXCEPT ![p] = "staging"]
  /\ pub' = [pub EXCEPT ![p] = n]
  /\ UNCHANGED <<op, arg, then>>

Start(p, o, h, l) ==
  /\ pc[p] = "idle"
  /\ pc' = [pc EXCEPT ![p] = l]
  /\ op' = [op EXCEPT ![p] = o]
  /\ arg' = [arg EXCEPT ![p] = h]
  /\ UNCHANGED <<pub, then>>

\* The operation returns or dies; either way its handles, so its locks, are gone.
Rest(p) ==
  /\ pc' = [pc EXCEPT ![p] = "idle"]
  /\ op' = [op EXCEPT ![p] = None]
  /\ arg' = [arg EXCEPT ![p] = None]
  /\ pub' = [pub EXCEPT ![p] = None]
  /\ then' = [then EXCEPT ![p] = None]
  /\ family' = IF family = p THEN None ELSE family
  /\ lock' = [h \in Handles |-> IF lock[h] = p THEN None ELSE lock[h]]

Add(h, n) ==
  /\ names' = [names EXCEPT ![h] = @ \cup {n}]
  /\ onDisk' = [onDisk EXCEPT ![h] = @ \cup {names[h] \cup {n}}]

Drop(h, n) ==
  /\ names' = [names EXCEPT ![h] = @ \ {n}]
  /\ onDisk' = [onDisk EXCEPT ![h] = @ \cup {names[h] \ {n}}]

TakeFamily(p) == family = None /\ family' = p

-----------------------------------------------------------------------------
(* publishPrivate *)

CreateStage(p) ==
  LET h == arg[p]
      s == retainedStage(pub[p])
  IN /\ pc[p] = "staging"
     /\ h \in dirs
     /\ s \notin names[h]
     /\ Add(h, s)
     /\ torn' = [torn EXCEPT ![h] = @ \cup {s}]
     /\ Goto(p, "writing")
     /\ UNCHANGED <<dirs, dirsOnDisk, tree, unflushed, family, lock, history>>

WriteStage(p) ==
  LET h == arg[p]
  IN /\ pc[p] = "writing"
     /\ torn' = [torn EXCEPT ![h] = @ \ {retainedStage(pub[p])}]
     /\ Goto(p, "linking")
     /\ UNCHANGED <<dirs, dirsOnDisk, names, onDisk, tree, unflushed, family, lock,
                    history>>

LinkStage(p) ==
  /\ pc[p] = "linking"
  /\ pub[p] \notin names[arg[p]]
  /\ Add(arg[p], pub[p])
  /\ Goto(p, "unstaging")
  /\ UNCHANGED <<dirs, dirsOnDisk, torn, tree, unflushed, family, lock, history>>

AfterPublish(n) ==
  CASE n = "control.json" -> "creating"
    [] n = "ready.json" -> "prepared"
    [] n = "released.json" -> "revoked"

RemoveStage(p) ==
  /\ pc[p] = "unstaging"
  /\ Drop(arg[p], retainedStage(pub[p]))
  /\ SyncThen(p, AfterPublish(pub[p]))
  /\ UNCHANGED <<dirs, dirsOnDisk, torn, tree, unflushed, family, lock, history>>

\* fileaccess.SyncDirectory of the entry
Flushed(h) ==
  /\ onDisk' = [onDisk EXCEPT ![h] = {names[h]}]
  /\ ended' = IF "released.json" \in UNION onDisk[h] THEN ended \cup {h} ELSE ended

Sync(p) ==
  LET h == arg[p]
  IN /\ pc[p] = "syncing"
     /\ Flushed(h)
     /\ pc' = [pc EXCEPT ![p] = then[p]]
     /\ then' = [then EXCEPT ![p] = None]
     /\ UNCHANGED <<dirs, dirsOnDisk, names, torn, tree, unflushed, family, lock,
                    op, arg, pub, used, acked, requested, preempted, resumed>>

-----------------------------------------------------------------------------
(* allocate *)

\* openRetainedStore creates what is missing of the store and flushes it.
OpenStore(p) ==
  /\ pc[p] = "idle"
  /\ pc' = [pc EXCEPT ![p] = "allocating"]
  /\ op' = [op EXCEPT ![p] = "prepare"]
  /\ dirsOnDisk' = {dirs}
  /\ UNCHANGED <<dirs, names, onDisk, torn, tree, unflushed, family, lock,
                 arg, pub, then, history>>

\* Mutant: the capacity is off by one.
AllocateBeyond(p, h) ==
  /\ pc[p] = "allocating"
  /\ h \notin used
  /\ Cardinality(dirs) <= MaxPackages
  /\ TakeFamily(p)
  /\ dirs' = dirs \cup {h}
  /\ dirsOnDisk' = dirsOnDisk \cup {dirs \cup {h}}
  /\ used' = used \cup {h}
  /\ arg' = [arg EXCEPT ![p] = h]
  /\ pub' = [pub EXCEPT ![p] = "control.json"]
  /\ pc' = [pc EXCEPT ![p] = "staging"]
  /\ UNCHANGED <<names, onDisk, torn, tree, unflushed, lock, op, then,
                 acked, ended, requested, preempted, resumed>>

Allocate(p, h) ==
  /\ pc[p] = "allocating"
  /\ h \notin used
  /\ Cardinality(dirs) < MaxPackages
  /\ TakeFamily(p)
  /\ dirs' = dirs \cup {h}
  /\ dirsOnDisk' = dirsOnDisk \cup {dirs \cup {h}}
  /\ used' = used \cup {h}
  /\ arg' = [arg EXCEPT ![p] = h]
  /\ pub' = [pub EXCEPT ![p] = "control.json"]
  /\ pc' = [pc EXCEPT ![p] = "staging"]
  /\ UNCHANGED <<names, onDisk, torn, tree, unflushed, lock, op, then,
                 acked, ended, requested, preempted, resumed>>

\* The store directory is flushed before use.lock appears.
CreateUseLock(p) ==
  /\ pc[p] = "creating"
  /\ dirsOnDisk' = {dirs}
  /\ Add(arg[p], "use.lock")
  /\ Goto(p, "locking")
  /\ UNCHANGED <<dirs, torn, tree, unflushed, family, lock, history>>

LockNew(p) ==
  /\ pc[p] = "locking"
  /\ lock[arg[p]] = None
  /\ lock' = [lock EXCEPT ![arg[p]] = p]
  /\ SyncThen(p, "owned")
  /\ UNCHANGED <<entry, family, history>>

\* allocate returns and closes family.lock.
Own(p) ==
  /\ pc[p] = "owned"
  /\ family' = None
  /\ Goto(p, "building")
  /\ UNCHANGED <<entry, lock, history>>

(* The rest of prepareRetainedFile *)

\* Create build, compile into it, copy to layout and discard the compiler's files.
Build(p) ==
  LET h == arg[p]
  IN /\ pc[p] = "building"
     /\ Checked(h)
     /\ tree' = [tree EXCEPT ![h] = "raw"]
     /\ unflushed' = unflushed \cup {h}
     /\ Goto(p, "built")
     /\ UNCHANGED <<dirs, dirsOnDisk, names, onDisk, torn, family, lock, history>>

\* Repair the modes.  No file may have two names here.
retainedFinalize(p) ==
  LET h == arg[p]
  IN /\ pc[p] = "built"
     /\ Checked(h)
     /\ \A n \in Published : ~({n, retainedStage(n)} \subseteq names[h])
     /\ tree' = [tree EXCEPT ![h] = "whole"]
     /\ Goto(p, "finalized")
     /\ UNCHANGED <<dirs, dirsOnDisk, names, onDisk, torn, unflushed, family, lock,
                    history>>

\* Mutant: completion is published before the package is flushed.
FlushLater(p) ==
  LET h == arg[p]
  IN /\ pc[p] = "finalized"
     /\ Checked(h)
     /\ tree[h] = "whole"
     /\ Flushed(h)
     /\ Publish(p, "ready.json")
     /\ UNCHANGED <<dirs, dirsOnDisk, names, torn, tree, unflushed, family, lock,
                    used, acked, requested, preempted, resumed>>

\* Verify the layout against the compiler's fingerprint, flush everything, and
\* publish completion.
Flush(p) ==
  LET h == arg[p]
  IN /\ pc[p] = "finalized"
     /\ Checked(h)
     /\ tree[h] = "whole"
     /\ unflushed' = unflushed \ {h}
     /\ Flushed(h)
     /\ Publish(p, "ready.json")
     /\ UNCHANGED <<dirs, dirsOnDisk, names, torn, tree, family, lock,
                    used, acked, requested, preempted, resumed>>

Acknowledge(p) ==
  /\ pc[p] = "prepared"
  /\ acked' = acked \cup {arg[p]}
  /\ Rest(p)
  /\ UNCHANGED <<entry, used, ended, requested, preempted, resumed>>

-----------------------------------------------------------------------------
(* openEntry, OpenVerifiedUse *)

Open(p, o, h) ==
  /\ h \in dirs
  /\ "use.lock" \in names[h]
  /\ Start(p, o, h, "opening")
  /\ requested' = IF o = "release" THEN requested \cup {h} ELSE requested
  /\ UNCHANGED <<entry, family, lock, used, acked, ended, preempted, resumed>>

\* use.lock, or all of the entry, is missing: cleanupTerminal.
OpenMissing(p, h) ==
  /\ "use.lock" \notin names[h]
  /\ Start(p, "cleanup", h, "recovering")
  /\ UNCHANGED <<entry, family, lock, history>>

\* Mutant: use.lock is opened and not locked.
LockEntryShared(p) ==
  /\ pc[p] = "opening"
  /\ Goto(p, "checking")
  /\ UNCHANGED <<entry, family, lock, history>>

LockEntry(p) ==
  LET h == arg[p]
  IN /\ pc[p] = "opening"
     /\ lock[h] = None
     /\ lock' = [lock EXCEPT ![h] = p]
     /\ preempted' = IF \E q \in Processes : pc[q] = "locking" /\ arg[q] = h
                     THEN preempted \cup {h} ELSE preempted
     /\ Goto(p, "checking")
     /\ UNCHANGED <<entry, family, used, acked, ended, requested, resumed>>

\* The locked file must still be the entry's, with one link.
CheckEntry(p) ==
  /\ pc[p] = "checking"
  /\ Checked(arg[p])
  /\ Goto(p, IF op[p] = "use" THEN "verifying" ELSE "deciding")
  /\ UNCHANGED <<entry, family, lock, history>>

\* Mutant: the revocation is not looked at.
VerifiedReady(h) == "ready.json" \in names[h] /\ tree[h] = "whole"

\* Mutant: a completion is taken at its word.
VerifiedByRecord(h) == "released.json" \notin names[h] /\ "ready.json" \in names[h]

\* The inventory, the layout and the fingerprint of a package that is in use.
Verified(h) ==
  /\ "released.json" \notin names[h]
  /\ "ready.json" \in names[h]
  /\ tree[h] = "whole"

Verify(p) ==
  /\ pc[p] = "verifying"
  /\ Verified(arg[p])
  /\ Goto(p, "using")
  /\ UNCHANGED <<entry, family, lock, history>>

Close(p) ==
  /\ pc[p] = "using"
  /\ Rest(p)
  /\ UNCHANGED <<entry, history>>

-----------------------------------------------------------------------------
(* reclaim *)

\* Mutant: Cleanup does not ask whether the package is ready.
MayReclaimAny(o, h) == o \in {"release", "cleanup"}

\* Cleanup leaves a ready package alone, unless it was revoked.
MayReclaim(o, h) ==
  \/ o = "release"
  \/ "released.json" \in names[h]
  \/ "ready.json" \notin names[h]

Decide(p) ==
  /\ pc[p] = "deciding"
  /\ MayReclaim(op[p], arg[p])
  /\ Goto(p, "retiring")
  /\ UNCHANGED <<entry, family, lock, history>>

RetireStage(p) ==
  /\ pc[p] = "retiring"
  /\ \E s \in Stages \cap names[arg[p]] : Drop(arg[p], s)
  /\ SyncThen(p, "retiring")
  /\ UNCHANGED <<dirs, dirsOnDisk, torn, tree, unflushed, family, lock, history>>

\* Mutant: the revocation is left to the end.
RevokeLater(p) ==
  /\ pc[p] = "retiring"
  /\ Stages \cap names[arg[p]] = {}
  /\ Goto(p, "revoked")
  /\ UNCHANGED <<entry, family, lock, history>>

\* A power loss may leave a completion without its revocation.
Exposed(h) == \E s \in onDisk[h] : "ready.json" \in s /\ "released.json" \notin s

\* A revocation that is found is gone on from, whether it was flushed or not.
Revoke(p) ==
  LET h == arg[p]
  IN /\ pc[p] = "retiring"
     /\ Stages \cap names[h] = {}
     /\ IF "released.json" \in names[h]
          THEN /\ Goto(p, "revoked")
               /\ resumed' = IF Exposed(h) THEN resumed \cup {h} ELSE resumed
          ELSE /\ Publish(p, "released.json")
               /\ UNCHANGED resumed
     /\ UNCHANGED <<entry, family, lock, used, acked, ended, requested, preempted>>

Inventory(p) ==
  /\ pc[p] = "revoked"
  /\ tree[arg[p]] # "raw"
  /\ Goto(p, "removing")
  /\ UNCHANGED <<entry, family, lock, history>>

\* Unfinished bytes may happen to have private modes.
InventoryRaw(p) ==
  /\ pc[p] = "revoked"
  /\ tree[arg[p]] = "raw"
  /\ Goto(p, "removing")
  /\ UNCHANGED <<entry, family, lock, history>>

Data(h) == names[h] \ {"control.json", "use.lock", "released.json"}

RemoveData(p) ==
  LET h == arg[p]
  IN /\ pc[p] = "removing"
     /\ Checked(h)
     /\ \E n \in Data(h) : Drop(h, n)
     /\ SyncThen(p, "removing")
     /\ UNCHANGED <<dirs, dirsOnDisk, torn, tree, unflushed, family, lock, history>>

\* Every file of the package is removed and flushed on its own.
RemoveTree(p) ==
  LET h == arg[p]
  IN /\ pc[p] = "removing"
     /\ Checked(h)
     /\ tree[h] # "none"
     /\ tree' = [tree EXCEPT ![h] = IF @ = "cut" THEN "none" ELSE "cut"]
     /\ unflushed' = unflushed \ {h}
     /\ UNCHANGED <<dirs, dirsOnDisk, names, onDisk, torn, family, lock, process,
                    history>>

Finish(p) ==
  LET h == arg[p]
  IN /\ pc[p] = "removing"
     /\ Data(h) = {} /\ tree[h] = "none"
     /\ Checked(h)
     /\ TakeFamily(p)
     /\ Goto(p, "stripping")
     /\ UNCHANGED <<entry, lock, history>>

-----------------------------------------------------------------------------
(* cleanupTerminal: entries without use.lock, under the family lock *)

Ownership == {"control.json", "control.stage"}

\* Mutant: a lock that has appeared since use.lock was missed is adopted as well.
InitializingLocked(h) ==
  h \in dirs /\ names[h] \subseteq Ownership \cup {"use.lock"} /\ tree[h] = "none"

\* recoverInitialization adopts an empty entry, or one with a control binding
\* and nothing more.
Initializing(h) == h \in dirs /\ names[h] \subseteq Ownership /\ tree[h] = "none"

\* Mutant: an empty allocation is not adopted.
RecoverControlled(p) ==
  LET h == arg[p]
  IN /\ pc[p] = "recovering"
     /\ Initializing(h)
     /\ Controlled(h)
     /\ TakeFamily(p)
     /\ Goto(p, "stripping")
     /\ UNCHANGED <<entry, lock, history>>

Recover(p) ==
  LET h == arg[p]
  IN /\ pc[p] = "recovering"
     /\ Initializing(h)
     /\ names[h] = {} \/ Controlled(h)
     /\ TakeFamily(p)
     /\ Goto(p, "stripping")
     /\ UNCHANGED <<entry, lock, history>>

\* recoverInitialization declines and closes the family lock.
Decline(p) ==
  LET h == arg[p]
  IN /\ pc[p] = "recovering"
     /\ family = None
     /\ h \in dirs /\ ~Initializing(h)
     /\ Goto(p, "marking")
     /\ UNCHANGED <<entry, family, lock, history>>

Terminal(h) ==
  h \in dirs /\ names[h] \subseteq {"released.json"} /\ tree[h] = "none"

Mark(p) ==
  LET h == arg[p]
  IN /\ pc[p] = "marking"
     /\ Terminal(h)
     /\ TakeFamily(p)
     /\ Goto(p, "stripping")
     /\ UNCHANGED <<entry, lock, history>>

(* The last files of an entry, one at a time, and the entry itself *)

\* Mutant: the revocation goes before the lock.
LastIsLock(h) ==
  CASE "control.stage" \in names[h] -> "control.stage"
    [] "control.stage" \notin names[h] /\ "control.json" \in names[h] -> "control.json"
    [] names[h] \cap Ownership = {} /\ "released.json" \in names[h] -> "released.json"
    [] OTHER -> "use.lock"

\* The revocation, with the full ownership binding, is the last to go.
Last(h) ==
  CASE "control.stage" \in names[h] -> "control.stage"
    [] "control.stage" \notin names[h] /\ "control.json" \in names[h] -> "control.json"
    [] names[h] \cap Ownership = {} /\ "use.lock" \in names[h] -> "use.lock"
    [] OTHER -> "released.json"

Strip(p) ==
  LET h == arg[p]
  IN /\ pc[p] = "stripping"
     /\ Last(h) \in names[h]
     /\ Drop(h, Last(h))
     /\ SyncThen(p, "stripping")
     /\ UNCHANGED <<dirs, dirsOnDisk, torn, tree, unflushed, family, lock, history>>

\* RemovePrivateDirectoryAt: only an empty directory is removed.
RemoveEntry(p) ==
  LET h == arg[p]
  IN /\ pc[p] = "stripping"
     /\ h \in dirs /\ names[h] = {} /\ tree[h] = "none"
     /\ dirs' = dirs \ {h}
     /\ dirsOnDisk' = dirsOnDisk \cup {dirs \ {h}}
     /\ Goto(p, "unlinked")
     /\ UNCHANGED <<names, onDisk, torn, tree, unflushed, family, lock, history>>

SyncStore(p) ==
  /\ pc[p] = "unlinked"
  /\ dirsOnDisk' = {dirs}
  /\ Rest(p)
  /\ UNCHANGED <<dirs, names, onDisk, torn, tree, unflushed, history>>

-----------------------------------------------------------------------------
(* Refusals, failures and the host *)

\* The code's own early returns, at each place a decision is taken.
Refused(p) ==
  LET h == arg[p]
  IN \/ pc[p] = "allocating" /\ family = None /\ Cardinality(dirs) >= MaxPackages
     \/ pc[p] = "staging" /\ (h \notin dirs \/ retainedStage(pub[p]) \in names[h])
     \/ pc[p] = "linking" /\ pub[p] \in names[h]
     \/ pc[p] = "locking" /\ lock[h] # None
     \/ pc[p] \in {"building", "built", "finalized", "checking"} /\ ~Checked(h)
     \/ pc[p] = "built" /\ \E n \in Published : {n, retainedStage(n)} \subseteq names[h]
     \/ pc[p] = "finalized" /\ tree[h] # "whole"
     \/ pc[p] = "opening" /\ lock[h] # None
     \/ pc[p] = "verifying" /\ ~Verified(h)
     \/ pc[p] = "deciding" /\ ~MayReclaim(op[p], h)
     \/ pc[p] = "removing" /\ ~Checked(h)
     \/ pc[p] = "recovering" /\ family = None
          /\ (h \notin dirs \/ (Initializing(h) /\ names[h] # {} /\ ~Controlled(h)))
     \/ pc[p] = "marking" /\ family = None /\ ~Terminal(h)

Refuse(p) == Refused(p) /\ Rest(p) /\ UNCHANGED <<entry, history>>

\* Anything else: an I/O error, a cancellation, a lock not granted within its
\* second, changed sources, or a kill.  An unfinished publication tries to remove
\* its stage.
Stop(p) ==
  /\ pc[p] \notin {"idle", "using"}
  /\ ~Refused(p)
  /\ Rest(p)
  /\ UNCHANGED <<entry, history>>

StopPublishing(p) ==
  /\ pc[p] \in {"writing", "linking", "unstaging"}
  /\ Drop(arg[p], retainedStage(pub[p]))
  /\ Rest(p)
  /\ UNCHANGED <<dirs, dirsOnDisk, torn, tree, unflushed, history>>

\* A creation of use.lock that is cancelled before it returns removes it again.
StopLocking(p) ==
  /\ pc[p] = "locking"
  /\ "use.lock" \in names[arg[p]]
  /\ Drop(arg[p], "use.lock")
  /\ Rest(p)
  /\ UNCHANGED <<dirs, dirsOnDisk, torn, tree, unflushed, history>>

\* A directory is left as it was at some moment since it was last flushed; what
\* was not flushed of a package is there or not.
PowerLoss ==
  /\ PowerFails
  /\ dirs' \in dirsOnDisk
  /\ names' \in [Handles -> SUBSET Names]
  /\ \A h \in Handles : names'[h] \in IF h \in dirs' THEN onDisk[h] ELSE {{}}
  /\ tree' \in [Handles -> Trees]
  /\ \A h \in Handles :
       tree'[h] \in IF h \notin dirs' THEN {"none"}
                    ELSE IF h \in unflushed THEN {"none", "raw", "cut", tree[h]}
                    ELSE {tree[h]}
  /\ dirsOnDisk' = {dirs'} /\ unflushed' = {}
  /\ onDisk' = [h \in Handles |-> {names'[h]}]
  /\ ended' = ended \cup {h \in Handles : "released.json" \in names'[h]}
  /\ family' = None /\ lock' = [h \in Handles |-> None]
  /\ pc' = [p \in Processes |-> "idle"]
  /\ op' = [p \in Processes |-> None]
  /\ arg' = [p \in Processes |-> None]
  /\ pub' = [p \in Processes |-> None]
  /\ then' = [p \in Processes |-> None]
  /\ UNCHANGED <<torn, used, acked, requested, preempted, resumed>>

-----------------------------------------------------------------------------

Init ==
  /\ dirs = {} /\ dirsOnDisk = {{}} /\ unflushed = {}
  /\ names = [h \in Handles |-> {}]
  /\ onDisk = [h \in Handles |-> {{}}]
  /\ torn = [h \in Handles |-> {}]
  /\ tree = [h \in Handles |-> "none"]
  /\ family = None
  /\ lock = [h \in Handles |-> None]
  /\ pc = [p \in Processes |-> "idle"]
  /\ op = [p \in Processes |-> None]
  /\ arg = [p \in Processes |-> None]
  /\ pub = [p \in Processes |-> None]
  /\ then = [p \in Processes |-> None]
  /\ used = {} /\ acked = {} /\ ended = {} /\ requested = {} /\ preempted = {}
  /\ resumed = {}

Publication(p) ==
  CreateStage(p) \/ WriteStage(p) \/ LinkStage(p) \/ RemoveStage(p) \/ Sync(p)

Preparation(p) ==
  \/ \E h \in Handles : Allocate(p, h)
  \/ CreateUseLock(p) \/ LockNew(p) \/ Own(p)
  \/ Build(p) \/ retainedFinalize(p) \/ Flush(p) \/ Acknowledge(p)

Use(p) == LockEntry(p) \/ CheckEntry(p) \/ Verify(p) \/ Close(p)

Reclaim(p) ==
  \/ Decide(p) \/ RetireStage(p) \/ Revoke(p) \/ Inventory(p)
  \/ RemoveData(p) \/ RemoveTree(p) \/ Finish(p)
  \/ Recover(p) \/ Decline(p) \/ Mark(p)
  \/ Strip(p) \/ RemoveEntry(p) \/ SyncStore(p)

Step(p) == Publication(p) \/ Preparation(p) \/ Use(p) \/ Reclaim(p) \/ Refuse(p)

Cleanup(p, h) == Open(p, "cleanup", h) \/ OpenMissing(p, h)

Begin(p) ==
  \/ OpenStore(p)
  \/ \E h \in Handles : Open(p, "use", h) \/ Open(p, "release", h) \/ Cleanup(p, h)

Next ==
  \/ \E p \in Processes :
       \/ Begin(p) \/ Step(p) \/ InventoryRaw(p)
       \/ Stop(p) \/ StopPublishing(p) \/ StopLocking(p)
  \/ PowerLoss

Spec == Init /\ [][Next]_vars

(***************************************************************************)
(* A running process gets on, a borrower gives the package back, and         *)
(* somebody tries Cleanup again on every entry.  Nothing is said of crashes. *)
(***************************************************************************)
FairSpec ==
  /\ Spec
  /\ \A p \in Processes : WF_vars(Step(p))
  /\ \A p \in Processes, h \in Handles : SF_vars(h \in dirs /\ Cleanup(p, h))

-----------------------------------------------------------------------------
(* Properties *)

TypeOK ==
  /\ dirs \in SUBSET used /\ unflushed \in SUBSET used
  /\ dirsOnDisk \in SUBSET SUBSET used
  /\ names \in [Handles -> SUBSET Names]
  /\ onDisk \in [Handles -> SUBSET SUBSET Names]
  /\ torn \in [Handles -> SUBSET Stages]
  /\ tree \in [Handles -> Trees]
  /\ family \in Processes \cup {None}
  /\ lock \in [Handles -> Processes \cup {None}]
  /\ pc \in [Processes -> Locations]
  /\ op \in [Processes -> Operations \cup {None}]
  /\ arg \in [Processes -> Handles \cup {None}]
  /\ pub \in [Processes -> Published \cup {None}]
  /\ then \in [Processes -> Locations \cup {None}]
  /\ used \in SUBSET Handles
  /\ acked \in SUBSET used /\ ended \in SUBSET used
  /\ requested \in SUBSET used /\ preempted \in SUBSET used
  /\ resumed \in SUBSET used

\* What OpenVerifiedUse may lend once use.lock is free, whatever it tests of it.
Available(h) ==
  /\ Checked(h)
  /\ "ready.json" \in names[h] /\ "released.json" \notin names[h]
  /\ tree[h] = "whole"

(***************************************************************************)
(* Completion is recorded only after verification and flushing, and the       *)
(* package goes only after its revocation: whatever failed, ready.json         *)
(* without released.json stands beside all of the package, at the hands of a   *)
(* release as well.  The one exception is a power loss after a reclaim went    *)
(* on from a revocation of a completed package that an interrupted release     *)
(* had linked and not flushed (resumed): it may take the revocation back       *)
(* after files of the package are gone.                                      *)
(***************************************************************************)
ReadyIsComplete ==
  \A h \in Handles :
    "ready.json" \in names[h] /\ "released.json" \notin names[h] =>
      Available(h) \/ (PowerFails /\ h \in resumed)

(***************************************************************************)
(* What Prepare returned stays available until somebody calls Release,       *)
(* however often Cleanup is called and the host restarts.  The exception is  *)
(* an entry whose use.lock was taken between its creation and Prepare's own   *)
(* lock: it can be revoked before it is ready, and Prepare does not notice.   *)
(***************************************************************************)
AcknowledgedIsKept == \A h \in acked \ (requested \cup preempted) : Available(h)

(***************************************************************************)
(* A borrower (VerifiedPackageUse) is alone, and its package stays complete   *)
(* and unrevoked until it is given back: also when a power loss brought back   *)
(* a completed package whose files an interrupted release had removed.        *)
(***************************************************************************)
BorrowedIsUndisturbed ==
  \A p \in Processes :
    pc[p] = "using" =>
      /\ Available(arg[p])
      /\ \A q \in Processes \ {p} : arg[q] = arg[p] =>
           pc[q] \in {"opening", "recovering", "marking"}

(***************************************************************************)
(* `No use.lock-only unmarked crash state is produced' (allocate): use.lock   *)
(* always stands beside a binding of the entry, so the lock alone never       *)
(* makes an entry that nobody may adopt.                                     *)
(***************************************************************************)
NoUnmarkedLock ==
  \A h \in Handles :
    "use.lock" \in names[h] => names[h] \cap {"control.json", "released.json"} # {}

\* A reclaim can be resumed, by its use.lock or by its last file.
Finishable(h) == {"use.lock", "released.json"} \subseteq names[h] \/ Terminal(h)

(***************************************************************************)
(* `Every terminal crash leaves either a lockable revoked entry, exactly that *)
(* marker, or empty H' (reclaim), unless somebody took use.lock before the   *)
(* Prepare that created it.                                                  *)
(***************************************************************************)
RevokedIsFinishable == \A h \in (ended \cap dirs) \ preempted : Finishable(h)

(***************************************************************************)
(* The same words without the exception: a Prepare that is cancelled while it *)
(* creates use.lock removes it from under a reclaim that has locked it.       *)
(***************************************************************************)
EveryCrashIsFinishable == \A h \in ended \cap dirs : Finishable(h)

(***************************************************************************)
(* The store never holds more entries than it admits, since entries come and  *)
(* go under the family lock.                                                 *)
(***************************************************************************)
WithinCapacity == Cardinality(dirs) <= MaxPackages

(***************************************************************************)
(* Entries that Cleanup cannot remove: bytes whose modes were not repaired,   *)
(* an ownership binding that was not written to the end, and a use.lock that  *)
(* was removed from under its holder.                                        *)
(***************************************************************************)
Stranded(h) ==
  \/ tree[h] = "raw"
  \/ names[h] # {} /\ ~Controlled(h)
  \/ h \in preempted /\ "use.lock" \notin names[h]

Disturbed ==
  \/ PowerLoss
  \/ \E p \in Processes :
       \/ Stop(p) \/ StopPublishing(p) \/ StopLocking(p) \/ OpenStore(p)
       \/ \E h \in Handles : Open(p, "use", h) \/ Open(p, "release", h)

(***************************************************************************)
(* Wherever operations were interrupted, repeated Cleanup removes every entry *)
(* in the end, except completed packages and stranded ones, once failures and *)
(* new operations cease.                                                     *)
(***************************************************************************)
RestIsReclaimed ==
  <>[][~Disturbed]_vars =>
    <>[](\A h \in dirs : ~MayReclaim("cleanup", h) \/ Stranded(h))

(***************************************************************************)
(* `Interrupted ownership publication uses recoverable named stages'          *)
(* (docs/suite-workspace.md): an entry that Prepare left while it published    *)
(* its ownership can be recovered.                                           *)
(***************************************************************************)
InterruptedIsRecoverable ==
  \A h \in dirs :
    Initializing(h) /\ (\A p \in Processes : arg[p] # h) =>
      names[h] = {} \/ Controlled(h)

-----------------------------------------------------------------------------
(* Refinement *)

\* What a handle stands for, whatever a power loss may yet make of it.
Phase(h) ==
  IF h \notin used THEN "absent"
  ELSE IF h \notin UNION dirsOnDisk THEN "gone"
  ELSE IF h \in ended THEN "ended"
  ELSE IF "released.json" \in UNION onDisk[h] THEN "revoked"
  ELSE IF "ready.json" \in names[h] THEN "ready"
  ELSE "incomplete"

Lifecycle == INSTANCE PackageLifecycle WITH
  phase <- [h \in Handles |-> Phase(h)],
  lent <- [h \in Handles |-> {p \in Processes : pc[p] = "using" /\ arg[p] = h}]

(***************************************************************************)
(* All operations together are the lifecycle of a package: complete once,     *)
(* lent to one borrower at a time, never disturbed while it is lent, never     *)
(* lent once revoked, and gone only when revoked or never ready.              *)
(***************************************************************************)
ImplementsLifecycle == Lifecycle!Spec
=============================================================================
