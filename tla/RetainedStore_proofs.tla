----------------------- MODULE RetainedStore_proofs -----------------------
(***************************************************************************)
(* What RetainedStore promises for any number of handles and processes, with  *)
(* and without power losses.  A file system after a power loss is one of the  *)
(* moments since the last flush, so most of the invariant speaks of all of    *)
(* them at once (onDisk), and of who holds which of the two kinds of lock.    *)
(***************************************************************************)
EXTENDS RetainedStore, FiniteSetTheorems, TLAPS

-----------------------------------------------------------------------------
(* Who does what *)

\* Prepare publishes its binding; use.lock does not exist yet.
Fresh(p) ==
  \/ pc[p] \in Publishing /\ pub[p] = "control.json"
  \/ pc[p] = "syncing" /\ then[p] = "creating"
  \/ pc[p] = "creating"

\* Prepare has locked its own use.lock and still holds family.lock.
Owning(p) == pc[p] = "owned" \/ (pc[p] = "syncing" /\ then[p] = "owned")

Builds(p) ==
  \/ pc[p] \in {"building", "built", "finalized", "prepared"}
  \/ pc[p] = "syncing" /\ then[p] = "prepared"
  \/ pc[p] \in Publishing /\ pub[p] = "ready.json"

Reclaims(p) ==
  \/ pc[p] \in {"retiring", "revoked", "removing"}
  \/ pc[p] = "syncing" /\ then[p] \in {"retiring", "revoked", "removing"}
  \/ pc[p] \in Publishing /\ pub[p] = "released.json"

Engaged(p) == pc[p] \in {"verifying", "using", "deciding"} \/ Reclaims(p)

Works(p) == pc[p] = "checking" \/ Engaged(p)

Strips(p) == pc[p] \in {"stripping", "unlinked"} \/ (pc[p] = "syncing" /\ then[p] = "stripping")

Starts(p) == Fresh(p) \/ pc[p] = "locking" \/ Owning(p)

Locks(p) == Owning(p) \/ Builds(p) \/ Works(p)

\* Waits for a lock with nothing in hand.
Waits(p) == pc[p] \in {"recovering", "marking"}

-----------------------------------------------------------------------------
(* What is true of an entry *)

Rooted(h) == \A D \in dirsOnDisk : h \in D

Whole(h) == tree[h] = "whole" /\ h \notin unflushed

Resumable(h, s) == {"use.lock", "released.json"} \subseteq s \/ (s \subseteq {"released.json"} /\ tree[h] = "none")

Files(h) ==
  /\ names[h] \in onDisk[h]
  /\ names[h] # {} => h \in dirs
  /\ h \notin dirs => tree[h] = "none"
  /\ tree[h] = "none" => h \notin unflushed
  /\ \A s \in onDisk[h] :
       /\ "use.lock" \in s => s \cap {"control.json", "released.json"} # {}
       /\ "ready.json" \in s => {"control.json", "use.lock"} \subseteq s
  /\ "use.lock" \in names[h] => Rooted(h)

Completion(h) ==
  /\ Exposed(h) =>
       h \in requested \/ (Whole(h) /\ "ready.json" \in names[h] /\ "released.json" \notin names[h])
  /\ Exposed(h) => Whole(h) \/ h \in resumed
  /\ "ready.json" \in names[h] /\ "released.json" \notin names[h] =>
       Whole(h) \/ (PowerFails /\ h \in resumed)
  /\ h \in resumed => h \in requested
  /\ h \in acked \ (requested \cup preempted) =>
       h \in dirs /\ \A s \in onDisk[h] : "ready.json" \in s /\ "released.json" \notin s

Revocation(h) ==
  h \notin preempted =>
    /\ \A s \in onDisk[h] : h \in ended \/ "released.json" \in s => Resumable(h, s)
    /\ "released.json" \in UNION onDisk[h] => Resumable(h, names[h])

\* What a revocation and a completion leave behind until they are flushed.
Succession(h) ==
  /\ "use.lock" \in names[h] /\ "released.json" \in UNION onDisk[h] =>
       "released.json" \in names[h]
  /\ h \in ended => \A s \in onDisk[h] : "use.lock" \in s => "released.json" \in s
  /\ (\E s \in onDisk[h] : "ready.json" \in s) /\ "released.json" \notin UNION onDisk[h] =>
       "ready.json" \in names[h] \/ h \in ended
  /\ h \in acked /\ "ready.json" \in names[h] =>
       \/ h \in ended \/ "released.json" \in UNION onDisk[h]
       \/ \A s \in onDisk[h] : "ready.json" \in s

Unborn(h) == h \notin used => onDisk[h] = {{}} /\ lock[h] = None

Entry(h) == Files(h) /\ Completion(h) /\ Revocation(h) /\ Succession(h) /\ Unborn(h)

Store ==
  /\ dirs \in dirsOnDisk
  /\ \A D \in dirsOnDisk : IsFiniteSet(D) /\ Cardinality(D) <= MaxPackages

-----------------------------------------------------------------------------
(* What a process knows *)

Placed(p) ==
  /\ (pc[p] \in {"idle", "allocating"}) <=> (arg[p] = None)
  /\ pc[p] = "allocating" => op[p] = "prepare"
  /\ pc[p] = "syncing" =>
       then[p] \in {"creating", "owned", "prepared", "retiring", "revoked", "removing", "stripping"}
  /\ pc[p] \in Publishing => pub[p] \in Published
  /\ op[p] = "release" /\ arg[p] # None => arg[p] \in requested
  /\ arg[p] = None \/ Waits(p) \/ arg[p] \in used
  /\ (family = p) <=> (Starts(p) \/ Strips(p))
  /\ Locks(p) => lock[arg[p]] = p
  /\ \A g \in Handles : lock[g] = p => arg[p] = g /\ (Locks(p) \/ Strips(p))
  /\ Starts(p) \/ Builds(p) => arg[p] \notin acked

\* The binding is published step by step in an entry that nobody else can use.
Binding(p) ==
  LET h == arg[p]
  IN Fresh(p) =>
       /\ h \in dirs /\ h \notin ended /\ tree[h] = "none" /\ lock[h] = None
       /\ \A s \in onDisk[h] : s \subseteq Ownership
       /\ pc[p] = "creating" => onDisk[h] = {{"control.json"}}
       /\ pc[p] = "syncing" => names[h] = {"control.json"}
       /\ pc[p] = "unstaging" => names[h] = {"control.stage", "control.json"}
       /\ pc[p] \in {"writing", "linking"} => names[h] = {"control.stage"}
       /\ pc[p] = "staging" => names[h] = {}
       /\ \A q \in Processes : q # p /\ arg[q] = h => Waits(q)

\* use.lock exists.  Somebody may take it first, and even revoke the entry.
Initializes(p) ==
  LET h == arg[p]
  IN pc[p] = "locking" \/ Owning(p) =>
       /\ {"control.json", "use.lock"} \subseteq names[h]
       /\ "control.stage" \notin names[h]
       /\ tree[h] = "none"
       /\ \A s \in onDisk[h] : "control.json" \in s /\ "ready.json" \notin s
       /\ h \notin preempted => \A s \in onDisk[h] : s \subseteq {"control.json", "use.lock"}
       /\ pc[p] = "locking" =>
            /\ lock[h] # None => h \in preempted
            /\ \A q \in Processes : lock[h] = q => Works(q) /\ arg[q] = h

Completes(p) ==
  LET h == arg[p]
  IN Builds(p) =>
       /\ {"control.json", "use.lock"} \subseteq names[h]
       /\ h \notin preempted => \A s \in onDisk[h] : {"released.json", "released.stage"} \cap s = {}
       /\ pc[p] \in {"building", "built", "finalized", "staging", "writing", "linking"} =>
            \A s \in onDisk[h] : "ready.json" \notin s
       /\ pc[p] \in Publishing \cup {"syncing", "prepared"} => Whole(h)
       /\ pc[p] \in {"unstaging", "syncing", "prepared"} => "ready.json" \in names[h]
       /\ pc[p] = "prepared" => onDisk[h] = {names[h]}

Reclaiming(p) ==
  LET h == arg[p]
  IN Engaged(p) =>
       /\ "use.lock" \in names[h] \/ h \in preempted
       /\ pc[p] = "using" => Verified(h)
       /\ Reclaims(p) =>
            h \in requested \/ "ready.json" \notin names[h] \/ "released.json" \in names[h]
       /\ \/ pc[p] \in {"revoked", "removing"}
          \/ pc[p] = "syncing" /\ then[p] \in {"revoked", "removing"}
          \/ pc[p] = "unstaging"
          => "released.json" \in names[h] \/ "use.lock" \notin names[h]
       /\ \/ pc[p] \in {"revoked", "removing"}
          \/ pc[p] = "syncing" /\ then[p] = "removing"
          => ~Exposed(h) \/ h \in resumed
       /\ pc[p] \in {"writing", "linking", "unstaging"} => "released.stage" \in names[h]

Retires(p) ==
  LET h == arg[p]
  IN Strips(p) =>
       /\ pc[p] = "unlinked" => h \notin dirs
       /\ tree[h] = "none" /\ "ready.json" \notin names[h]
       /\ "use.lock" \in names[h] =>
            lock[h] = p /\ "released.json" \in names[h]
              /\ names[h] \subseteq {"control.json", "use.lock", "released.json"}
       /\ h \notin preempted => names[h] \subseteq Ownership \cup {"use.lock", "released.json"}

Process(p) == Placed(p) /\ Binding(p) /\ Initializes(p) /\ Completes(p) /\ Reclaiming(p) /\ Retires(p)

IInv ==
  /\ TypeOK
  /\ Store
  /\ \A h \in Handles : Entry(h)
  /\ \A p \in Processes : Process(p)

-----------------------------------------------------------------------------
(* Who may be at an entry together *)

\* A process with a handle is in one of the roles above.
LEMMA Coverage ==
  ASSUME TypeOK, NEW q \in Processes, Placed(q), arg[q] # None
  PROVE  \/ Waits(q) \/ pc[q] = "opening" \/ Fresh(q) \/ pc[q] = "locking" \/ Owning(q)
         \/ Builds(q) \/ Works(q) \/ Strips(q)
  BY DEF TypeOK, Placed, Waits, Fresh, Owning, Builds, Works, Engaged, Reclaims, Strips,
         Locations, Publishing, Published

\* The invariant by its parts.
LEMMA Known ==
  ASSUME IInv
  PROVE  /\ TypeOK /\ Store
         /\ \A h \in Handles : Entry(h)
         /\ \A q \in Processes : Placed(q) /\ Binding(q) /\ Initializes(q) /\ Completes(q)
                                 /\ Reclaiming(q) /\ Retires(q)
  BY DEF IInv, Process

\* While Prepare binds an entry, everybody else there waits.
LEMMA BesideFresh ==
  ASSUME IInv, NEW p \in Processes, NEW q \in Processes \ {p}, arg[q] = arg[p], Fresh(p)
  PROVE  Waits(q)
  BY Known DEF Binding

\* Beside the holder of an entry's lock there are only those who have not got it, a
\* Prepare that was preempted and somebody who removes an entry without use.lock.
LEMMA BesideHolder ==
  ASSUME IInv, NEW p \in Processes, NEW q \in Processes \ {p}, arg[q] = arg[p], Locks(p)
  PROVE  \/ Waits(q) \/ pc[q] = "opening"
         \/ pc[q] = "locking" /\ Works(p) /\ arg[p] \in preempted
         \/ Strips(q) /\ "use.lock" \notin names[arg[p]] /\ Works(p)
<1> USE Known
<1>1. arg[p] \in Handles /\ arg[p] # None
  BY DEF Placed, TypeOK, Locks, Owning, Builds, Works, Engaged, Reclaims, Publishing
<1>2. lock[arg[p]] = p /\ p # None
  BY NoneAssumption DEF Placed
<1>3. ~(Owning(q) \/ Builds(q) \/ Works(q))
  BY <1>2 DEF Placed, Locks
<1>4. ~Fresh(q)
  BY <1>2 DEF Binding
<1>5. pc[q] = "locking" => Works(p) /\ arg[p] \in preempted
  BY <1>1, <1>2 DEF Initializes
<1>6. Strips(q) => "use.lock" \notin names[arg[p]]
  BY <1>2 DEF Retires
<1>7. Strips(q) => Works(p)
  BY <1>6 DEF Locks, Initializes, Completes
<1> QED
  BY <1>1, <1>3, <1>4, <1>5, <1>6, <1>7, Coverage

\* family.lock has one holder.
LEMMA OneFamily ==
  ASSUME IInv, NEW p \in Processes, NEW q \in Processes \ {p}, Starts(p) \/ Strips(p)
  PROVE  ~Starts(q) /\ ~Strips(q)
  BY Known DEF Placed

\* While Prepare goes for its own use.lock, only a preemptor has it.
LEMMA BesideLocking ==
  ASSUME IInv, NEW p \in Processes, NEW q \in Processes \ {p}, arg[q] = arg[p],
         pc[p] = "locking"
  PROVE  Waits(q) \/ pc[q] = "opening" \/ (Works(q) /\ arg[p] \in preempted)
<1> USE Known
<1>1. arg[p] \in Handles /\ arg[p] # None
  BY DEF Placed, TypeOK
<1>2. ~Starts(q) /\ ~Strips(q)
  BY OneFamily DEF Starts
<1>3. Locks(q) => Works(q) /\ arg[p] \in preempted
  BY <1>1, NoneAssumption DEF Placed, Initializes
<1> QED
  BY <1>1, <1>2, <1>3, Coverage DEF Starts, Locks

\* Who removes the last files has family.lock, and any lock that is left.
LEMMA BesideStrips ==
  ASSUME IInv, NEW p \in Processes, NEW q \in Processes \ {p}, arg[q] = arg[p], Strips(p)
  PROVE  Waits(q) \/ pc[q] = "opening" \/ (Works(q) /\ "use.lock" \notin names[arg[p]])
<1> USE Known
<1>1. arg[p] \in Handles /\ arg[p] # None
  BY DEF Placed, TypeOK, Strips
<1>2. ~Starts(q) /\ ~Strips(q)
  BY OneFamily
<1>3. Locks(q) => Works(q) /\ "use.lock" \notin names[arg[p]]
  BY <1>1, <1>2, BesideHolder, NoneAssumption DEF Waits, Strips
<1> QED
  BY <1>1, <1>2, <1>3, Coverage DEF Starts, Locks

-----------------------------------------------------------------------------
(* What a step leaves alone *)

\* The values that the invariant reads of an entry.
Same(g) ==
  /\ names'[g] = names[g] /\ onDisk'[g] = onDisk[g] /\ tree'[g] = tree[g]
  /\ (g \in unflushed') <=> (g \in unflushed)
  /\ (g \in dirs') <=> (g \in dirs)
  /\ (g \in ended') <=> (g \in ended)
  /\ Rooted(g) => Rooted(g)'

\* A step of p at h leaves every other process and entry alone.
Elsewhere(p, h) ==
  /\ arg[p] \in {h, None} /\ arg'[p] \in {h, None}
  /\ \A q \in Processes \ {p} :
       /\ pc'[q] = pc[q] /\ op'[q] = op[q] /\ arg'[q] = arg[q]
       /\ pub'[q] = pub[q] /\ then'[q] = then[q]
       /\ (family' = q) <=> (family = q)
       /\ \A g \in Handles : (lock'[g] = q) <=> (lock[g] = q)
  /\ \A g \in Handles \ {h} :
       /\ Same(g)
       /\ lock'[g] = lock[g]
       /\ (g \in acked') <=> (g \in acked)
       /\ (g \in requested') <=> (g \in requested)
       /\ (g \in preempted') <=> (g \in preempted)
       /\ (g \in resumed') <=> (g \in resumed)
       /\ (g \in used') <=> (g \in used)
  /\ used \subseteq used' /\ requested \subseteq requested'
  /\ preempted \subseteq preempted' /\ resumed \subseteq resumed'
  /\ \A g \in Handles : g \in resumed' => g \in resumed \/ g \in requested'

\* An entry that a step does not touch is as it was.
LEMMA FrameEntry ==
  ASSUME IInv, NEW p \in Processes, NEW h, Elsewhere(p, h), NEW g \in Handles \ {h}
  PROVE  Entry(g)'
<1> USE Known DEF Elsewhere, Same
<1>1. Files(g)'
  BY DEF Entry, Files
<1>2. Completion(g)'
  BY DEF Entry, Completion, Exposed, Whole
<1>3. Revocation(g)'
  BY DEF Entry, Revocation, Resumable
<1>4. Succession(g)'
  BY DEF Entry, Succession
<1>5. Unborn(g)'
  BY DEF Entry, Unborn
<1> QED
  BY <1>1, <1>2, <1>3, <1>4, <1>5 DEF Entry

\* The roles of a process depend on its own place only.
LEMMA SameRoles ==
  ASSUME NEW q \in Processes, pc'[q] = pc[q], then'[q] = then[q], pub'[q] = pub[q]
  PROVE  /\ Fresh(q)' <=> Fresh(q)
         /\ Owning(q)' <=> Owning(q)
         /\ Builds(q)' <=> Builds(q)
         /\ Reclaims(q)' <=> Reclaims(q)
         /\ Works(q)' <=> Works(q)
         /\ Engaged(q)' <=> Engaged(q)
         /\ Strips(q)' <=> Strips(q)
         /\ Starts(q)' <=> Starts(q)
         /\ Locks(q)' <=> Locks(q)
         /\ Waits(q)' <=> Waits(q)
  BY DEF Fresh, Owning, Builds, Reclaims, Works, Engaged, Strips, Starts, Locks, Waits

\* Every role is played at an entry.
LEMMA HasHandle ==
  ASSUME IInv, NEW q \in Processes
  PROVE  (Fresh(q) \/ Owning(q) \/ Builds(q) \/ Works(q) \/ Strips(q) \/ Starts(q) \/ Locks(q)
            \/ Waits(q) \/ pc[q] = "opening")
           => arg[q] \in Handles /\ arg[q] # None
  BY Known DEF Placed, TypeOK, Fresh, Owning, Builds, Works, Engaged, Reclaims, Strips, Starts,
               Locks, Waits, Publishing

\* A process keeps its place and its locks while another one moves.
LEMMA FramePlaced ==
  ASSUME IInv, NEW p \in Processes, NEW h, Elsewhere(p, h), NEW q \in Processes \ {p},
         arg[q] # None => (arg[q] \in acked' => arg[q] \in acked \/ ~(Starts(q) \/ Builds(q)))
  PROVE  Placed(q)'
<1>0. /\ pc'[q] = pc[q] /\ then'[q] = then[q] /\ pub'[q] = pub[q] /\ op'[q] = op[q]
      /\ arg'[q] = arg[q] /\ ((family' = q) <=> (family = q))
  BY DEF Elsewhere
<1>1. \A g \in Handles : (lock'[g] = q) <=> (lock[g] = q)
  BY DEF Elsewhere
<1>2. used \subseteq used' /\ requested \subseteq requested'
  BY DEF Elsewhere
<1>3. Placed(q)
  BY Known
<1>4. Starts(q) \/ Builds(q) \/ Locks(q) => arg[q] \in Handles /\ arg[q] # None
  BY HasHandle DEF Locks
<1> QED
  BY <1>0, <1>1, <1>2, <1>3, <1>4, SameRoles DEF Placed, Waits

\* A process at another entry notices nothing.
LEMMA FrameProcess ==
  ASSUME IInv, NEW p \in Processes, NEW h, Elsewhere(p, h),
         NEW q \in Processes \ {p}, arg[q] # h \/ arg[q] = None
  PROVE  Process(q)'
<1>0. /\ pc'[q] = pc[q] /\ then'[q] = then[q] /\ pub'[q] = pub[q] /\ op'[q] = op[q]
      /\ arg'[q] = arg[q]
  BY DEF Elsewhere
<1>r. /\ Fresh(q)' <=> Fresh(q)
      /\ Owning(q)' <=> Owning(q)
      /\ Builds(q)' <=> Builds(q)
      /\ Reclaims(q)' <=> Reclaims(q)
      /\ Engaged(q)' <=> Engaged(q)
      /\ Strips(q)' <=> Strips(q)
  BY <1>0, SameRoles
<1>1. Placed(q)'
  <2>1. arg[q] # None => arg[q] \in Handles \ {h}
    BY Known DEF TypeOK
  <2> QED
    BY <2>1, FramePlaced DEF Elsewhere
<1>2. CASE arg[q] = None
  <2>1. ~(Fresh(q) \/ Owning(q) \/ Builds(q) \/ Works(q) \/ Strips(q) \/ Starts(q))
    BY <1>2, HasHandle
  <2>2. pc[q] # "locking" /\ ~Engaged(q)
    BY <2>1 DEF Starts, Works
  <2> QED
    BY <1>0, <1>r, <1>1, <2>1, <2>2 DEF Process, Binding, Initializes, Completes, Reclaiming, Retires
<1>3. CASE arg[q] # None
  <2>1. arg[q] \in Handles \ {h}
    BY <1>3, Known DEF TypeOK
  <2> DEFINE g == arg[q]
  <2>2. /\ names'[g] = names[g] /\ onDisk'[g] = onDisk[g] /\ tree'[g] = tree[g]
        /\ (g \in unflushed') <=> (g \in unflushed)
        /\ (g \in dirs') <=> (g \in dirs)
        /\ (g \in ended') <=> (g \in ended)
        /\ lock'[g] = lock[g]
        /\ (g \in requested') <=> (g \in requested)
        /\ (g \in preempted') <=> (g \in preempted)
        /\ (g \in resumed') <=> (g \in resumed)
    BY <2>1 DEF Elsewhere, Same
  <2>3. Binding(q)'
    <3>1. \A r \in Processes : r # q /\ arg'[r] = g => r # p /\ arg[r] = g
      BY <2>1, <1>3 DEF Elsewhere
    <3>2. \A r \in Processes \ {p} : Waits(r)' <=> Waits(r)
      BY DEF Elsewhere, Waits
    <3>3. Binding(q)
      BY Known
    <3> QED
      BY <1>0, <1>r, <2>2, <3>1, <3>2, <3>3 DEF Binding
  <2>4. Initializes(q)'
    <3>1. \A r \in Processes : lock[g] = r /\ pc[q] = "locking" => Works(r) /\ arg[r] = g
      BY Known DEF Initializes
    <3>2. \A r \in Processes : lock[g] = r /\ pc[q] = "locking" => r # p
      BY <3>1, <2>1, <1>3 DEF Elsewhere
    <3>3. \A r \in Processes \ {p} : (Works(r)' <=> Works(r)) /\ arg'[r] = arg[r]
      BY SameRoles DEF Elsewhere
    <3>4. Initializes(q)
      BY Known
    <3> QED
      BY <1>0, <1>r, <2>2, <3>1, <3>2, <3>3, <3>4 DEF Initializes
  <2>5. Completes(q)'
    <3>1. Completes(q)
      BY Known
    <3> QED
      BY <1>0, <1>r, <2>2, <3>1 DEF Completes, Whole
  <2>6. Reclaiming(q)'
    <3>1. Reclaiming(q)
      BY Known
    <3> QED
      BY <1>0, <1>r, <2>2, <3>1 DEF Reclaiming, Exposed, Verified
  <2>7. Retires(q)'
    <3>1. Retires(q)
      BY Known
    <3> QED
      BY <1>0, <1>r, <2>2, <3>1 DEF Retires, Ownership
  <2> QED
    BY <1>1, <2>3, <2>4, <2>5, <2>6, <2>7 DEF Process
<1> QED
  BY <1>2, <1>3

-----------------------------------------------------------------------------
(* The others at the entry *)

\* Who has not looked at an entry yet knows nothing of it.
LEMMA BesideLight ==
  ASSUME IInv, NEW p \in Processes, NEW h \in Handles, Elsewhere(p, h),
         NEW q \in Processes \ {p}, arg[q] = h, Waits(q) \/ pc[q] \in {"opening", "checking"}
  PROVE  Process(q)'
<1>0. /\ pc'[q] = pc[q] /\ then'[q] = then[q] /\ pub'[q] = pub[q] /\ arg'[q] = arg[q]
  BY DEF Elsewhere
<1>1. ~Fresh(q) /\ ~Owning(q) /\ ~Builds(q) /\ ~Reclaims(q) /\ ~Engaged(q) /\ ~Strips(q)
        /\ ~Starts(q) /\ pc[q] # "locking"
  BY DEF Waits, Fresh, Owning, Builds, Reclaims, Engaged, Strips, Starts, Publishing
<1>2. Placed(q)'
  BY <1>1, FramePlaced
<1>3. ~Fresh(q)' /\ ~Owning(q)' /\ ~Builds(q)' /\ ~Engaged(q)' /\ ~Strips(q)'
  BY <1>0, <1>1, SameRoles
<1> QED
  BY <1>0, <1>1, <1>2, <1>3 DEF Process, Binding, Initializes, Completes, Reclaiming, Retires

\* A step that leaves the entry as it is.
LEMMA BesideStill ==
  ASSUME IInv, NEW p \in Processes, NEW h \in Handles, Elsewhere(p, h), Same(h),
         NEW q \in Processes \ {p}, arg[q] = h,
         lock'[h] \in Processes \cup {None},
         h \in acked' => h \in acked,
         Fresh(q) => lock'[h] = None /\ (arg'[p] = h => Waits(p)'),
         pc[q] = "locking" /\ lock'[h] = p => Works(p)' /\ arg'[p] = h /\ h \in preempted'
  PROVE  Process(q)'
<1>0. /\ pc'[q] = pc[q] /\ then'[q] = then[q] /\ pub'[q] = pub[q] /\ op'[q] = op[q]
      /\ arg'[q] = arg[q]
  BY DEF Elsewhere
<1>r. /\ Fresh(q)' <=> Fresh(q)
      /\ Owning(q)' <=> Owning(q)
      /\ Builds(q)' <=> Builds(q)
      /\ Reclaims(q)' <=> Reclaims(q)
      /\ Engaged(q)' <=> Engaged(q)
      /\ Strips(q)' <=> Strips(q)
  BY <1>0, SameRoles
<1>1. Placed(q)'
  BY FramePlaced
<1>2. /\ names'[h] = names[h] /\ onDisk'[h] = onDisk[h] /\ tree'[h] = tree[h]
      /\ (h \in unflushed') <=> (h \in unflushed)
      /\ (h \in dirs') <=> (h \in dirs)
      /\ (h \in ended') <=> (h \in ended)
  BY DEF Same
<1>p. /\ requested \subseteq requested' /\ preempted \subseteq preempted'
      /\ resumed \subseteq resumed'
      /\ (lock'[h] = q) <=> (lock[h] = q)
  BY DEF Elsewhere
<1>3. Binding(q)'
  <2>1. \A r \in Processes \ {p, q} : arg'[r] = h => arg[r] = h
    BY DEF Elsewhere
  <2>2. \A r \in Processes \ {p} : Waits(r)' <=> Waits(r)
    BY DEF Elsewhere, Waits
  <2>3. Binding(q)
    BY Known
  <2> QED
    BY <1>0, <1>r, <1>2, <2>1, <2>2, <2>3 DEF Binding
<1>4. Initializes(q)'
  <2>1. Initializes(q)
    BY Known
  <2>2. \A r \in Processes \ {p} : (Works(r)' <=> Works(r)) /\ arg'[r] = arg[r]
                                   /\ ((lock'[h] = r) <=> (lock[h] = r))
    BY SameRoles DEF Elsewhere
  <2> QED
    BY <1>0, <1>r, <1>2, <1>p, <2>1, <2>2, NoneAssumption DEF Initializes
<1>5. Completes(q)'
  <2>1. Completes(q)
    BY Known
  <2> QED
    BY <1>0, <1>r, <1>2, <1>p, <2>1 DEF Completes, Whole
<1>6. Reclaiming(q)'
  <2>1. Reclaiming(q)
    BY Known
  <2> QED
    BY <1>0, <1>r, <1>2, <1>p, <2>1 DEF Reclaiming, Exposed, Verified
<1>7. Retires(q)'
  <2>1. Retires(q)
    BY Known
  <2> QED
    BY <1>0, <1>r, <1>2, <1>p, <2>1 DEF Retires, Ownership
<1> QED
  BY <1>1, <1>3, <1>4, <1>5, <1>6, <1>7 DEF Process

\* A step of the holder that changes what is in the entry.
LEMMA BesideLocks ==
  ASSUME IInv, NEW p \in Processes, NEW h \in Handles, arg[p] = h, Elsewhere(p, h),
         NEW q \in Processes \ {p}, arg[q] = h, Locks(p),
         (h \in dirs') <=> (h \in dirs), h \in acked' => h \in acked,
         Works(p) /\ lock'[h] = p => Works(p)' /\ arg'[p] = h,
         Works(p) =>
           /\ \A n \in {"control.json", "use.lock"} : n \in names'[h] <=> n \in names[h]
           /\ \A n \in {"control.stage", "ready.json"} : n \in names'[h] => n \in names[h]
           /\ \A s \in onDisk'[h] : s \in onDisk[h] \/ s = names[h] \/ s = names'[h]
           /\ tree[h] = "none" => tree'[h] = "none",
         pc[p] = "checking" => names'[h] = names[h] /\ tree'[h] = tree[h]
  PROVE  Process(q)'
<1>0. /\ pc'[q] = pc[q] /\ then'[q] = then[q] /\ pub'[q] = pub[q] /\ op'[q] = op[q]
      /\ arg'[q] = arg[q]
  BY DEF Elsewhere
<1>r. /\ Fresh(q)' <=> Fresh(q)
      /\ Owning(q)' <=> Owning(q)
      /\ Builds(q)' <=> Builds(q)
      /\ Engaged(q)' <=> Engaged(q)
      /\ Strips(q)' <=> Strips(q)
  BY <1>0, SameRoles
<1>1. Placed(q)'
  BY FramePlaced
<1>p. /\ requested \subseteq requested' /\ preempted \subseteq preempted'
      /\ resumed \subseteq resumed'
      /\ (lock'[h] = q) <=> (lock[h] = q)
      /\ lock[h] = p
  BY Known DEF Elsewhere, Placed
<1>2. CASE pc[q] = "locking" /\ Works(p) /\ h \in preempted
  <2>1. Initializes(q) /\ Files(h)
    BY Known DEF Entry
  <2>2. \A r \in Processes \ {p} : lock'[h] # r
    BY <1>p, <2>1, NoneAssumption DEF Elsewhere
  <2>3. ~Fresh(q) /\ ~Builds(q) /\ ~Engaged(q) /\ ~Strips(q)
    BY <1>2 DEF Fresh, Builds, Engaged, Reclaims, Strips, Publishing
  <2>4. Initializes(q)'
    BY <1>0, <1>2, <1>r, <1>p, <2>1, <2>2 DEF Initializes, Files
  <2> QED
    BY <1>r, <1>1, <2>3, <2>4 DEF Process, Binding, Completes, Reclaiming, Retires
<1>3. CASE Strips(q) /\ "use.lock" \notin names[h] /\ Works(p)
  <2>1. Retires(q) /\ Reclaiming(p)
    BY Known
  <2>2. ~Fresh(q) /\ ~Owning(q) /\ ~Builds(q) /\ ~Engaged(q) /\ pc[q] # "locking"
    BY <1>3 DEF Fresh, Owning, Builds, Engaged, Reclaims, Strips, Publishing
  <2>3. h \in preempted \/ (names'[h] = names[h] /\ tree'[h] = tree[h])
    <3>1. CASE Engaged(p)
      BY <3>1, <2>1, <1>3 DEF Reclaiming
    <3>2. CASE pc[p] = "checking"
      BY <3>2
    <3> QED
      BY <1>3, <3>1, <3>2 DEF Works
  <2>4. Retires(q)'
    BY <1>0, <1>r, <1>3, <1>p, <2>1, <2>3 DEF Retires, Ownership
  <2> QED
    BY <1>0, <1>r, <1>1, <2>2, <2>4 DEF Process, Binding, Initializes, Completes, Reclaiming
<1>4. CASE Waits(q) \/ pc[q] = "opening"
  BY <1>4, BesideLight
<1> QED
  BY <1>2, <1>3, <1>4, BesideHolder

\* A step at an entry that has no use.lock any more, or loses it.
LEMMA BesideUnlocked ==
  ASSUME IInv, NEW p \in Processes, NEW h \in Handles, arg[p] = h, Elsewhere(p, h),
         NEW q \in Processes \ {p}, arg[q] = h,
         \/ Waits(q) \/ pc[q] = "opening"
         \/ Works(q) /\ ("use.lock" \notin names[h] \/ h \in preempted),
         h \in acked' => h \in acked,
         "ready.json" \notin names[h], names'[h] \subseteq names[h],
         "use.lock" \notin names'[h],
         "released.stage" \in names[h] => "released.stage" \in names'[h],
         \A s \in onDisk'[h] : s \in onDisk[h] \/ s = names'[h]
  PROVE  Process(q)'
<1>0. /\ pc'[q] = pc[q] /\ then'[q] = then[q] /\ pub'[q] = pub[q] /\ op'[q] = op[q]
      /\ arg'[q] = arg[q]
  BY DEF Elsewhere
<1>r. /\ Fresh(q)' <=> Fresh(q)
      /\ Owning(q)' <=> Owning(q)
      /\ Builds(q)' <=> Builds(q)
      /\ Engaged(q)' <=> Engaged(q)
      /\ Reclaims(q)' <=> Reclaims(q)
      /\ Strips(q)' <=> Strips(q)
  BY <1>0, SameRoles
<1>n. "ready.json" \notin names'[h]
  OBVIOUS
<1>1. Placed(q)'
  BY FramePlaced
<1>2. CASE Waits(q) \/ pc[q] \in {"opening", "checking"}
  BY <1>2, BesideLight
<1>3. CASE Engaged(q)
  <2>1. Reclaiming(q)
    BY Known
  <2>2. ~Fresh(q) /\ ~Owning(q) /\ ~Builds(q) /\ ~Strips(q) /\ pc[q] # "locking"
    BY <1>3 DEF Fresh, Owning, Builds, Engaged, Reclaims, Strips, Publishing
  <2>3. preempted \subseteq preempted' /\ resumed \subseteq resumed'
    BY DEF Elsewhere
  <2>4. h \in preempted
    BY <1>3, <2>1 DEF Reclaiming, Waits, Engaged, Reclaims, Publishing
  <2>5. pc[q] # "using"
    BY <1>3, <2>1 DEF Reclaiming, Exposed, Verified
  <2>6. Reclaiming(q)'
    BY <1>0, <1>r, <1>n, <2>1, <2>3, <2>4, <2>5 DEF Reclaiming, Exposed, Verified
  <2> QED
    BY <1>0, <1>r, <1>1, <2>2, <2>6 DEF Process, Binding, Initializes, Completes, Retires
<1> QED
  BY <1>2, <1>3 DEF Works

\* A step of p at h has to be shown for h, for p and for its company there.
LEMMA Conclude ==
  ASSUME IInv, NEW p \in Processes, NEW h \in Handles \cup {None}, Elsewhere(p, h),
         TypeOK', Store', h \in Handles => Entry(h)', Process(p)',
         \A q \in Processes \ {p} : arg[q] = h /\ h # None => Process(q)'
  PROVE  IInv'
<1>1. ASSUME NEW g \in Handles
      PROVE  Entry(g)'
  BY FrameEntry
<1>2. ASSUME NEW q \in Processes
      PROVE  Process(q)'
  <2>1. CASE q # p /\ (arg[q] # h \/ arg[q] = None)
    BY <2>1, FrameProcess
  <2> QED
    BY <2>1
<1> QED
  BY <1>1, <1>2 DEF IInv

-----------------------------------------------------------------------------
(* The effects on an entry *)

\* What a change of the files of h leaves alone of it.
Kept(h) ==
  /\ h \in used /\ used \subseteq used'
  /\ tree'[h] = tree[h]
  /\ (h \in unflushed') <=> (h \in unflushed)
  /\ (h \in dirs') <=> (h \in dirs)
  /\ (h \in ended') <=> (h \in ended)
  /\ (h \in acked') <=> (h \in acked)
  /\ (h \in requested') <=> (h \in requested)
  /\ (h \in preempted') <=> (h \in preempted)
  /\ (h \in resumed') <=> (h \in resumed)
  /\ Rooted(h) => Rooted(h)'

Adds(h, n) == names'[h] = names[h] \cup {n} /\ onDisk'[h] = onDisk[h] \cup {names'[h]}
Drops(h, n) == names'[h] = names[h] \ {n} /\ onDisk'[h] = onDisk[h] \cup {names'[h]}

\* The invariant of an entry by its parts.
LEMMA EntryParts ==
  ASSUME IInv, NEW h \in Handles
  PROVE  Files(h) /\ Completion(h) /\ Revocation(h) /\ Succession(h) /\ Unborn(h)
  BY Known DEF Entry

\* An entry whose files stay keeps its invariant.
LEMMA EntryStill ==
  ASSUME IInv, NEW h \in Handles, Same(h), h \in acked' => h \in acked,
         requested \subseteq requested', preempted \subseteq preempted',
         resumed \subseteq resumed', h \in resumed' => h \in resumed \/ h \in requested',
         used \subseteq used', h \notin used => lock'[h] = None
  PROVE  Entry(h)'
<1> USE EntryParts DEF Same
<1>1. Files(h)'
  BY DEF Files
<1>2. Completion(h)'
  BY DEF Completion, Exposed, Whole
<1>3. Revocation(h)'
  BY DEF Revocation, Resumable
<1>4. Succession(h)'
  BY DEF Succession
<1>5. Unborn(h)'
  BY DEF Unborn
<1> QED
  BY <1>1, <1>2, <1>3, <1>4, <1>5 DEF Entry

\* A stage or a binding appears.
LEMMA EntryAddPlain ==
  ASSUME IInv, NEW h \in Handles, NEW n \in Stages \cup {"control.json"}, Adds(h, n), Kept(h),
         h \in dirs,
         \/ "use.lock" \in names[h] \/ h \in preempted
         \/ h \notin ended /\ "released.json" \notin UNION onDisk[h]
  PROVE  Entry(h)'
<1> USE EntryParts DEF Kept, Adds, Stages
<1>0. names[h] \in onDisk[h] /\ n \notin {"released.json", "ready.json", "use.lock"}
  BY DEF Files
<1>1. Files(h)'
  BY <1>0 DEF Files
<1>2. Completion(h)'
  BY <1>0 DEF Completion, Exposed, Whole
<1>3. Revocation(h)'
  BY <1>0 DEF Revocation, Resumable
<1>4. Succession(h)'
  BY <1>0 DEF Succession
<1> QED
  BY <1>1, <1>2, <1>3, <1>4 DEF Entry, Unborn

\* use.lock appears beside the binding, when the entry itself is on disk.
LEMMA EntryAddLock ==
  ASSUME IInv, NEW h \in Handles, Adds(h, "use.lock"), Kept(h), Rooted(h)',
         h \in dirs, h \notin ended, onDisk[h] = {{"control.json"}}, tree[h] = "none"
  PROVE  Entry(h)'
<1> USE EntryParts DEF Kept, Adds
<1>0. names[h] = {"control.json"}
  BY DEF Files
<1>1. Files(h)'
  BY <1>0 DEF Files
<1>2. Completion(h)'
  BY <1>0 DEF Completion, Exposed, Whole
<1>3. Revocation(h)'
  BY <1>0 DEF Revocation, Resumable
<1>4. Succession(h)'
  BY <1>0 DEF Succession
<1> QED
  BY <1>1, <1>2, <1>3, <1>4 DEF Entry, Unborn

\* The completion appears, once the package is whole and flushed.
LEMMA EntryAddReady ==
  ASSUME IInv, NEW h \in Handles, Adds(h, "ready.json"), Kept(h),
         {"control.json", "use.lock"} \subseteq names[h], Whole(h), h \notin acked,
         \A s \in onDisk[h] : "ready.json" \notin s
  PROVE  Entry(h)'
<1> USE EntryParts DEF Kept, Adds
<1>0. names[h] \in onDisk[h] /\ h \in dirs
  BY DEF Files
<1>1. Files(h)'
  BY <1>0 DEF Files
<1>2. Completion(h)'
  BY <1>0 DEF Completion, Exposed, Whole
<1>3. Revocation(h)'
  BY <1>0 DEF Revocation, Resumable
<1>4. Succession(h)'
  BY <1>0 DEF Succession
<1> QED
  BY <1>1, <1>2, <1>3, <1>4 DEF Entry, Unborn

\* The revocation appears, beside use.lock.
LEMMA EntryAddReleased ==
  ASSUME IInv, NEW h \in Handles, Adds(h, "released.json"), Kept(h),
         "use.lock" \in names[h] \/ h \in preempted, h \in dirs,
         h \in requested \/ "ready.json" \notin names[h] \/ "released.json" \in names[h]
  PROVE  Entry(h)'
<1> USE EntryParts DEF Kept, Adds
<1>0. names[h] \in onDisk[h]
  BY DEF Files
<1>1. Files(h)'
  BY <1>0 DEF Files
<1>2. Completion(h)'
  BY <1>0 DEF Completion, Exposed, Whole
<1>3. Revocation(h)'
  BY <1>0 DEF Revocation, Resumable
<1>4. Succession(h)'
  BY <1>0 DEF Succession
<1> QED
  BY <1>1, <1>2, <1>3, <1>4 DEF Entry, Unborn

\* A stage goes.
LEMMA EntryDropStage ==
  ASSUME IInv, NEW h \in Handles, NEW n \in Stages, Drops(h, n), Kept(h)
  PROVE  Entry(h)'
<1> USE EntryParts DEF Kept, Drops, Stages
<1>0. names[h] \in onDisk[h] /\ n \notin Published /\ n # "use.lock"
  BY DEF Files, Published
<1>1. Files(h)'
  BY <1>0 DEF Files, Published
<1>2. Completion(h)'
  BY <1>0 DEF Completion, Exposed, Whole, Published
<1>3. Revocation(h)'
  BY <1>0 DEF Revocation, Resumable, Published
<1>4. Succession(h)'
  BY <1>0 DEF Succession, Published
<1> QED
  BY <1>1, <1>2, <1>3, <1>4 DEF Entry, Unborn

\* The completion goes after the revocation.
LEMMA EntryDropReady ==
  ASSUME IInv, NEW h \in Handles, Drops(h, "ready.json"), Kept(h),
         {"released.json", "use.lock"} \subseteq names[h]
  PROVE  Entry(h)'
<1> USE EntryParts DEF Kept, Drops
<1>0. names[h] \in onDisk[h]
  BY DEF Files
<1>1. Files(h)'
  BY <1>0 DEF Files
<1>2. Completion(h)'
  BY <1>0 DEF Completion, Exposed, Whole
<1>3. Revocation(h)'
  BY <1>0 DEF Revocation, Resumable
<1>4. Succession(h)'
  BY <1>0 DEF Succession
<1> QED
  BY <1>1, <1>2, <1>3, <1>4 DEF Entry, Unborn

\* The binding goes when the revocation can stand for it.
LEMMA EntryDropControl ==
  ASSUME IInv, NEW h \in Handles, Drops(h, "control.json"), Kept(h),
         "ready.json" \notin names[h],
         "use.lock" \in names[h] => "released.json" \in names[h]
  PROVE  Entry(h)'
<1> USE EntryParts DEF Kept, Drops
<1>0. names[h] \in onDisk[h]
  BY DEF Files
<1>1. Files(h)'
  BY <1>0 DEF Files
<1>2. Completion(h)'
  BY <1>0 DEF Completion, Exposed, Whole
<1>3. Revocation(h)'
  BY <1>0 DEF Revocation, Resumable
<1>4. Succession(h)'
  BY <1>0 DEF Succession
<1> QED
  BY <1>1, <1>2, <1>3, <1>4 DEF Entry, Unborn

\* use.lock goes when the revocation is all that is left, or was never there.
LEMMA EntryDropLock ==
  ASSUME IInv, NEW h \in Handles, Drops(h, "use.lock"), Kept(h),
         "ready.json" \notin names[h],
         \/ h \in preempted
         \/ names[h] \subseteq {"use.lock", "released.json"} /\ tree[h] = "none"
         \/ h \notin ended /\ "released.json" \notin UNION onDisk[h]
  PROVE  Entry(h)'
<1> USE EntryParts DEF Kept, Drops
<1>0. names[h] \in onDisk[h]
  BY DEF Files
<1>1. Files(h)'
  BY <1>0 DEF Files
<1>2. Completion(h)'
  BY <1>0 DEF Completion, Exposed, Whole
<1>3. Revocation(h)'
  BY <1>0 DEF Revocation, Resumable
<1>4. Succession(h)'
  BY <1>0 DEF Succession
<1> QED
  BY <1>1, <1>2, <1>3, <1>4 DEF Entry, Unborn

\* The revocation goes last.
LEMMA EntryDropReleased ==
  ASSUME IInv, NEW h \in Handles, Drops(h, "released.json"), Kept(h),
         {"ready.json", "use.lock"} \cap names[h] = {},
         h \in preempted \/ (names[h] \subseteq {"released.json"} /\ tree[h] = "none")
  PROVE  Entry(h)'
<1> USE EntryParts DEF Kept, Drops
<1>0. names[h] \in onDisk[h]
  BY DEF Files
<1>1. Files(h)'
  BY <1>0 DEF Files
<1>2. Completion(h)'
  BY <1>0 DEF Completion, Exposed, Whole
<1>3. Revocation(h)'
  BY <1>0 DEF Revocation, Resumable
<1>4. Succession(h)'
  BY <1>0 DEF Succession
<1> QED
  BY <1>1, <1>2, <1>3, <1>4 DEF Entry, Unborn

\* SyncDirectory of the entry, possibly after the package itself was flushed.
LEMMA EntryFlushed ==
  ASSUME IInv, NEW h \in Handles, h \in used, used \subseteq used', names'[h] = names[h],
         onDisk'[h] = {names[h]},
         (h \in ended') <=> (h \in ended \/ "released.json" \in UNION onDisk[h]),
         tree'[h] = tree[h], h \in unflushed' => h \in unflushed,
         (h \in dirs') <=> (h \in dirs), (h \in acked') <=> (h \in acked),
         (h \in requested') <=> (h \in requested), (h \in preempted') <=> (h \in preempted),
         (h \in resumed') <=> (h \in resumed),
         Rooted(h) => Rooted(h)'
  PROVE  Entry(h)'
<1> USE EntryParts
<1>0. names[h] \in onDisk[h]
  BY DEF Files
<1>1. Files(h)'
  BY <1>0 DEF Files
<1>2. Completion(h)'
  BY <1>0 DEF Completion, Exposed, Whole
<1>3. Revocation(h)'
  BY <1>0 DEF Revocation, Resumable
<1>4. Succession(h)'
  BY <1>0 DEF Succession
<1> QED
  BY <1>1, <1>2, <1>3, <1>4 DEF Entry, Unborn

\* A step on the package itself.
LEMMA EntryTree ==
  ASSUME IInv, NEW h \in Handles, h \in used, used \subseteq used', names'[h] = names[h],
         onDisk'[h] = onDisk[h], (h \in ended') <=> (h \in ended), h \in dirs,
         (h \in dirs') <=> (h \in dirs), (h \in acked') <=> (h \in acked),
         (h \in requested') <=> (h \in requested), (h \in preempted') <=> (h \in preempted),
         (h \in resumed') <=> (h \in resumed),
         Rooted(h) => Rooted(h)',
         tree'[h] = "none" => h \notin unflushed',
         \/ h \in preempted \/ tree[h] # "none"
         \/ h \notin ended /\ "released.json" \notin UNION onDisk[h],
         Exposed(h) => h \in resumed,
         "ready.json" \notin names[h] \/ "released.json" \in names[h]
  PROVE  Entry(h)'
<1> USE EntryParts
<1>0. names[h] \in onDisk[h]
  BY DEF Files
<1>1. Files(h)'
  BY <1>0 DEF Files
<1>2. Completion(h)'
  BY <1>0 DEF Completion, Exposed, Whole
<1>3. Revocation(h)'
  BY <1>0 DEF Revocation, Resumable
<1>4. Succession(h)'
  BY <1>0 DEF Succession
<1> QED
  BY <1>1, <1>2, <1>3, <1>4 DEF Entry, Unborn

-----------------------------------------------------------------------------
(* Types *)

\* Every published file has a stage.
LEMMA Stage ==
  ASSUME NEW n \in Published
  PROVE  retainedStage(n) \in Stages /\ retainedStage(n) \in Names /\ n \in Names
  BY DEF Published, Stages, Names, retainedStage

\* Every publication goes on somewhere.
LEMMA AfterPublishing ==
  ASSUME NEW n \in Published
  PROVE  AfterPublish(n) \in {"creating", "prepared", "revoked"}
  BY DEF Published, AfterPublish

\* Who publishes has a file to publish.
LEMMA Writer ==
  ASSUME IInv, NEW p \in Processes, pc[p] \in Publishing
  PROVE  pub[p] \in Published /\ retainedStage(pub[p]) \in Stages
  BY Known, Stage DEF Placed

\* Who is at an entry got its handle from a Prepare.
LEMMA OnlyUsed ==
  ASSUME IInv, NEW p \in Processes, pc[p] \notin {"idle", "allocating", "recovering", "marking"}
  PROVE  arg[p] \in used /\ arg[p] \in Handles /\ arg[p] # None
  BY Known DEF TypeOK, Placed, Waits

\* Publication keeps the types.
LEMMA TypesPublication ==
  ASSUME IInv, NEW p \in Processes, Publication(p)
  PROVE  TypeOK'
<1> USE Known DEF TypeOK, history
<1>1. CASE CreateStage(p)
  <2>1. arg[p] \in Handles /\ pub[p] \in Published /\ retainedStage(pub[p]) \in Stages
    BY <1>1, OnlyUsed, Writer DEF CreateStage, Publishing
  <2>2. retainedStage(pub[p]) \in Names
    BY <2>1, Stage
  <2> QED
    BY <1>1, <2>1, <2>2 DEF CreateStage, Add, Goto, Locations, Publishing
<1>2. CASE WriteStage(p)
  BY <1>2 DEF WriteStage, Goto, Locations, Publishing
<1>3. CASE LinkStage(p)
  <2>1. arg[p] \in Handles /\ pub[p] \in Published
    BY <1>3, OnlyUsed, Writer DEF LinkStage, Publishing
  <2>2. pub[p] \in Names
    BY <2>1, Stage
  <2> QED
    BY <1>3, <2>1, <2>2 DEF LinkStage, Add, Goto, Locations, Publishing
<1>4. CASE RemoveStage(p)
  <2>1. arg[p] \in Handles /\ pub[p] \in Published
    BY <1>4, OnlyUsed, Writer DEF RemoveStage, Publishing
  <2>2. AfterPublish(pub[p]) \in Locations
    BY <2>1, AfterPublishing DEF Locations
  <2> QED
    BY <1>4, <2>1, <2>2 DEF RemoveStage, Drop, SyncThen, Locations, Publishing
<1>5. CASE Sync(p)
  <2>1. arg[p] \in Handles /\ arg[p] \in used
    BY <1>5, OnlyUsed DEF Sync
  <2>2. then[p] \in Locations
    BY <1>5 DEF Sync, Placed, Locations
  <2> QED
    BY <1>5, <2>1, <2>2 DEF Sync, Flushed
<1> QED
  BY <1>1, <1>2, <1>3, <1>4, <1>5 DEF Publication

\* Prepare keeps the types.
LEMMA TypesPreparation ==
  ASSUME IInv, NEW p \in Processes, Preparation(p)
  PROVE  TypeOK'
<1> USE Known DEF TypeOK, history, entry
<1>1. ASSUME NEW h \in Handles, Allocate(p, h)
      PROVE  TypeOK'
  BY <1>1 DEF Allocate, TakeFamily, Locations, Publishing, Published
<1>2. CASE CreateUseLock(p)
  <2>1. arg[p] \in Handles
    BY <1>2, OnlyUsed DEF CreateUseLock
  <2> QED
    BY <1>2, <2>1 DEF CreateUseLock, Add, Goto, Locations, Names
<1>3. CASE LockNew(p)
  BY <1>3 DEF LockNew, SyncThen, Locations
<1>4. CASE Own(p)
  BY <1>4 DEF Own, Goto, Locations
<1>5. CASE Build(p)
  <2>1. arg[p] \in used
    BY <1>5, OnlyUsed DEF Build
  <2> QED
    BY <1>5, <2>1 DEF Build, Goto, Locations, Trees
<1>6. CASE retainedFinalize(p)
  BY <1>6 DEF retainedFinalize, Goto, Locations, Trees
<1>7. CASE Flush(p)
  <2>1. arg[p] \in Handles /\ arg[p] \in used
    BY <1>7, OnlyUsed DEF Flush
  <2> QED
    BY <1>7, <2>1 DEF Flush, Flushed, Publish, Locations, Publishing, Published
<1>8. CASE Acknowledge(p)
  <2>1. arg[p] \in used
    BY <1>8, OnlyUsed DEF Acknowledge
  <2> QED
    BY <1>8, <2>1 DEF Acknowledge, Rest, Locations
<1> QED
  BY <1>1, <1>2, <1>3, <1>4, <1>5, <1>6, <1>7, <1>8 DEF Preparation

\* OpenVerifiedUse keeps the types.
LEMMA TypesUse ==
  ASSUME IInv, NEW p \in Processes, Use(p)
  PROVE  TypeOK'
<1> USE Known DEF TypeOK, history, entry
<1>1. CASE LockEntry(p)
  <2>1. arg[p] \in used
    BY <1>1, OnlyUsed DEF LockEntry
  <2> QED
    BY <1>1, <2>1 DEF LockEntry, Goto, Locations
<1>2. CASE CheckEntry(p)
  BY <1>2 DEF CheckEntry, Goto, Locations
<1>3. CASE Verify(p)
  BY <1>3 DEF Verify, Goto, Locations
<1>4. CASE Close(p)
  BY <1>4 DEF Close, Rest, Locations
<1> QED
  BY <1>1, <1>2, <1>3, <1>4 DEF Use

\* Release and Cleanup keep the types.
LEMMA TypesReclaim ==
  ASSUME IInv, NEW p \in Processes, Reclaim(p)
  PROVE  TypeOK'
<1> USE Known DEF TypeOK, history, entry
<1>1. CASE Decide(p)
  BY <1>1 DEF Decide, Goto, Locations
<1>2. CASE RetireStage(p)
  <2>1. arg[p] \in Handles
    BY <1>2, OnlyUsed DEF RetireStage
  <2>2. PICK s \in Stages : Drop(arg[p], s)
    BY <1>2 DEF RetireStage
  <2> QED
    BY <1>2, <2>1, <2>2 DEF RetireStage, Drop, SyncThen, Locations
<1>3. CASE Revoke(p)
  <2>1. arg[p] \in used
    BY <1>3, OnlyUsed DEF Revoke
  <2> QED
    BY <1>3, <2>1 DEF Revoke, Goto, Publish, Locations, Publishing, Published
<1>4. CASE Inventory(p)
  BY <1>4 DEF Inventory, Goto, Locations
<1>5. CASE RemoveData(p)
  <2>1. arg[p] \in Handles
    BY <1>5, OnlyUsed DEF RemoveData
  <2>2. PICK n \in Data(arg[p]) : Drop(arg[p], n)
    BY <1>5 DEF RemoveData
  <2> QED
    BY <1>5, <2>1, <2>2 DEF RemoveData, Drop, SyncThen, Locations
<1>6. CASE RemoveTree(p)
  BY <1>6 DEF RemoveTree, Trees, process
<1>7. CASE Finish(p)
  BY <1>7 DEF Finish, TakeFamily, Goto, Locations
<1>8. CASE Recover(p)
  BY <1>8 DEF Recover, TakeFamily, Goto, Locations
<1>9. CASE Decline(p)
  BY <1>9 DEF Decline, Goto, Locations
<1>10. CASE Mark(p)
  BY <1>10 DEF Mark, TakeFamily, Goto, Locations
<1>11. CASE Strip(p)
  <2>1. arg[p] \in Handles
    BY <1>11, OnlyUsed DEF Strip
  <2> QED
    BY <1>11, <2>1 DEF Strip, Drop, SyncThen, Locations
<1>12. CASE RemoveEntry(p)
  BY <1>12 DEF RemoveEntry, Goto, Locations
<1>13. CASE SyncStore(p)
  BY <1>13 DEF SyncStore, Rest, Locations
<1> QED
  BY <1>1, <1>2, <1>3, <1>4, <1>5, <1>6, <1>7, <1>8, <1>9, <1>10, <1>11, <1>12, <1>13
     DEF Reclaim

\* A beginning operation keeps the types.
LEMMA TypesBegin ==
  ASSUME IInv, NEW p \in Processes, Begin(p)
  PROVE  TypeOK'
<1> USE Known DEF TypeOK, history, entry
<1>1. CASE OpenStore(p)
  BY <1>1 DEF OpenStore, Locations, Operations
<1>2. ASSUME NEW h \in Handles, NEW o \in Operations, Open(p, o, h)
      PROVE  TypeOK'
  BY <1>2 DEF Open, Start, Locations
<1>3. ASSUME NEW h \in Handles, OpenMissing(p, h)
      PROVE  TypeOK'
  BY <1>3 DEF OpenMissing, Start, Locations, Operations
<1> QED
  BY <1>1, <1>2, <1>3 DEF Begin, Cleanup, Operations

\* An operation that ends keeps the types.
LEMMA TypesEnd ==
  ASSUME IInv, NEW p \in Processes,
         Refuse(p) \/ InventoryRaw(p) \/ Stop(p) \/ StopPublishing(p) \/ StopLocking(p)
  PROVE  TypeOK'
<1> USE Known DEF TypeOK, history, entry
<1>1. CASE Refuse(p)
  BY <1>1 DEF Refuse, Rest, Locations
<1>2. CASE InventoryRaw(p)
  BY <1>2 DEF InventoryRaw, Goto, Locations
<1>3. CASE Stop(p)
  BY <1>3 DEF Stop, Rest, Locations
<1>4. CASE StopPublishing(p)
  <2>1. arg[p] \in Handles
    BY <1>4, OnlyUsed DEF StopPublishing
  <2> QED
    BY <1>4, <2>1 DEF StopPublishing, Drop, Rest, Locations
<1>5. CASE StopLocking(p)
  <2>1. arg[p] \in Handles
    BY <1>5, OnlyUsed DEF StopLocking
  <2> QED
    BY <1>5, <2>1 DEF StopLocking, Drop, Rest, Locations
<1> QED
  BY <1>1, <1>2, <1>3, <1>4, <1>5

\* A power loss keeps the types.
LEMMA TypesPowerLoss ==
  ASSUME IInv, PowerLoss
  PROVE  TypeOK'
<1> USE Known DEF TypeOK
<1>1. \A h \in Handles : "released.json" \in names'[h] => h \in used
  BY EntryParts DEF PowerLoss, Unborn
<1> QED
  BY <1>1 DEF PowerLoss, Locations

-----------------------------------------------------------------------------
(* Steps that leave the entry as it is *)

\* A step that changes no file and no history of files.
LEMMA StillStep ==
  ASSUME IInv, NEW p \in Processes, NEW h \in Handles \cup {None}, Elsewhere(p, h), TypeOK',
         UNCHANGED <<dirs, dirsOnDisk, names, onDisk, tree, unflushed, ended, used, acked>>,
         h \in Handles /\ h \notin used => lock'[h] = None,
         \A q \in Processes \ {p} : h # None /\ arg[q] = h =>
           /\ Fresh(q) => lock'[h] = None /\ (arg'[p] = h => Waits(p)')
           /\ pc[q] = "locking" /\ lock'[h] = p =>
                Works(p)' /\ arg'[p] = h /\ h \in preempted',
         Process(p)'
  PROVE  IInv'
<1>1. Store'
  BY Known DEF Store
<1>2. h \in Handles => Same(h)
  BY DEF Same, Rooted
<1>3. h \in Handles => Entry(h)'
  BY <1>2, EntryStill DEF Elsewhere
<1>4. ASSUME NEW q \in Processes \ {p}, arg[q] = h, h # None
      PROVE  Process(q)'
  <2>1. lock'[h] \in Processes \cup {None}
    BY <1>4 DEF TypeOK
  <2> QED
    BY <1>2, <1>4, <2>1, BesideStill
<1> QED
  BY <1>1, <1>3, <1>4, Conclude

\* An operation that returns or dies knows nothing and has nothing.
LEMMA AtRest ==
  ASSUME IInv, NEW p \in Processes, Rest(p)
  PROVE  Process(p)'
<1>0. /\ pc'[p] = "idle" /\ op'[p] = None /\ arg'[p] = None /\ family' # p
      /\ \A g \in Handles : lock'[g] # p
  BY Known, NoneAssumption DEF TypeOK, Rest
<1>1. ~Fresh(p)' /\ ~Owning(p)' /\ ~Builds(p)' /\ ~Engaged(p)' /\ ~Works(p)' /\ ~Strips(p)'
        /\ ~Starts(p)'
  BY <1>0 DEF Fresh, Owning, Builds, Engaged, Works, Reclaims, Strips, Starts, Publishing
<1> QED
  BY <1>0, <1>1 DEF Process, Placed, Binding, Initializes, Completes, Reclaiming, Retires, Locks,
     Waits, Publishing

\* An operation that ends takes nothing from anybody else.
LEMMA RestAlone ==
  ASSUME IInv, NEW p \in Processes, Rest(p)
  PROVE  /\ arg'[p] = None
         /\ \A q \in Processes \ {p} :
              /\ pc'[q] = pc[q] /\ op'[q] = op[q] /\ arg'[q] = arg[q]
              /\ pub'[q] = pub[q] /\ then'[q] = then[q]
              /\ (family' = q) <=> (family = q)
              /\ \A g \in Handles : (lock'[g] = q) <=> (lock[g] = q)
         /\ \A g \in Handles : lock'[g] # p
         /\ \A g \in Handles : g # arg[p] => lock'[g] = lock[g]
         /\ \A g \in Handles : lock[g] = None => lock'[g] = None
<1>1. \A g \in Handles : lock[g] = p => arg[p] = g
  BY Known DEF Placed
<1> QED
  BY <1>1, Known, NoneAssumption DEF TypeOK, Rest

\* An operation may end anywhere without a trace.
LEMMA RestStill ==
  ASSUME IInv, NEW p \in Processes, Rest(p), UNCHANGED <<entry, history>>, TypeOK'
  PROVE  IInv'
<1> DEFINE h == arg[p]
<1>0. h \in Handles \cup {None}
  BY Known DEF TypeOK
<1>1. Elsewhere(p, h)
  BY RestAlone DEF Elsewhere, Same, Rooted, entry, history
<1>2. h \in Handles /\ h \notin used => lock'[h] = None
  BY RestAlone, EntryParts DEF Unborn
<1>3. ASSUME NEW q \in Processes \ {p}, h # None, arg[q] = h
      PROVE  /\ Fresh(q) => lock'[h] = None /\ (arg'[p] = h => Waits(p)')
             /\ lock'[h] # p
  BY <1>0, <1>3, RestAlone, Known DEF Binding
<1>4. Process(p)'
  BY AtRest
<1> HIDE DEF h
<1> QED
  BY <1>0, <1>1, <1>2, <1>3, <1>4, StillStep DEF entry, history

\* Close, Refuse and Stop.
LEMMA StepRests ==
  ASSUME IInv, NEW p \in Processes, Close(p) \/ Refuse(p) \/ Stop(p)
  PROVE  IInv'
<1>1. TypeOK'
  BY TypesUse, TypesEnd DEF Use
<1> QED
  BY <1>1, RestStill DEF Close, Refuse, Stop

\* A process that has not got a lock and goes on.
LEMMA StepOpen ==
  ASSUME IInv, NEW p \in Processes, NEW h \in Handles,
         (\E o \in Operations : Open(p, o, h)) \/ OpenMissing(p, h)
  PROVE  IInv'
<1> USE Known
<1>t. TypeOK'
  <2>1. ASSUME NEW o \in Operations, Open(p, o, h)
        PROVE  TypeOK'
    BY <2>1 DEF TypeOK, Open, Start, Locations, entry, Entry, Files
  <2>2. CASE OpenMissing(p, h)
    BY <2>2, TypesBegin DEF Begin, Cleanup
  <2> QED
    BY <2>1, <2>2
<1>0. /\ pc[p] = "idle" /\ arg[p] = None /\ arg'[p] = h
      /\ pc'[p] \in {"opening", "recovering"}
      /\ pc'[p] = "opening" => h \in dirs /\ "use.lock" \in names[h]
      /\ op'[p] = "release" => h \in requested'
      /\ UNCHANGED <<entry, family, lock, used, acked, ended, preempted, resumed>>
  BY NoneAssumption DEF Open, OpenMissing, Start, Placed, TypeOK, history
<1>1. Elsewhere(p, h)
  BY <1>0 DEF Open, OpenMissing, Start, Elsewhere, Same, Rooted, entry, history, TypeOK
<1>2. UNCHANGED <<dirs, dirsOnDisk, names, onDisk, tree, unflushed, ended, used, acked>>
  BY <1>0 DEF entry
<1>3. h \in Handles /\ h \notin used => lock'[h] = None
  BY <1>0, EntryParts DEF Unborn
<1>4. ASSUME NEW q \in Processes \ {p}, h # None, arg[q] = h
      PROVE  /\ Fresh(q) => lock'[h] = None /\ (arg'[p] = h => Waits(p)')
             /\ lock'[h] # p
  <2>1. lock[h] # p
    BY <1>0, NoneAssumption DEF Placed
  <2>2. Fresh(q) => "use.lock" \notin names[h]
    BY <1>4, EntryParts DEF Binding, Files, Ownership
  <2>3. Fresh(q) => lock[h] = None
    BY <1>4 DEF Binding
  <2> QED
    BY <1>0, <2>1, <2>2, <2>3 DEF Waits
<1>5. Process(p)'
  <2>1. ~Fresh(p)' /\ ~Owning(p)' /\ ~Builds(p)' /\ ~Engaged(p)' /\ ~Works(p)' /\ ~Strips(p)'
          /\ ~Starts(p)' /\ ~Fresh(p) /\ ~Strips(p) /\ ~Starts(p)
    BY <1>0 DEF Fresh, Owning, Builds, Engaged, Works, Reclaims, Strips, Starts, Publishing
  <2>2. family' # p /\ \A g \in Handles : lock'[g] # p
    BY <1>0, <2>1, NoneAssumption DEF Placed
  <2>3. h \in dirs => h \in used'
    BY <1>0 DEF TypeOK
  <2> QED
    BY <1>0, <2>1, <2>2, <2>3, NoneAssumption DEF Process, Placed, Binding, Initializes, Completes,
       Reclaiming, Retires, Locks, Waits, Publishing
<1> QED
  BY <1>t, <1>1, <1>2, <1>3, <1>4, <1>5, StillStep

\* The holder of an entry's lock goes on from what it has seen.
LEMMA HolderStep ==
  ASSUME IInv, NEW p \in Processes, Works(p), Works(p)', arg'[p] = arg[p], op'[p] = op[p],
         \A q \in Processes \ {p} : /\ pc'[q] = pc[q] /\ op'[q] = op[q] /\ arg'[q] = arg[q]
                                    /\ pub'[q] = pub[q] /\ then'[q] = then[q],
         pc'[p] \notin {"idle", "allocating", "syncing"},
         pc'[p] \in Publishing => pub'[p] \in Published,
         UNCHANGED <<dirs, dirsOnDisk, names, onDisk, tree, unflushed, family, lock>>,
         UNCHANGED <<used, acked, ended, requested, preempted>>,
         resumed' = resumed \/ (resumed' = resumed \cup {arg[p]} /\ arg[p] \in requested),
         TypeOK', Reclaiming(p)'
  PROVE  IInv'
<1> DEFINE h == arg[p]
<1>0. /\ h \in Handles /\ h # None /\ h \in used /\ lock[h] = p
      /\ ~Starts(p) /\ ~Strips(p) /\ ~Builds(p) /\ ~Fresh(p) /\ ~Owning(p) /\ pc[p] # "locking"
  BY HasHandle, Known DEF Placed, Locks, Works, Engaged, Reclaims, Starts, Strips, Builds, Fresh,
     Owning, Waits, Publishing
<1>1. ~Starts(p)' /\ ~Strips(p)' /\ ~Builds(p)' /\ ~Fresh(p)' /\ ~Owning(p)' /\ pc'[p] # "locking"
  BY DEF Works, Engaged, Reclaims, Starts, Strips, Builds, Fresh, Owning, Publishing
<1>2. Elsewhere(p, h)
  BY DEF Elsewhere, Same, Rooted
<1>3. ASSUME NEW q \in Processes \ {p}, h # None, arg[q] = h
      PROVE  ~Fresh(q) /\ (pc[q] = "locking" => h \in preempted')
  <2>1. ~Fresh(q)
    BY <1>0, <1>3, Known, NoneAssumption DEF Binding
  <2>2. pc[q] = "locking" => h \in preempted
    BY <1>0, <1>3, Known, NoneAssumption DEF Initializes
  <2> QED
    BY <2>1, <2>2
<1>4. Placed(p)'
  BY <1>0, <1>1, Known DEF Placed, Locks, Waits
<1>5. Process(p)'
  BY <1>1, <1>4 DEF Process, Binding, Initializes, Completes, Retires
<1> HIDE DEF h
<1> QED
  <2>1. arg'[p] = h
    BY DEF h
  <2> QED
    BY <1>0, <1>2, <1>3, <1>5, <2>1, StillStep

\* The steps of a lock's holder that only look.
LEMMA StepDecides ==
  ASSUME IInv, NEW p \in Processes,
         CheckEntry(p) \/ Verify(p) \/ Decide(p) \/ Revoke(p) \/ Inventory(p) \/ InventoryRaw(p)
  PROVE  IInv'
<1> USE Known
<1>t. TypeOK'
  BY TypesUse, TypesReclaim, TypesEnd DEF Use, Reclaim
<1>0. arg[p] \in Handles
  BY OnlyUsed DEF CheckEntry, Verify, Decide, Revoke, Inventory, InventoryRaw
<1>w. Works(p)
  BY DEF Works, Engaged, Reclaims, CheckEntry, Verify, Decide, Revoke, Inventory, InventoryRaw
<1>g. /\ arg'[p] = arg[p] /\ op'[p] = op[p] /\ then'[p] = then[p]
      /\ \A q \in Processes \ {p} : /\ pc'[q] = pc[q] /\ op'[q] = op[q] /\ arg'[q] = arg[q]
                                    /\ pub'[q] = pub[q] /\ then'[q] = then[q]
      /\ UNCHANGED <<entry, family, lock, used, acked, ended, requested, preempted>>
  BY DEF CheckEntry, Verify, Decide, Revoke, Inventory, InventoryRaw, Goto, Publish, TypeOK,
     history
<1>p. \/ resumed' = resumed
      \/ resumed' = resumed \cup {arg[p]} /\ Exposed(arg[p]) /\ "released.json" \in names[arg[p]]
  BY DEF CheckEntry, Verify, Decide, Revoke, Inventory, InventoryRaw, history
<1>e. pc'[p] = "revoked" => ~Exposed(arg[p]) \/ arg[p] \in resumed'
  BY DEF CheckEntry, Verify, Decide, Revoke, Inventory, InventoryRaw, Goto, Publish, TypeOK
<1>q. resumed' = resumed \/ (resumed' = resumed \cup {arg[p]} /\ arg[p] \in requested)
  BY <1>0, <1>p, EntryParts DEF Completion
<1>1. /\ pc'[p] \in {"verifying", "deciding", "using", "retiring", "revoked", "staging", "removing"}
      /\ pc'[p] = "staging" => pub'[p] = "released.json"
      /\ pc'[p] = "verifying" \/ pc'[p] = "deciding" => "use.lock" \in names[arg[p]]
      /\ pc'[p] = "using" => Verified(arg[p])
      /\ pc'[p] = "retiring" => MayReclaim(op[p], arg[p])
      /\ pc'[p] = "revoked" => "released.json" \in names[arg[p]]
      /\ pc'[p] = "removing" => pc[p] = "revoked"
      /\ pc'[p] \in {"staging", "revoked"} => pc[p] = "retiring"
      /\ pc'[p] = "using" => pc[p] = "verifying"
      /\ pc'[p] = "retiring" => pc[p] = "deciding"
  BY DEF CheckEntry, Verify, Decide, Revoke, Inventory, InventoryRaw, Goto, Publish, TypeOK,
     Checked
<1>2. Works(p)'
  BY <1>1 DEF Works, Engaged, Reclaims, Publishing
<1>3. Reclaiming(p)'
  <2>1. Reclaiming(p) /\ Placed(p)
    OBVIOUS
  <2>2. /\ names' = names /\ tree' = tree /\ preempted' = preempted /\ requested' = requested
        /\ arg'[p] = arg[p]
    BY <1>g DEF entry
  <2>3. "use.lock" \in names[arg[p]] \/ arg[p] \in preempted
    BY <1>1, <2>1 DEF Reclaiming, Engaged, Reclaims
  <2>4. pc'[p] = "retiring" =>
          arg[p] \in requested \/ "ready.json" \notin names[arg[p]] \/ "released.json" \in names[arg[p]]
    BY <1>0, <1>1, <2>1, NoneAssumption DEF MayReclaim, Placed
  <2>5. pc'[p] \in {"revoked", "staging", "removing"} =>
          arg[p] \in requested \/ "ready.json" \notin names[arg[p]] \/ "released.json" \in names[arg[p]]
    BY <1>1, <2>1 DEF Reclaiming, Engaged, Reclaims
  <2>6. pc'[p] \in {"revoked", "removing"} =>
          "released.json" \in names[arg[p]] \/ "use.lock" \notin names[arg[p]]
    BY <1>1, <2>1 DEF Reclaiming, Engaged, Reclaims
  <2>7. Reclaims(p)' => pc'[p] \in {"retiring", "revoked", "staging", "removing"}
    BY <1>1 DEF Reclaims, Publishing
  <2>8. pc'[p] \in {"revoked", "removing"} => ~Exposed(arg[p])' \/ arg[p] \in resumed'
    <3>1. pc'[p] = "removing" => ~Exposed(arg[p]) \/ arg[p] \in resumed
      BY <1>1, <2>1 DEF Reclaiming, Engaged, Reclaims
    <3>2. ~Exposed(arg[p]) => ~Exposed(arg[p])'
      BY <1>g DEF Exposed, entry
    <3> QED
      BY <1>e, <1>q, <3>1, <3>2
  <2> QED
    BY <1>1, <2>2, <2>3, <2>4, <2>5, <2>6, <2>7, <2>8 DEF Reclaiming, Verified
<1>4. UNCHANGED <<dirs, dirsOnDisk, names, onDisk, tree, unflushed, family, lock>>
      /\ UNCHANGED <<used, acked, ended, requested, preempted>>
  BY <1>g DEF entry
<1>5. pc'[p] \notin {"idle", "allocating", "syncing"}
      /\ (pc'[p] \in Publishing => pub'[p] \in Published)
  BY <1>1 DEF Publishing, Published
<1> QED
  BY <1>t, <1>w, <1>g, <1>q, <1>2, <1>3, <1>4, <1>5, HolderStep

\* Locks are taken.
LEMMA StepLockEntry ==
  ASSUME IInv, NEW p \in Processes, LockEntry(p)
  PROVE  IInv'
<1> USE Known
<1> DEFINE h == arg[p]
<1>t. TypeOK'
  BY TypesUse DEF Use
<1>0. h \in Handles /\ h # None /\ h \in used /\ pc[p] = "opening"
  BY OnlyUsed DEF LockEntry
<1>g. /\ pc'[p] = "checking" /\ arg'[p] = h /\ op'[p] = op[p] /\ lock'[h] = p
      /\ \A g \in Handles : g # h => lock'[g] = lock[g]
      /\ lock[h] = None
      /\ \A q \in Processes \ {p} : /\ pc'[q] = pc[q] /\ op'[q] = op[q] /\ arg'[q] = arg[q]
                                    /\ pub'[q] = pub[q] /\ then'[q] = then[q]
      /\ UNCHANGED <<entry, family, used, acked, ended, requested, resumed>>
      /\ preempted' \in {preempted, preempted \cup {h}}
      /\ (\E q \in Processes : pc[q] = "locking" /\ arg[q] = h) => h \in preempted'
  BY <1>0 DEF LockEntry, Goto, TypeOK
<1>1. Elsewhere(p, h)
  BY <1>g, NoneAssumption DEF Elsewhere, Same, Rooted, entry
<1>2. UNCHANGED <<dirs, dirsOnDisk, names, onDisk, tree, unflushed, ended, used, acked>>
  BY <1>g DEF entry
<1>3. ASSUME NEW q \in Processes \ {p}, h # None, arg[q] = h
      PROVE  /\ ~Fresh(q)
             /\ pc[q] = "locking" => Works(p)' /\ arg'[p] = h /\ h \in preempted'
  <2>1. ~Fresh(q)
    BY <1>0, <1>3 DEF Binding, Waits
  <2> QED
    BY <1>3, <1>g, <2>1 DEF Works
<1>4. Process(p)'
  <2>1. ~Fresh(p)' /\ ~Owning(p)' /\ ~Builds(p)' /\ ~Engaged(p)' /\ ~Strips(p)'
          /\ ~Starts(p)' /\ ~Strips(p) /\ ~Starts(p) /\ Works(p)'
    BY <1>g, <1>0 DEF Fresh, Owning, Builds, Engaged, Works, Reclaims, Strips, Starts, Publishing
  <2>2. family' # p
    BY <1>g, <2>1 DEF Placed
  <2>3. Placed(p)'
    <3>1. \A g \in Handles : lock'[g] = p => g = h
      BY <1>0, <1>g DEF Placed, Locks, Owning, Builds, Works, Engaged, Reclaims, Strips, Publishing
    <3> QED
      BY <1>0, <1>g, <2>1, <2>2, <3>1 DEF Placed, Locks, Waits, Publishing
  <2> QED
    BY <1>g, <2>1, <2>3 DEF Process, Binding, Initializes, Completes, Reclaiming, Retires
<1> HIDE DEF h
<1> QED
  BY <1>t, <1>0, <1>1, <1>2, <1>3, <1>4, StillStep

\* Prepare locks what it created.
LEMMA StepLockNew ==
  ASSUME IInv, NEW p \in Processes, LockNew(p)
  PROVE  IInv'
<1> USE Known
<1> DEFINE h == arg[p]
<1>t. TypeOK'
  BY TypesPreparation DEF Preparation
<1>0. h \in Handles /\ h # None /\ h \in used /\ pc[p] = "locking"
  BY OnlyUsed DEF LockNew
<1>g. /\ pc'[p] = "syncing" /\ then'[p] = "owned" /\ arg'[p] = h /\ op'[p] = op[p]
      /\ lock'[h] = p /\ lock[h] = None
      /\ \A g \in Handles : g # h => lock'[g] = lock[g]
      /\ \A q \in Processes \ {p} : /\ pc'[q] = pc[q] /\ op'[q] = op[q] /\ arg'[q] = arg[q]
                                    /\ pub'[q] = pub[q] /\ then'[q] = then[q]
      /\ UNCHANGED <<entry, family, history>>
  BY <1>0 DEF LockNew, SyncThen, TypeOK
<1>1. Elsewhere(p, h)
  BY <1>g, NoneAssumption DEF Elsewhere, Same, Rooted, entry, history
<1>2. UNCHANGED <<dirs, dirsOnDisk, names, onDisk, tree, unflushed, ended, used, acked>>
  BY <1>g DEF entry, history
<1>3. ASSUME NEW q \in Processes \ {p}, h # None, arg[q] = h
      PROVE  ~Fresh(q) /\ pc[q] # "locking"
  BY <1>0, OneFamily DEF Starts
<1>4. Process(p)'
  <2>1. ~Fresh(p)' /\ Owning(p)' /\ ~Builds(p)' /\ ~Engaged(p)' /\ ~Strips(p)'
          /\ Starts(p)' /\ ~Strips(p) /\ Starts(p) /\ ~Works(p)' /\ pc'[p] # "locking"
    BY <1>g, <1>0 DEF Fresh, Owning, Builds, Engaged, Works, Reclaims, Strips, Starts, Publishing
  <2>2. family' = p
    BY <1>g, <2>1 DEF Placed
  <2>3. Placed(p)'
    <3>1. \A g \in Handles : lock'[g] = p => g = h
      BY <1>0, <1>g DEF Placed, Locks, Owning, Builds, Works, Engaged, Reclaims, Strips, Publishing
    <3>2. h \notin acked'
      BY <2>1, <1>g DEF Placed, history
    <3>3. op[p] = "release" /\ h # None => h \in requested'
      BY <1>g DEF Placed, history
    <3> QED
      BY <1>0, <1>g, <2>1, <2>2, <3>1, <3>2, <3>3 DEF Placed, Locks, Waits, Publishing, history
  <2>4. Initializes(p)'
    <3>1. Initializes(p)
      OBVIOUS
    <3> QED
      BY <1>0, <1>g, <2>1, <3>1 DEF Initializes, entry, history
  <2> QED
    BY <1>g, <2>1, <2>3, <2>4 DEF Process, Binding, Completes, Reclaiming, Retires
<1> HIDE DEF h
<1> QED
  BY <1>t, <1>0, <1>1, <1>2, <1>3, <1>4, StillStep

\* Prepare goes on without family.lock.
LEMMA StepOwn ==
  ASSUME IInv, NEW p \in Processes, Own(p)
  PROVE  IInv'
<1> USE Known
<1> DEFINE h == arg[p]
<1>t. TypeOK'
  BY TypesPreparation DEF Preparation
<1>0. h \in Handles /\ h # None /\ h \in used /\ pc[p] = "owned" /\ Owning(p) /\ Starts(p)
  BY OnlyUsed DEF Own, Owning, Starts
<1>g. /\ pc'[p] = "building" /\ then'[p] = then[p] /\ arg'[p] = h /\ op'[p] = op[p]
      /\ family = p /\ family' = None
      /\ \A q \in Processes \ {p} : /\ pc'[q] = pc[q] /\ op'[q] = op[q] /\ arg'[q] = arg[q]
                                    /\ pub'[q] = pub[q] /\ then'[q] = then[q]
      /\ UNCHANGED <<entry, lock, history>>
  BY <1>0 DEF Own, Goto, TypeOK, Placed
<1>1. Elsewhere(p, h)
  BY <1>g, NoneAssumption DEF Elsewhere, Same, Rooted, entry, history
<1>2. UNCHANGED <<dirs, dirsOnDisk, names, onDisk, tree, unflushed, ended, used, acked>>
  BY <1>g DEF entry, history
<1>3. ASSUME NEW q \in Processes \ {p}, h # None, arg[q] = h
      PROVE  ~Fresh(q) /\ pc[q] # "locking"
  BY <1>0, OneFamily DEF Starts
<1>4. Process(p)'
  <2>1. ~Fresh(p)' /\ ~Owning(p)' /\ Builds(p)' /\ ~Engaged(p)' /\ ~Strips(p)'
          /\ ~Starts(p)' /\ ~Works(p)' /\ pc'[p] # "locking"
    BY <1>g, <1>0 DEF Fresh, Owning, Builds, Engaged, Works, Reclaims, Strips, Starts, Publishing
  <2>2. Placed(p)'
    BY <1>0, <1>g, <2>1, NoneAssumption DEF Placed, Locks, Waits, Publishing, history
  <2>3. Completes(p)'
    <3>1. Initializes(p)
      OBVIOUS
    <3> QED
      BY <1>0, <1>g, <3>1 DEF Initializes, Completes, entry, history, Publishing
  <2> QED
    BY <1>g, <2>1, <2>2, <2>3 DEF Process, Binding, Initializes, Reclaiming, Retires
<1>5. h \in Handles /\ h \notin used => lock'[h] = None
  BY <1>0
<1> HIDE DEF h
<1> QED
  BY <1>t, <1>0, <1>1, <1>2, <1>3, <1>4, <1>5, StillStep

\* family.lock is taken to remove what is left of an entry.
LEMMA StepStripsFirst ==
  ASSUME IInv, NEW p \in Processes, Finish(p) \/ Recover(p) \/ Mark(p)
  PROVE  IInv'
<1> USE Known
<1> DEFINE h == arg[p]
<1>t. TypeOK'
  BY TypesReclaim DEF Reclaim
<1>0. h \in Handles /\ h # None /\ pc[p] \in {"removing", "recovering", "marking"} /\ h \in dirs
  BY HasHandle DEF Finish, Recover, Mark, Waits, Works, Engaged, Reclaims, Checked, Initializing,
     Terminal
<1>u. h \in used
  BY <1>0 DEF TypeOK
<1>g. /\ pc'[p] = "stripping" /\ then'[p] = then[p] /\ arg'[p] = h /\ op'[p] = op[p]
      /\ family = None /\ family' = p
      /\ \A q \in Processes \ {p} : /\ pc'[q] = pc[q] /\ op'[q] = op[q] /\ arg'[q] = arg[q]
                                    /\ pub'[q] = pub[q] /\ then'[q] = then[q]
      /\ UNCHANGED <<entry, lock, history>>
  BY <1>0 DEF Finish, Recover, Mark, TakeFamily, Goto, TypeOK
<1>1. Elsewhere(p, h)
  BY <1>g, NoneAssumption DEF Elsewhere, Same, Rooted, entry, history
<1>2. UNCHANGED <<dirs, dirsOnDisk, names, onDisk, tree, unflushed, ended, used, acked>>
  BY <1>g DEF entry, history
<1>3. ASSUME NEW q \in Processes \ {p}, h # None, arg[q] = h
      PROVE  ~Fresh(q) /\ pc[q] # "locking"
  BY <1>g, NoneAssumption DEF Placed, Starts
<1>4. Process(p)'
  <2>1. ~Fresh(p)' /\ ~Owning(p)' /\ ~Builds(p)' /\ ~Engaged(p)' /\ Strips(p)'
          /\ ~Starts(p)' /\ ~Works(p)' /\ pc'[p] # "locking"
    BY <1>g, <1>0 DEF Fresh, Owning, Builds, Engaged, Works, Reclaims, Strips, Starts, Publishing
  <2>2. Placed(p)'
    BY <1>0, <1>u, <1>g, <2>1, NoneAssumption DEF Placed, Locks, Waits, Publishing, history
  <2>3. Retires(p)'
    <3>1. CASE Finish(p)
      <4>1. /\ Reclaiming(p) /\ Engaged(p) /\ Reclaims(p) /\ Placed(p) /\ Locks(p)
        BY <3>1 DEF Finish, Engaged, Reclaims, Locks, Works
      <4>2. /\ "use.lock" \in names[h] /\ tree[h] = "none" /\ lock[h] = p
            /\ names[h] \subseteq {"control.json", "use.lock", "released.json"}
        BY <3>1, <4>1 DEF Finish, Checked, Placed, Data
      <4>3. "released.json" \in names[h]
        BY <3>1, <4>1, <4>2 DEF Finish, Reclaiming
      <4> QED
        BY <1>g, <2>1, <4>2, <4>3 DEF Retires, Ownership, entry, history
    <3>2. CASE Recover(p)
      BY <3>2, <1>g, <2>1 DEF Recover, Initializing, Retires, Ownership, entry, history
    <3>3. CASE Mark(p)
      BY <3>3, <1>g, <2>1 DEF Mark, Terminal, Retires, Ownership, entry, history
    <3> QED
      BY <3>1, <3>2, <3>3
  <2> QED
    BY <1>g, <2>1, <2>2, <2>3 DEF Process, Binding, Initializes, Completes, Reclaiming
<1>5. h \in Handles /\ h \notin used => lock'[h] = None
  BY <1>u
<1> HIDE DEF h
<1> QED
  BY <1>t, <1>0, <1>1, <1>2, <1>3, <1>4, <1>5, StillStep

\* Cleanup declines to recover and looks for the revocation.
LEMMA StepDecline ==
  ASSUME IInv, NEW p \in Processes, Decline(p)
  PROVE  IInv'
<1> USE Known
<1> DEFINE h == arg[p]
<1>t. TypeOK'
  BY TypesReclaim DEF Reclaim
<1>0. h \in Handles /\ h # None /\ pc[p] = "recovering"
  BY HasHandle DEF Decline, Waits
<1>g. /\ pc'[p] = "marking" /\ arg'[p] = h /\ op'[p] = op[p]
      /\ \A q \in Processes \ {p} : /\ pc'[q] = pc[q] /\ op'[q] = op[q] /\ arg'[q] = arg[q]
                                    /\ pub'[q] = pub[q] /\ then'[q] = then[q]
      /\ UNCHANGED <<entry, family, lock, history>>
  BY <1>0 DEF Decline, Goto, TypeOK
<1>1. Elsewhere(p, h)
  BY <1>g DEF Elsewhere, Same, Rooted, entry, history
<1>2. UNCHANGED <<dirs, dirsOnDisk, names, onDisk, tree, unflushed, ended, used, acked>>
  BY <1>g DEF entry, history
<1>c. ~Fresh(p) /\ ~Owning(p) /\ ~Builds(p) /\ ~Works(p) /\ ~Strips(p) /\ ~Starts(p)
  BY <1>0 DEF Fresh, Owning, Builds, Engaged, Works, Reclaims, Strips, Starts, Publishing
<1>3. ASSUME NEW q \in Processes \ {p}, h # None, arg[q] = h
      PROVE  (Fresh(q) => lock'[h] = None /\ Waits(p)') /\ lock'[h] # p
  <2>1. lock[h] # p
    BY <1>0, <1>c DEF Placed, Locks
  <2> QED
    BY <1>3, <1>g, <2>1 DEF Binding, Waits
<1>4. Process(p)'
  <2>1. ~Fresh(p)' /\ ~Owning(p)' /\ ~Builds(p)' /\ ~Engaged(p)' /\ ~Strips(p)'
          /\ ~Starts(p)' /\ ~Works(p)' /\ pc'[p] # "locking" /\ Waits(p)'
    BY <1>g, <1>0 DEF Fresh, Owning, Builds, Engaged, Works, Reclaims, Strips, Starts, Publishing,
       Waits
  <2>2. Placed(p)'
    BY <1>0, <1>c, <1>g, <2>1 DEF Placed, Locks, Publishing, history
  <2> QED
    BY <1>g, <2>1, <2>2 DEF Process, Binding, Initializes, Completes, Reclaiming, Retires
<1>5. h \in Handles /\ h \notin used => lock'[h] = None
  BY <1>g, EntryParts DEF Unborn
<1> HIDE DEF h
<1> QED
  BY <1>t, <1>0, <1>1, <1>2, <1>3, <1>4, <1>5, StillStep

-----------------------------------------------------------------------------
(* Steps that change the files of an entry *)

\* Who is at an unfinished binding waits, and goes on waiting.
LEMMA CompanyFresh ==
  ASSUME IInv, NEW p \in Processes, NEW h \in Handles, arg[p] = h, Elsewhere(p, h), Fresh(p),
         NEW q \in Processes \ {p}, arg[q] = h
  PROVE  Process(q)'
  BY BesideFresh, BesideLight

\* Who is at an entry that is stripped does not depend on what goes.
LEMMA CompanyStrips ==
  ASSUME IInv, NEW p \in Processes, NEW h \in Handles, arg[p] = h, Elsewhere(p, h), Strips(p),
         h \in acked' => h \in acked, names'[h] \subseteq names[h],
         "released.stage" \in names[h] => "released.stage" \in names'[h],
         \A s \in onDisk'[h] : s \in onDisk[h] \/ s = names'[h],
         NEW q \in Processes \ {p}, arg[q] = h
  PROVE  Process(q)'
<1>1. "ready.json" \notin names[h]
  BY Known DEF Retires
<1>2. CASE Waits(q) \/ pc[q] = "opening"
  BY <1>2, BesideLight
<1>3. CASE Works(q) /\ "use.lock" \notin names[h]
  BY <1>1, <1>3, BesideUnlocked
<1> QED
  BY <1>2, <1>3, BesideStrips

\* A process that publishes is binding, completing or revoking an entry.
LEMMA PublisherRole ==
  ASSUME IInv, NEW p \in Processes, pc[p] \in Publishing
  PROVE  /\ arg[p] \in Handles /\ arg[p] # None /\ arg[p] \in used
         /\ pc[p] # "staging" => arg[p] \in dirs
         /\ pub[p] \in Published
         /\ pub[p] = "control.json" =>
              Fresh(p) /\ Starts(p) /\ ~Builds(p) /\ ~Works(p) /\ ~Locks(p) /\ ~Strips(p)
         /\ pub[p] = "ready.json" =>
              Builds(p) /\ ~Fresh(p) /\ ~Starts(p) /\ ~Works(p) /\ Locks(p) /\ ~Strips(p)
         /\ pub[p] = "released.json" =>
              Works(p) /\ Engaged(p) /\ Reclaims(p) /\ ~Fresh(p) /\ ~Starts(p) /\ ~Builds(p)
                /\ Locks(p) /\ ~Strips(p)
         /\ ~Owning(p) /\ pc[p] # "locking"
<1>0. arg[p] \in Handles /\ arg[p] # None /\ arg[p] \in used /\ pub[p] \in Published
  BY OnlyUsed, Writer DEF Publishing
<1>1. /\ pub[p] = "control.json" =>
           Fresh(p) /\ Starts(p) /\ ~Builds(p) /\ ~Works(p) /\ ~Locks(p) /\ ~Strips(p)
      /\ pub[p] = "ready.json" =>
           Builds(p) /\ ~Fresh(p) /\ ~Starts(p) /\ ~Works(p) /\ Locks(p) /\ ~Strips(p)
      /\ pub[p] = "released.json" =>
           Works(p) /\ Engaged(p) /\ Reclaims(p) /\ ~Fresh(p) /\ ~Starts(p) /\ ~Builds(p)
             /\ Locks(p) /\ ~Strips(p)
      /\ ~Owning(p) /\ pc[p] # "locking"
  BY DEF Publishing, Fresh, Starts, Owning, Builds, Reclaims, Engaged, Works, Locks, Strips
<1>2. pc[p] # "staging" => arg[p] \in dirs
  <2>1. CASE pub[p] = "control.json"
    BY <1>1, <2>1, Known DEF Binding
  <2>2. CASE pub[p] = "ready.json"
    BY <1>0, <1>1, <2>2, Known, EntryParts DEF Completes, Files
  <2>3. CASE pub[p] = "released.json"
    BY <1>0, <1>1, <2>3, Known, EntryParts DEF Reclaiming, Files, Publishing
  <2> QED
    BY <1>0, <2>1, <2>2, <2>3 DEF Published
<1> QED
  BY <1>0, <1>1, <1>2

\* It keeps its role until the file is flushed.
LEMMA PublisherGoesOn ==
  ASSUME IInv, NEW p \in Processes, pc[p] \in Publishing,
         \/ pc'[p] \in Publishing
         \/ pc'[p] = "syncing" /\ then'[p] = AfterPublish(pub[p]),
         arg'[p] = arg[p], pub'[p] = pub[p], op'[p] = op[p],
         UNCHANGED <<family, lock, history>>
  PROVE  /\ Placed(p)'
         /\ Fresh(p)' <=> Fresh(p)
         /\ Builds(p)' <=> Builds(p)
         /\ Works(p)' <=> Works(p)
         /\ Reclaims(p)' <=> Reclaims(p)
         /\ Engaged(p)' <=> Engaged(p)
         /\ ~Strips(p)' /\ ~Owning(p)' /\ pc'[p] # "locking"
<1>1. /\ Fresh(p)' <=> pub[p] = "control.json"
      /\ Builds(p)' <=> pub[p] = "ready.json"
      /\ Reclaims(p)' <=> pub[p] = "released.json"
      /\ Works(p)' <=> pub[p] = "released.json"
      /\ Engaged(p)' <=> pub[p] = "released.json"
      /\ ~Strips(p)' /\ ~Owning(p)' /\ pc'[p] # "locking"
      /\ Starts(p)' <=> pub[p] = "control.json"
      /\ Locks(p)' <=> pub[p] # "control.json"
  BY PublisherRole DEF Publishing, Published, AfterPublish, Fresh, Starts, Owning, Builds,
     Reclaims, Engaged, Works, Locks, Strips
<1>2. /\ Fresh(p) <=> pub[p] = "control.json"
      /\ Builds(p) <=> pub[p] = "ready.json"
      /\ Reclaims(p) <=> pub[p] = "released.json"
      /\ Works(p) <=> pub[p] = "released.json"
      /\ Engaged(p) <=> pub[p] = "released.json"
      /\ Starts(p) <=> pub[p] = "control.json"
      /\ Locks(p) <=> pub[p] # "control.json"
  BY PublisherRole DEF Publishing, Published, Fresh, Starts, Owning, Builds,
     Reclaims, Engaged, Works, Locks, Strips
<1>3. ~Strips(p)
  BY PublisherRole DEF Published
<1>4. Placed(p)'
  <2>1. Placed(p)
    BY Known
  <2>2. /\ pc'[p] \notin {"idle", "allocating"} /\ arg[p] # None /\ arg[p] \in used
        /\ pub[p] \in Published
    BY PublisherRole DEF Publishing
  <2>3. pc'[p] = "syncing" => then'[p] \in {"creating", "prepared", "revoked"}
    BY <2>2, AfterPublishing DEF Publishing
  <2>4. /\ (family' = p) <=> (Starts(p)' \/ Strips(p)')
        /\ Locks(p)' => lock'[arg[p]] = p
        /\ \A g \in Handles : lock'[g] = p => arg[p] = g /\ (Locks(p)' \/ Strips(p)')
        /\ Starts(p)' \/ Builds(p)' => arg[p] \notin acked'
        /\ op[p] = "release" => arg[p] \in requested'
    BY <1>1, <1>2, <1>3, <2>1, <2>2 DEF Placed, history
  <2> QED
    BY <2>2, <2>3, <2>4 DEF Placed, history
<1> QED
  BY <1>1, <1>2, <1>4

\* A step at one entry, which leaves the store alone.
LEMMA EffectStep ==
  ASSUME IInv, NEW p \in Processes, NEW h \in Handles, arg[p] = h, Elsewhere(p, h), TypeOK',
         UNCHANGED <<dirs, dirsOnDisk>>, Entry(h)', Process(p)',
         \A q \in Processes \ {p} : arg[q] = h => Process(q)'
  PROVE  IInv'
<1>1. Store'
  BY Known DEF Store
<1> QED
  BY <1>1, Conclude

\* The holder's company, when the holder is not about to leave the lock to somebody else.
LEMMA CompanyPublisher ==
  ASSUME IInv, NEW p \in Processes, pc[p] \in Publishing, NEW h \in Handles, arg[p] = h,
         Elsewhere(p, h), UNCHANGED <<dirs, acked, tree>>,
         lock'[h] = p => arg'[p] = h /\ (Works(p)' <=> Works(p)),
         pub[p] = "released.json" =>
           /\ \A n \in {"control.json", "use.lock", "control.stage", "ready.json"} :
                (n \in names'[h]) <=> (n \in names[h])
           /\ onDisk'[h] \subseteq onDisk[h] \cup {names'[h]},
         NEW q \in Processes \ {p}, arg[q] = h
  PROVE  Process(q)'
<1>0. pub[p] \in Published
  BY PublisherRole
<1>1. CASE pub[p] = "control.json"
  BY <1>1, PublisherRole, CompanyFresh
<1>2. CASE pub[p] = "ready.json"
  <2>1. Locks(p) /\ ~Works(p)
    BY <1>2, PublisherRole
  <2>2. pc[p] # "checking"
    BY DEF Publishing
  <2> QED
    BY <2>1, <2>2, BesideLocks
<1>3. CASE pub[p] = "released.json"
  <2>1. Locks(p) /\ Works(p)
    BY <1>3, PublisherRole
  <2>2. pc[p] # "checking"
    BY DEF Publishing
  <2>3. /\ \A n \in {"control.json", "use.lock"} : n \in names'[h] <=> n \in names[h]
        /\ \A n \in {"control.stage", "ready.json"} : n \in names'[h] => n \in names[h]
        /\ \A s \in onDisk'[h] : s \in onDisk[h] \/ s = names[h] \/ s = names'[h]
        /\ tree[h] = "none" => tree'[h] = "none"
    BY <1>3
  <2> QED
    BY <2>1, <2>2, <2>3, BesideLocks
<1> QED
  BY <1>0, <1>1, <1>2, <1>3 DEF Published

\* A stage is created.
LEMMA StepCreateStage ==
  ASSUME IInv, NEW p \in Processes, CreateStage(p)
  PROVE  IInv'
<1> USE Known
<1>t. TypeOK'
  BY TypesPublication DEF Publication
<1>a. pc[p] = "staging" /\ pc[p] \in Publishing
  BY DEF CreateStage, Publishing
<1>h. PICK h \in Handles, s \in Stages : h = arg[p] /\ s = retainedStage(pub[p])
  BY <1>a, PublisherRole, Stage
<1>0. h # None /\ h \in used /\ h \in dirs /\ pub[p] \in Published
  BY <1>a, <1>h, PublisherRole DEF CreateStage
<1>g. /\ pc'[p] = "writing" /\ then'[p] = then[p] /\ arg'[p] = h /\ op'[p] = op[p]
      /\ pub'[p] = pub[p]
      /\ names'[h] = names[h] \cup {s} /\ onDisk'[h] = onDisk[h] \cup {names'[h]}
      /\ \A g \in Handles : g # h => names'[g] = names[g] /\ onDisk'[g] = onDisk[g]
      /\ \A q \in Processes \ {p} : /\ pc'[q] = pc[q] /\ op'[q] = op[q] /\ arg'[q] = arg[q]
                                    /\ pub'[q] = pub[q] /\ then'[q] = then[q]
      /\ UNCHANGED <<dirs, dirsOnDisk, tree, unflushed, family, lock, history>>
      /\ s \notin names[h]
  BY <1>h, <1>0 DEF CreateStage, Add, Goto, TypeOK
<1>1. Elsewhere(p, h)
  BY <1>h, <1>g DEF Elsewhere, Same, Rooted, history
<1>2. Kept(h) /\ Adds(h, s)
  BY <1>h, <1>0, <1>g DEF Kept, Adds, Rooted, history
<1>r. /\ Placed(p)'
      /\ Fresh(p)' <=> Fresh(p)
      /\ Builds(p)' <=> Builds(p)
      /\ Works(p)' <=> Works(p)
      /\ Reclaims(p)' <=> Reclaims(p)
      /\ Engaged(p)' <=> Engaged(p)
      /\ ~Strips(p)' /\ ~Owning(p)' /\ pc'[p] # "locking"
  BY <1>a, <1>h, <1>g, PublisherGoesOn DEF Publishing
<1>3. Files(h) /\ names[h] \in onDisk[h]
  BY <1>h, <1>0, EntryParts DEF Files
<1>4. \/ "use.lock" \in names[h] \/ h \in preempted
      \/ h \notin ended /\ "released.json" \notin UNION onDisk[h]
  <2>1. CASE pub[p] = "control.json"
    BY <1>h, <1>a, <2>1, PublisherRole DEF Binding, Ownership
  <2>2. CASE pub[p] = "ready.json"
    BY <1>h, <1>a, <2>2, PublisherRole DEF Completes
  <2>3. CASE pub[p] = "released.json"
    BY <1>h, <1>a, <2>3, PublisherRole DEF Reclaiming
  <2> QED
    BY <1>h, <1>0, <2>1, <2>2, <2>3 DEF Published
<1>5. Entry(h)'
  BY <1>h, <1>0, <1>2, <1>4, EntryAddPlain
<1>6. Process(p)'
  <2>1. Binding(p)'
    <3>1. CASE pub[p] # "control.json"
      BY <1>h, <1>0, <1>a, <1>r, <3>1, PublisherRole DEF Binding, Published
    <3>2. CASE pub[p] = "control.json"
      <4>1. Fresh(p) /\ Binding(p) /\ s = "control.stage"
        BY <1>h, <1>a, <3>2, PublisherRole DEF retainedStage
      <4>2. \A q \in Processes : q # p /\ arg'[q] = h => Waits(q)'
        BY <1>h, <1>g, <4>1 DEF Binding, Waits
      <4> QED
        BY <1>h, <1>0, <1>a, <1>g, <1>3, <4>1, <4>2 DEF Binding, Ownership, history
    <3> QED
      BY <3>1, <3>2
  <2>2. Completes(p)'
    <3>1. CASE pub[p] # "ready.json"
      BY <1>h, <1>0, <1>a, <1>r, <3>1, PublisherRole DEF Completes, Published
    <3>2. CASE pub[p] = "ready.json"
      <4>1. Builds(p) /\ Completes(p) /\ s = "ready.stage"
        BY <1>h, <1>a, <3>2, PublisherRole DEF retainedStage
      <4> QED
        BY <1>h, <1>0, <1>a, <1>g, <1>3, <4>1 DEF Completes, Whole, history, Publishing
    <3> QED
      BY <3>1, <3>2
  <2>3. Reclaiming(p)'
    <3>1. CASE pub[p] # "released.json"
      BY <1>h, <1>0, <1>a, <1>r, <3>1, PublisherRole DEF Reclaiming, Published, Works
    <3>2. CASE pub[p] = "released.json"
      <4>1. Engaged(p) /\ Reclaims(p) /\ Reclaiming(p) /\ s = "released.stage"
        BY <1>h, <1>a, <3>2, PublisherRole DEF retainedStage
      <4> QED
        BY <1>h, <1>0, <1>a, <1>g, <4>1 DEF Reclaiming, Exposed, history
    <3> QED
      BY <3>1, <3>2
  <2> QED
    BY <1>r, <2>1, <2>2, <2>3 DEF Process, Initializes, Retires
<1>7. ASSUME NEW q \in Processes \ {p}, arg[q] = h
      PROVE  Process(q)'
  <2>1. pub[p] = "released.json" => s = "released.stage"
    BY <1>h DEF retainedStage
  <2>2. UNCHANGED <<dirs, acked, tree>>
    BY <1>g DEF history
  <2> QED
    BY <1>h, <1>0, <1>a, <1>g, <1>r, <1>1, <1>7, <2>1, <2>2, CompanyPublisher
<1> QED
  BY <1>t, <1>h, <1>0, <1>g, <1>1, <1>5, <1>6, <1>7, EffectStep

\* A stage is linked to its name: binding, completion or revocation.
LEMMA StepLinkStage ==
  ASSUME IInv, NEW p \in Processes, LinkStage(p)
  PROVE  IInv'
<1> USE Known
<1>t. TypeOK'
  BY TypesPublication DEF Publication
<1>a. pc[p] = "linking" /\ pc[p] \in Publishing
  BY DEF LinkStage, Publishing
<1>h. PICK h \in Handles, s \in Published : h = arg[p] /\ s = pub[p]
  BY <1>a, PublisherRole, Stage
<1>0. h # None /\ h \in used /\ h \in dirs /\ pub[p] \in Published
  BY <1>a, <1>h, PublisherRole DEF LinkStage
<1>g. /\ pc'[p] = "unstaging" /\ then'[p] = then[p] /\ arg'[p] = h /\ op'[p] = op[p]
      /\ pub'[p] = pub[p]
      /\ names'[h] = names[h] \cup {s} /\ onDisk'[h] = onDisk[h] \cup {names'[h]}
      /\ \A g \in Handles : g # h => names'[g] = names[g] /\ onDisk'[g] = onDisk[g]
      /\ \A q \in Processes \ {p} : /\ pc'[q] = pc[q] /\ op'[q] = op[q] /\ arg'[q] = arg[q]
                                    /\ pub'[q] = pub[q] /\ then'[q] = then[q]
      /\ UNCHANGED <<dirs, dirsOnDisk, tree, unflushed, family, lock, history>>
      /\ s \notin names[h]
  BY <1>h, <1>0 DEF LinkStage, Add, Goto, TypeOK
<1>1. Elsewhere(p, h)
  BY <1>h, <1>g DEF Elsewhere, Same, Rooted, history
<1>2. Kept(h) /\ Adds(h, s)
  BY <1>h, <1>0, <1>g DEF Kept, Adds, Rooted, history
<1>r. /\ Placed(p)'
      /\ Fresh(p)' <=> Fresh(p)
      /\ Builds(p)' <=> Builds(p)
      /\ Works(p)' <=> Works(p)
      /\ Reclaims(p)' <=> Reclaims(p)
      /\ Engaged(p)' <=> Engaged(p)
      /\ ~Strips(p)' /\ ~Owning(p)' /\ pc'[p] # "locking"
  BY <1>a, <1>h, <1>g, PublisherGoesOn DEF Publishing
<1>3. Files(h) /\ names[h] \in onDisk[h]
  BY <1>h, <1>0, EntryParts DEF Files
<1>5. Entry(h)'
  <2>1. CASE s = "control.json"
    <3>1. h \notin ended /\ "released.json" \notin UNION onDisk[h]
      BY <1>h, <1>a, <2>1, PublisherRole DEF Binding, Ownership
    <3> QED
      BY <1>0, <1>2, <2>1, <3>1, EntryAddPlain
  <2>2. CASE s = "ready.json"
    <3>1. Builds(p) /\ Completes(p) /\ Placed(p)
      BY <1>h, <1>a, <2>2, PublisherRole
    <3>2. /\ {"control.json", "use.lock"} \subseteq names[h] /\ Whole(h) /\ h \notin acked
          /\ \A d \in onDisk[h] : "ready.json" \notin d
      BY <1>h, <1>a, <3>1 DEF Completes, Placed
    <3> QED
      BY <1>0, <1>2, <2>2, <3>2, EntryAddReady
  <2>3. CASE s = "released.json"
    <3>1. Engaged(p) /\ Reclaims(p) /\ Reclaiming(p)
      BY <1>h, <1>a, <2>3, PublisherRole
    <3>2. /\ "use.lock" \in names[h] \/ h \in preempted
          /\ h \in requested \/ "ready.json" \notin names[h] \/ "released.json" \in names[h]
      BY <1>h, <3>1 DEF Reclaiming
    <3> QED
      BY <1>0, <1>2, <2>3, <3>2, EntryAddReleased
  <2> QED
    BY <2>1, <2>2, <2>3 DEF Published
<1>6. Process(p)'
  <2>1. Binding(p)'
    <3>1. CASE pub[p] # "control.json"
      BY <1>h, <1>0, <1>a, <1>r, <3>1, PublisherRole DEF Binding, Published
    <3>2. CASE pub[p] = "control.json"
      <4>1. Fresh(p) /\ Binding(p)
        BY <1>h, <1>a, <3>2, PublisherRole
      <4>2. \A q \in Processes : q # p /\ arg'[q] = h => Waits(q)'
        BY <1>h, <1>g, <4>1 DEF Binding, Waits
      <4> QED
        BY <1>h, <1>0, <1>a, <1>g, <1>3, <3>2, <4>1, <4>2 DEF Binding, Ownership, history
    <3> QED
      BY <3>1, <3>2
  <2>2. Completes(p)'
    <3>1. CASE pub[p] # "ready.json"
      BY <1>h, <1>0, <1>a, <1>r, <3>1, PublisherRole DEF Completes, Published
    <3>2. CASE pub[p] = "ready.json"
      <4>1. Builds(p) /\ Completes(p)
        BY <1>h, <1>a, <3>2, PublisherRole
      <4> QED
        BY <1>h, <1>0, <1>a, <1>g, <1>3, <3>2, <4>1 DEF Completes, Whole, history, Publishing
    <3> QED
      BY <3>1, <3>2
  <2>3. Reclaiming(p)'
    <3>1. CASE pub[p] # "released.json"
      BY <1>h, <1>0, <1>a, <1>r, <3>1, PublisherRole DEF Reclaiming, Published, Works
    <3>2. CASE pub[p] = "released.json"
      <4>1. Engaged(p) /\ Reclaims(p) /\ Reclaiming(p)
        BY <1>h, <1>a, <3>2, PublisherRole
      <4> QED
        BY <1>h, <1>0, <1>a, <1>g, <3>2, <4>1 DEF Reclaiming, Exposed, history
    <3> QED
      BY <3>1, <3>2
  <2> QED
    BY <1>r, <2>1, <2>2, <2>3 DEF Process, Initializes, Retires
<1>7. ASSUME NEW q \in Processes \ {p}, arg[q] = h
      PROVE  Process(q)'
  <2>1. pub[p] = "released.json" => s = "released.json"
    BY <1>h
  <2>2. UNCHANGED <<dirs, acked, tree>>
    BY <1>g DEF history
  <2> QED
    BY <1>h, <1>0, <1>a, <1>g, <1>r, <1>1, <1>7, <2>1, <2>2, CompanyPublisher
<1> QED
  BY <1>t, <1>h, <1>0, <1>g, <1>1, <1>5, <1>6, <1>7, EffectStep

\* The stage of what was published is removed.
LEMMA StepRemoveStage ==
  ASSUME IInv, NEW p \in Processes, RemoveStage(p)
  PROVE  IInv'
<1> USE Known
<1>t. TypeOK'
  BY TypesPublication DEF Publication
<1>a. pc[p] = "unstaging" /\ pc[p] \in Publishing
  BY DEF RemoveStage, Publishing
<1>h. PICK h \in Handles, s \in Stages : h = arg[p] /\ s = retainedStage(pub[p])
  BY <1>a, PublisherRole, Stage
<1>0. h # None /\ h \in used /\ h \in dirs /\ pub[p] \in Published
  BY <1>a, <1>h, PublisherRole DEF RemoveStage
<1>g. /\ pc'[p] = "syncing" /\ then'[p] = AfterPublish(pub[p]) /\ arg'[p] = h /\ op'[p] = op[p]
      /\ pub'[p] = pub[p]
      /\ names'[h] = names[h] \ {s} /\ onDisk'[h] = onDisk[h] \cup {names'[h]}
      /\ \A g \in Handles : g # h => names'[g] = names[g] /\ onDisk'[g] = onDisk[g]
      /\ \A q \in Processes \ {p} : /\ pc'[q] = pc[q] /\ op'[q] = op[q] /\ arg'[q] = arg[q]
                                    /\ pub'[q] = pub[q] /\ then'[q] = then[q]
      /\ UNCHANGED <<dirs, dirsOnDisk, tree, unflushed, family, lock, history>>
  BY <1>h, <1>0 DEF RemoveStage, Drop, SyncThen, TypeOK
<1>1. Elsewhere(p, h)
  BY <1>h, <1>g DEF Elsewhere, Same, Rooted, history
<1>2. Kept(h) /\ Drops(h, s)
  BY <1>h, <1>0, <1>g DEF Kept, Drops, Rooted, history
<1>r. /\ Placed(p)'
      /\ Fresh(p)' <=> Fresh(p)
      /\ Builds(p)' <=> Builds(p)
      /\ Works(p)' <=> Works(p)
      /\ Reclaims(p)' <=> Reclaims(p)
      /\ Engaged(p)' <=> Engaged(p)
      /\ ~Strips(p)' /\ ~Owning(p)' /\ pc'[p] # "locking"
  BY <1>a, <1>h, <1>g, PublisherGoesOn DEF Publishing
<1>3. Files(h) /\ names[h] \in onDisk[h]
  BY <1>h, <1>0, EntryParts DEF Files
<1>5. Entry(h)'
  BY <1>0, <1>2, EntryDropStage
<1>6. Process(p)'
  <2>1. Binding(p)'
    <3>1. CASE pub[p] # "control.json"
      BY <1>h, <1>0, <1>a, <1>r, <3>1, PublisherRole DEF Binding, Published
    <3>2. CASE pub[p] = "control.json"
      <4>1. Fresh(p) /\ Binding(p) /\ s = "control.stage"
        BY <1>h, <1>a, <3>2, PublisherRole DEF retainedStage
      <4>2. \A q \in Processes : q # p /\ arg'[q] = h => Waits(q)'
        BY <1>h, <1>g, <4>1 DEF Binding, Waits
      <4> QED
        BY <1>h, <1>0, <1>a, <1>g, <1>3, <4>1, <4>2 DEF Binding, Ownership, history
    <3> QED
      BY <3>1, <3>2
  <2>2. Completes(p)'
    <3>1. CASE pub[p] # "ready.json"
      BY <1>h, <1>0, <1>a, <1>r, <3>1, PublisherRole DEF Completes, Published
    <3>2. CASE pub[p] = "ready.json"
      <4>1. Builds(p) /\ Completes(p) /\ s = "ready.stage"
        BY <1>h, <1>a, <3>2, PublisherRole DEF retainedStage
      <4> QED
        BY <1>h, <1>0, <1>a, <1>g, <1>3, <4>1 DEF Completes, Whole, history, Publishing
    <3> QED
      BY <3>1, <3>2
  <2>3. Reclaiming(p)'
    <3>1. CASE pub[p] # "released.json"
      BY <1>h, <1>0, <1>a, <1>r, <3>1, PublisherRole DEF Reclaiming, Published, Works
    <3>2. CASE pub[p] = "released.json"
      <4>1. Engaged(p) /\ Reclaims(p) /\ Reclaiming(p) /\ s = "released.stage"
        BY <1>h, <1>a, <3>2, PublisherRole DEF retainedStage
      <4>2. then'[p] = "revoked"
        BY <1>g, <3>2 DEF AfterPublish
      <4> QED
        BY <1>h, <1>0, <1>a, <1>g, <4>1, <4>2 DEF Reclaiming, history
    <3> QED
      BY <3>1, <3>2
  <2> QED
    BY <1>r, <2>1, <2>2, <2>3 DEF Process, Initializes, Retires
<1>7. ASSUME NEW q \in Processes \ {p}, arg[q] = h
      PROVE  Process(q)'
  <2>1. pub[p] = "released.json" => s = "released.stage"
    BY <1>h DEF retainedStage
  <2>2. UNCHANGED <<dirs, acked, tree>>
    BY <1>g DEF history
  <2> QED
    BY <1>h, <1>0, <1>a, <1>g, <1>r, <1>1, <1>7, <2>1, <2>2, CompanyPublisher
<1> QED
  BY <1>t, <1>h, <1>0, <1>g, <1>1, <1>5, <1>6, <1>7, EffectStep

\* A stage is written.
LEMMA StepWriteStage ==
  ASSUME IInv, NEW p \in Processes, WriteStage(p)
  PROVE  IInv'
<1> USE Known
<1>t. TypeOK'
  BY TypesPublication DEF Publication
<1>a. pc[p] = "writing" /\ pc[p] \in Publishing
  BY DEF WriteStage, Publishing
<1>h. PICK h \in Handles : h = arg[p]
  BY <1>a, PublisherRole
<1>0. h # None /\ h \in used /\ pub[p] \in Published
  BY <1>a, <1>h, PublisherRole
<1>g. /\ pc'[p] = "linking" /\ then'[p] = then[p] /\ arg'[p] = h /\ op'[p] = op[p]
      /\ pub'[p] = pub[p]
      /\ \A q \in Processes \ {p} : /\ pc'[q] = pc[q] /\ op'[q] = op[q] /\ arg'[q] = arg[q]
                                    /\ pub'[q] = pub[q] /\ then'[q] = then[q]
      /\ UNCHANGED <<dirs, dirsOnDisk, names, onDisk, tree, unflushed, family, lock, history>>
  BY <1>h, <1>0 DEF WriteStage, Goto, TypeOK
<1>1. Elsewhere(p, h)
  BY <1>h, <1>g DEF Elsewhere, Same, Rooted, history
<1>r. /\ Placed(p)'
      /\ Fresh(p)' <=> Fresh(p)
      /\ Builds(p)' <=> Builds(p)
      /\ Works(p)' <=> Works(p)
      /\ Reclaims(p)' <=> Reclaims(p)
      /\ Engaged(p)' <=> Engaged(p)
      /\ ~Strips(p)' /\ ~Owning(p)' /\ pc'[p] # "locking"
  BY <1>a, <1>h, <1>g, PublisherGoesOn DEF Publishing
<1>2. ASSUME NEW q \in Processes \ {p}, arg[q] = h
      PROVE  /\ ~Fresh(q)
             /\ pc[q] = "locking" => Works(p)' /\ h \in preempted'
  <2>1. CASE Fresh(p)
    BY <1>h, <1>2, <2>1, BesideFresh DEF Waits, Fresh, Publishing
  <2>2. CASE Locks(p)
    <3>1. preempted' = preempted /\ (Works(p)' <=> Works(p))
      BY <1>g, <1>r DEF history
    <3>2. ~Fresh(q)
      BY <1>h, <1>2, <1>a, BesideFresh DEF Waits, Publishing
    <3> QED
      BY <1>h, <1>2, <2>2, <3>1, <3>2, BesideHolder DEF Waits, Strips
  <2> QED
    BY <1>a, <1>0, <2>1, <2>2, PublisherRole DEF Published
<1>6. Process(p)'
  <2>1. Binding(p)'
    <3>1. CASE pub[p] # "control.json"
      BY <1>h, <1>0, <1>a, <1>r, <3>1, PublisherRole DEF Binding, Published
    <3>2. CASE pub[p] = "control.json"
      <4>1. Fresh(p) /\ Binding(p)
        BY <1>a, <3>2, PublisherRole
      <4>2. \A q \in Processes : q # p /\ arg'[q] = h => Waits(q)'
        BY <1>h, <1>g, <4>1 DEF Binding, Waits
      <4> QED
        BY <1>h, <1>a, <1>g, <4>1, <4>2 DEF Binding, Ownership, history
    <3> QED
      BY <3>1, <3>2
  <2>2. Completes(p)'
    <3>1. Completes(p)
      OBVIOUS
    <3> QED
      BY <1>h, <1>a, <1>g, <1>r, <3>1 DEF Completes, Whole, history, Publishing
  <2>3. Reclaiming(p)'
    <3>1. Reclaiming(p)
      OBVIOUS
    <3> QED
      BY <1>h, <1>a, <1>g, <1>r, <3>1 DEF Reclaiming, Verified, history
  <2> QED
    BY <1>r, <2>1, <2>2, <2>3 DEF Process, Initializes, Retires
<1> QED
  BY <1>t, <1>h, <1>0, <1>g, <1>1, <1>2, <1>6, StillStep DEF history

\* The entry is flushed.
LEMMA StepSync ==
  ASSUME IInv, NEW p \in Processes, Sync(p)
  PROVE  IInv'
<1> USE Known
<1>t. TypeOK'
  BY TypesPublication DEF Publication
<1>a. pc[p] = "syncing"
  BY DEF Sync
<1>h. PICK h \in Handles : h = arg[p]
  BY <1>a, OnlyUsed
<1>0. h # None /\ h \in used
  BY <1>a, <1>h, OnlyUsed
<1>b. then[p] \in {"creating", "owned", "prepared", "retiring", "revoked", "removing", "stripping"}
  BY <1>a DEF Placed
<1>g. /\ pc'[p] = then[p] /\ arg'[p] = h /\ op'[p] = op[p] /\ pub'[p] = pub[p]
      /\ names' = names /\ onDisk'[h] = {names[h]}
      /\ (h \in ended') <=> (h \in ended \/ "released.json" \in UNION onDisk[h])
      /\ \A g \in Handles : g # h => onDisk'[g] = onDisk[g] /\ ((g \in ended') <=> (g \in ended))
      /\ \A q \in Processes \ {p} : /\ pc'[q] = pc[q] /\ op'[q] = op[q] /\ arg'[q] = arg[q]
                                    /\ pub'[q] = pub[q] /\ then'[q] = then[q]
      /\ UNCHANGED <<dirs, dirsOnDisk, tree, unflushed, family, lock, used, acked, requested,
                     preempted, resumed>>
  BY <1>h DEF Sync, Flushed, TypeOK
<1>1. Elsewhere(p, h)
  BY <1>h, <1>g DEF Elsewhere, Same, Rooted
<1>2. Entry(h)'
  BY <1>0, <1>g, EntryFlushed DEF Rooted
<1>3. names[h] \in onDisk[h]
  BY EntryParts DEF Files
<1>r. /\ Fresh(p)' <=> Fresh(p)
      /\ Owning(p)' <=> Owning(p)
      /\ Builds(p)' <=> Builds(p)
      /\ Works(p)' <=> Works(p)
      /\ Reclaims(p)' <=> Reclaims(p)
      /\ Engaged(p)' <=> Engaged(p)
      /\ Strips(p)' <=> Strips(p)
      /\ Starts(p)' <=> Starts(p)
      /\ Locks(p)' <=> Locks(p)
      /\ pc[p] # "locking" /\ pc'[p] # "locking"
  BY <1>a, <1>b, <1>g DEF Fresh, Owning, Builds, Works, Reclaims, Engaged, Strips, Starts, Locks,
     Publishing
<1>4. Process(p)'
  <2>1. Placed(p)'
    BY <1>h, <1>0, <1>a, <1>b, <1>g, <1>r DEF Placed, Publishing, Waits
  <2>2. Binding(p)'
    <3>1. CASE Fresh(p)
      <4>1. Binding(p)
        OBVIOUS
      <4>2. \A q \in Processes : q # p /\ arg'[q] = h => Waits(q)'
        BY <1>h, <1>g, <3>1, <4>1 DEF Binding, Waits
      <4>3. pc'[p] = "creating"
        BY <1>a, <1>g, <3>1 DEF Fresh, Publishing
      <4>4. h \notin ended'
        BY <1>h, <1>g, <3>1, <4>1 DEF Binding, Ownership
      <4>5. names[h] = {"control.json"} /\ h \in dirs /\ tree[h] = "none" /\ lock[h] = None
        BY <1>h, <1>a, <3>1, <4>1 DEF Binding
      <4>6. names'[h] = {"control.json"} /\ onDisk'[h] = {{"control.json"}} /\ h \in dirs'
              /\ tree'[h] = "none" /\ lock'[h] = None /\ arg'[p] = h
        BY <1>g, <4>5
      <4> QED
        BY <4>2, <4>3, <4>4, <4>6 DEF Binding, Ownership, Publishing
    <3>2. CASE ~Fresh(p)
      BY <1>r, <3>2 DEF Binding
    <3> QED
      BY <3>1, <3>2
  <2>3. Initializes(p)'
    <3>1. Initializes(p)
      OBVIOUS
    <3> QED
      BY <1>h, <1>g, <1>r, <1>3, <3>1 DEF Initializes
  <2>4. Completes(p)'
    <3>1. CASE Builds(p)
      <4>1. Completes(p)
        OBVIOUS
      <4>2. pc'[p] = "prepared"
        BY <1>a, <1>g, <3>1 DEF Builds, Publishing
      <4> QED
        BY <1>h, <1>a, <1>g, <1>3, <3>1, <4>1, <4>2 DEF Completes, Whole
    <3>2. CASE ~Builds(p)
      BY <1>r, <3>2 DEF Completes
    <3> QED
      BY <3>1, <3>2
  <2>5. Reclaiming(p)'
    <3>1. Reclaiming(p)
      OBVIOUS
    <3>2. "ready.json" \in names[h] => "use.lock" \in names[h]
      BY <1>3, EntryParts DEF Files
    <3>3. ~Exposed(h)' <=> "ready.json" \notin names[h] \/ "released.json" \in names[h]
      BY <1>g DEF Exposed
    <3>4. ~Exposed(h) => ~Exposed(h)'
      BY <1>3, <3>3 DEF Exposed
    <3>5. then[p] \in {"revoked", "removing"} => ~Exposed(h)' \/ h \in resumed'
      BY <1>h, <1>a, <1>g, <3>1, <3>2, <3>3, <3>4 DEF Reclaiming, Engaged, Reclaims
    <3> QED
      BY <1>h, <1>a, <1>b, <1>g, <1>r, <3>1, <3>5 DEF Reclaiming, Verified
  <2>6. Retires(p)'
    <3>1. Retires(p)
      OBVIOUS
    <3> QED
      BY <1>h, <1>a, <1>b, <1>g, <1>r, <3>1 DEF Retires, Ownership
  <2> QED
    BY <2>1, <2>2, <2>3, <2>4, <2>5, <2>6 DEF Process
<1>5. ASSUME NEW q \in Processes \ {p}, arg[q] = h
      PROVE  Process(q)'
  <2>1. CASE Fresh(p)
    BY <1>h, <1>1, <1>5, <2>1, CompanyFresh
  <2>2. CASE Strips(p)
    BY <1>h, <1>g, <1>1, <1>5, <2>2, CompanyStrips
  <2>3. CASE Locks(p)
    BY <1>h, <1>a, <1>g, <1>r, <1>1, <1>5, <2>3, BesideLocks
  <2> QED
    BY <1>a, <1>b, <2>1, <2>2, <2>3 DEF Fresh, Strips, Locks, Owning, Builds, Works, Engaged,
       Reclaims
<1> QED
  BY <1>t, <1>h, <1>g, <1>1, <1>2, <1>4, <1>5, EffectStep

\* A publication or a creation that fails removes its file.
LEMMA StepStopPublishing ==
  ASSUME IInv, NEW p \in Processes, StopPublishing(p)
  PROVE  IInv'
<1> USE Known
<1>t. TypeOK'
  BY TypesEnd
<1>a. pc[p] \in Publishing
  BY DEF StopPublishing, Publishing
<1>h. PICK h \in Handles, s \in Stages : h = arg[p] /\ s = retainedStage(pub[p])
  BY <1>a, PublisherRole, Stage
<1>0. h # None /\ h \in used /\ pub[p] \in Published
  BY <1>a, <1>h, PublisherRole
<1>r. Rest(p)
  BY DEF StopPublishing
<1>g. /\ names'[h] = names[h] \ {s} /\ onDisk'[h] = onDisk[h] \cup {names'[h]}
      /\ \A g \in Handles : g # h => names'[g] = names[g] /\ onDisk'[g] = onDisk[g]
      /\ UNCHANGED <<dirs, dirsOnDisk, tree, unflushed, history>>
  BY <1>h DEF StopPublishing, Drop, TypeOK
<1>1. Elsewhere(p, h)
  BY <1>h, <1>r, <1>g, RestAlone DEF Elsewhere, Same, Rooted, history
<1>2. Kept(h) /\ Drops(h, s)
  BY <1>0, <1>g DEF Kept, Drops, Rooted, history
<1>3. Entry(h)'
  BY <1>0, <1>2, EntryDropStage
<1>4. Process(p)'
  BY <1>r, AtRest
<1>5. ASSUME NEW q \in Processes \ {p}, arg[q] = h
      PROVE  Process(q)'
  <2>1. pub[p] = "released.json" => s = "released.stage"
    BY <1>h DEF retainedStage
  <2>2. UNCHANGED <<dirs, acked, tree>>
    BY <1>g DEF history
  <2>3. lock'[h] # p
    BY <1>r, RestAlone
  <2> QED
    BY <1>h, <1>a, <1>g, <1>1, <1>5, <2>1, <2>2, <2>3, CompanyPublisher
<1> QED
  BY <1>t, <1>h, <1>g, <1>1, <1>3, <1>4, <1>5, EffectStep

\* A cancelled creation of use.lock takes it away again.
LEMMA StepStopLocking ==
  ASSUME IInv, NEW p \in Processes, StopLocking(p)
  PROVE  IInv'
<1> USE Known
<1>t. TypeOK'
  BY TypesEnd
<1>a. pc[p] = "locking"
  BY DEF StopLocking
<1>h. PICK h \in Handles : h = arg[p]
  BY <1>a, OnlyUsed
<1>0. h # None /\ h \in used
  BY <1>a, <1>h, OnlyUsed
<1>r. Rest(p)
  BY DEF StopLocking
<1>g. /\ names'[h] = names[h] \ {"use.lock"} /\ onDisk'[h] = onDisk[h] \cup {names'[h]}
      /\ \A g \in Handles : g # h => names'[g] = names[g] /\ onDisk'[g] = onDisk[g]
      /\ UNCHANGED <<dirs, dirsOnDisk, tree, unflushed, history>>
      /\ "use.lock" \in names[h]
  BY <1>h DEF StopLocking, Drop, TypeOK
<1>1. Elsewhere(p, h)
  BY <1>h, <1>r, <1>g, RestAlone DEF Elsewhere, Same, Rooted, history
<1>2. Kept(h) /\ Drops(h, "use.lock")
  BY <1>0, <1>g DEF Kept, Drops, Rooted, history
<1>i. Initializes(p)
  OBVIOUS
<1>f. names[h] \in onDisk[h]
  BY EntryParts DEF Files
<1>3. "ready.json" \notin names[h]
  BY <1>a, <1>h, <1>i, <1>f DEF Initializes
<1>4. \/ h \in preempted
      \/ h \notin ended /\ "released.json" \notin UNION onDisk[h]
  BY <1>a, <1>h, <1>i, <1>f, <1>g, EntryParts DEF Initializes, Succession
<1>5. Entry(h)'
  BY <1>0, <1>2, <1>3, <1>4, EntryDropLock
<1>6. Process(p)'
  BY <1>r, AtRest
<1>7. ASSUME NEW q \in Processes \ {p}, arg[q] = h
      PROVE  Process(q)'
  <2>1. acked' = acked
    BY <1>g DEF history
  <2> QED
    BY <1>h, <1>a, <1>g, <1>1, <1>3, <1>7, <2>1, BesideLocking, BesideUnlocked
<1> QED
  BY <1>t, <1>h, <1>g, <1>1, <1>5, <1>6, <1>7, EffectStep

-----------------------------------------------------------------------------
(* Entries come and go *)

\* Prepare opens the store.
LEMMA StepOpenStore ==
  ASSUME IInv, NEW p \in Processes, OpenStore(p)
  PROVE  IInv'
<1> USE Known
<1>t. TypeOK'
  BY TypesBegin DEF Begin
<1>0. pc[p] = "idle" /\ arg[p] = None
  BY DEF OpenStore, Placed
<1>g. /\ pc'[p] = "allocating" /\ op'[p] = "prepare" /\ arg' = arg /\ dirsOnDisk' = {dirs}
      /\ \A q \in Processes \ {p} : /\ pc'[q] = pc[q] /\ op'[q] = op[q]
                                    /\ pub'[q] = pub[q] /\ then'[q] = then[q]
      /\ UNCHANGED <<dirs, names, onDisk, tree, unflushed, family, lock, history>>
  BY DEF OpenStore, TypeOK
<1>1. Elsewhere(p, None)
  BY <1>0, <1>g DEF Elsewhere, Same, Rooted, Store, history
<1>2. Store'
  BY <1>g DEF Store
<1>3. Process(p)'
  <2>1. ~Fresh(p)' /\ ~Owning(p)' /\ ~Builds(p)' /\ ~Engaged(p)' /\ ~Strips(p)'
          /\ ~Starts(p)' /\ ~Works(p)' /\ pc'[p] # "locking"
          /\ ~Strips(p) /\ ~Starts(p) /\ ~Locks(p)
    BY <1>g, <1>0 DEF Fresh, Owning, Builds, Engaged, Works, Reclaims, Strips, Starts, Publishing,
       Locks
  <2>2. Placed(p)'
    BY <1>0, <1>g, <2>1 DEF Placed, Locks, Publishing, history
  <2> QED
    BY <2>1, <2>2 DEF Process, Binding, Initializes, Completes, Reclaiming, Retires
<1>4. None \notin Handles
  BY NoneAssumption
<1> QED
  BY <1>t, <1>1, <1>2, <1>3, <1>4, Conclude

\* Prepare draws a handle and makes its entry.
LEMMA StepAllocate ==
  ASSUME IInv, NEW p \in Processes, NEW h \in Handles, Allocate(p, h)
  PROVE  IInv'
<1> USE Known
<1>t. TypeOK'
  BY TypesPreparation DEF Preparation
<1>0. pc[p] = "allocating" /\ arg[p] = None /\ h \notin used /\ h # None
  BY NoneAssumption DEF Allocate, Placed
<1>g. /\ pc'[p] = "staging" /\ pub'[p] = "control.json" /\ arg'[p] = h /\ op'[p] = op[p]
      /\ family = None /\ family' = p
      /\ dirs' = dirs \cup {h} /\ dirsOnDisk' = dirsOnDisk \cup {dirs \cup {h}}
      /\ used' = used \cup {h}
      /\ \A q \in Processes \ {p} : /\ pc'[q] = pc[q] /\ op'[q] = op[q] /\ arg'[q] = arg[q]
                                    /\ pub'[q] = pub[q] /\ then'[q] = then[q]
      /\ UNCHANGED <<names, onDisk, tree, unflushed, lock, acked, ended, requested, preempted, resumed>>
  BY DEF Allocate, TakeFamily, TypeOK
<1>1. Elsewhere(p, h)
  BY <1>0, <1>g, NoneAssumption DEF Elsewhere, Same, Rooted, Store
<1>2. Store'
  <2>1. IsFiniteSet(dirs) /\ Cardinality(dirs) <= MaxPackages /\ Cardinality(dirs) < MaxPackages
    BY DEF Store, Allocate
  <2>2. h \notin dirs
    BY <1>0 DEF TypeOK
  <2>3. IsFiniteSet(dirs \cup {h}) /\ Cardinality(dirs \cup {h}) = Cardinality(dirs) + 1
    BY <2>1, <2>2, FS_AddElement
  <2>4. Cardinality(dirs) \in Nat
    BY <2>1, FS_CardinalityType
  <2>5. Cardinality(dirs \cup {h}) <= MaxPackages
    BY <2>1, <2>3, <2>4, BoundsAssumption
  <2>6. \A D \in dirsOnDisk' : D \in dirsOnDisk \/ D = dirs \cup {h}
    BY <1>g
  <2>7. dirs' \in dirsOnDisk'
    BY <1>g
  <2> QED
    BY <2>3, <2>5, <2>6, <2>7 DEF Store
<1>3. onDisk[h] = {{}} /\ names[h] = {} /\ lock[h] = None /\ tree[h] = "none" /\ h \notin unflushed
  BY <1>0, EntryParts DEF Unborn, Files, TypeOK
<1>u. h \notin acked /\ h \notin ended /\ h \notin preempted /\ h \notin requested
  BY <1>0 DEF TypeOK
<1>4. Entry(h)'
  BY <1>3, <1>g, <1>u DEF Entry, Files, Completion, Exposed, Whole, Revocation, Resumable, Succession,
     Unborn
<1>5. ASSUME NEW q \in Processes \ {p}, arg[q] = h
      PROVE  Waits(q)
  BY <1>0, <1>5 DEF Placed
<1>6. Process(p)'
  <2>1. Fresh(p)' /\ Starts(p)' /\ ~Owning(p)' /\ ~Builds(p)' /\ ~Engaged(p)' /\ ~Strips(p)'
          /\ ~Works(p)' /\ pc'[p] # "locking" /\ ~Locks(p)' /\ ~Locks(p) /\ ~Strips(p)
    BY <1>g, <1>0 DEF Fresh, Owning, Builds, Engaged, Works, Reclaims, Strips, Starts, Publishing,
       Locks
  <2>2. Placed(p)'
    <3>1. op'[p] # "release"
      BY <1>0, <1>g DEF Placed
    <3> QED
      BY <1>0, <1>g, <1>u, <2>1, <3>1 DEF Placed, Publishing, Published
  <2>3. Binding(p)'
    <3>1. \A q \in Processes : q # p /\ arg'[q] = h => Waits(q)'
      BY <1>5, <1>g DEF Waits
    <3> QED
      BY <1>g, <1>3, <1>u, <3>1 DEF Binding, Ownership
  <2> QED
    BY <2>1, <2>2, <2>3 DEF Process, Initializes, Completes, Reclaiming, Retires
<1>7. ASSUME NEW q \in Processes \ {p}, arg[q] = h
      PROVE  Process(q)'
  BY <1>1, <1>5, <1>7, BesideLight
<1> QED
  BY <1>t, <1>1, <1>2, <1>4, <1>6, <1>7, Conclude

\* The store is flushed, and use.lock appears.
LEMMA StepCreateUseLock ==
  ASSUME IInv, NEW p \in Processes, CreateUseLock(p)
  PROVE  IInv'
<1> USE Known
<1>t. TypeOK'
  BY TypesPreparation DEF Preparation
<1>a. pc[p] = "creating" /\ Fresh(p) /\ Starts(p)
  BY DEF CreateUseLock, Fresh, Starts
<1>h. PICK h \in Handles : h = arg[p]
  BY <1>a, OnlyUsed
<1>0. h # None /\ h \in used
  BY <1>a, <1>h, OnlyUsed
<1>g. /\ pc'[p] = "locking" /\ arg'[p] = h /\ op'[p] = op[p] /\ dirsOnDisk' = {dirs}
      /\ names'[h] = names[h] \cup {"use.lock"} /\ onDisk'[h] = onDisk[h] \cup {names'[h]}
      /\ \A g \in Handles : g # h => names'[g] = names[g] /\ onDisk'[g] = onDisk[g]
      /\ \A q \in Processes \ {p} : /\ pc'[q] = pc[q] /\ op'[q] = op[q] /\ arg'[q] = arg[q]
                                    /\ pub'[q] = pub[q] /\ then'[q] = then[q]
      /\ UNCHANGED <<dirs, tree, unflushed, family, lock, history>>
  BY <1>h DEF CreateUseLock, Add, Goto, TypeOK
<1>b. /\ h \in dirs /\ h \notin ended /\ tree[h] = "none" /\ lock[h] = None
      /\ onDisk[h] = {{"control.json"}}
      /\ \A q \in Processes : q # p /\ arg[q] = h => Waits(q)
  BY <1>a, <1>h DEF Binding
<1>n. names[h] = {"control.json"}
  BY <1>b, EntryParts DEF Files
<1>1. Elsewhere(p, h)
  BY <1>h, <1>g DEF Elsewhere, Same, Rooted, Store, history
<1>2. Store'
  BY <1>g DEF Store
<1>3. Kept(h) /\ Adds(h, "use.lock") /\ Rooted(h)'
  BY <1>0, <1>b, <1>g DEF Kept, Adds, Rooted, history
<1>4. Entry(h)'
  BY <1>b, <1>3, EntryAddLock
<1>5. Process(p)'
  <2>1. ~Fresh(p)' /\ Starts(p)' /\ ~Owning(p)' /\ ~Builds(p)' /\ ~Engaged(p)' /\ ~Strips(p)'
          /\ ~Works(p)' /\ ~Locks(p)' /\ ~Locks(p) /\ ~Strips(p)
    BY <1>g, <1>a DEF Fresh, Owning, Builds, Engaged, Works, Reclaims, Strips, Starts, Publishing,
       Locks
  <2>2. Placed(p)'
    BY <1>h, <1>0, <1>a, <1>g, <2>1 DEF Placed, Publishing, history
  <2>3. Initializes(p)'
    <3>1. lock'[h] = None /\ names'[h] = {"control.json", "use.lock"} /\ tree'[h] = "none"
            /\ onDisk'[h] = {{"control.json"}, {"control.json", "use.lock"}} /\ arg'[p] = h
      BY <1>g, <1>b, <1>n
    <3> QED
      BY <3>1, NoneAssumption DEF Initializes
  <2> QED
    BY <2>1, <2>2, <2>3 DEF Process, Binding, Completes, Reclaiming, Retires
<1>6. ASSUME NEW q \in Processes \ {p}, arg[q] = h
      PROVE  Process(q)'
  BY <1>h, <1>a, <1>1, <1>6, CompanyFresh
<1> QED
  BY <1>t, <1>1, <1>2, <1>4, <1>5, <1>6, Conclude

\* An empty entry is removed.
LEMMA StepRemoveEntry ==
  ASSUME IInv, NEW p \in Processes, RemoveEntry(p)
  PROVE  IInv'
<1> USE Known
<1>t. TypeOK'
  BY TypesReclaim DEF Reclaim
<1>a. pc[p] = "stripping" /\ Strips(p)
  BY DEF RemoveEntry, Strips
<1>h. PICK h \in Handles : h = arg[p]
  BY <1>a, OnlyUsed
<1>0. h # None /\ h \in used
  BY <1>a, <1>h, OnlyUsed
<1>g. /\ pc'[p] = "unlinked" /\ arg'[p] = h /\ op'[p] = op[p]
      /\ dirs' = dirs \ {h} /\ dirsOnDisk' = dirsOnDisk \cup {dirs \ {h}}
      /\ names[h] = {} /\ tree[h] = "none" /\ h \in dirs
      /\ \A q \in Processes \ {p} : /\ pc'[q] = pc[q] /\ op'[q] = op[q] /\ arg'[q] = arg[q]
                                    /\ pub'[q] = pub[q] /\ then'[q] = then[q]
      /\ UNCHANGED <<names, onDisk, tree, unflushed, family, lock, history>>
  BY <1>h DEF RemoveEntry, Goto, TypeOK
<1>1. Elsewhere(p, h)
  BY <1>h, <1>g DEF Elsewhere, Same, Rooted, Store, history
<1>2. Store'
  <2>1. IsFiniteSet(dirs) /\ Cardinality(dirs) <= MaxPackages
    BY DEF Store
  <2>2. IsFiniteSet(dirs \ {h}) /\ Cardinality(dirs \ {h}) = Cardinality(dirs) - 1
    BY <1>g, <2>1, FS_RemoveElement
  <2>3. Cardinality(dirs) \in Nat
    BY <2>1, FS_CardinalityType
  <2>4. Cardinality(dirs \ {h}) <= MaxPackages
    BY <2>1, <2>2, <2>3, BoundsAssumption
  <2>5. \A D \in dirsOnDisk' : D \in dirsOnDisk \/ D = dirs \ {h}
    BY <1>g
  <2>6. dirs' \in dirsOnDisk'
    BY <1>g
  <2> QED
    BY <2>2, <2>4, <2>5, <2>6 DEF Store
<1>3. Entry(h)'
  <2>0. Files(h) /\ Completion(h) /\ Revocation(h) /\ Succession(h) /\ Unborn(h)
    BY EntryParts
  <2>h. h \in used' /\ acked' = acked /\ requested' = requested /\ preempted' = preempted
          /\ resumed' = resumed
          /\ ended' = ended /\ names' = names /\ onDisk' = onDisk /\ tree' = tree
          /\ unflushed' = unflushed
    BY <1>0, <1>g DEF history
  <2>1. Files(h)'
    BY <1>g, <2>0, <2>h DEF Files
  <2>2. Completion(h)'
    BY <1>g, <2>0, <2>h DEF Completion, Exposed, Whole, Files
  <2>3. Revocation(h)'
    BY <1>g, <2>0, <2>h DEF Revocation, Resumable
  <2>4. Succession(h)'
    BY <1>g, <2>0, <2>h DEF Succession
  <2> QED
    BY <2>1, <2>2, <2>3, <2>4, <2>h DEF Entry, Unborn
<1>4. Process(p)'
  <2>1. ~Fresh(p)' /\ ~Starts(p)' /\ ~Owning(p)' /\ ~Builds(p)' /\ ~Engaged(p)' /\ Strips(p)'
          /\ ~Works(p)' /\ ~Locks(p)' /\ ~Locks(p) /\ ~Starts(p) /\ pc'[p] # "locking"
    BY <1>g, <1>a DEF Fresh, Owning, Builds, Engaged, Works, Reclaims, Strips, Starts, Publishing,
       Locks
  <2>2. Placed(p)'
    BY <1>h, <1>0, <1>a, <1>g, <2>1 DEF Placed, Publishing, history
  <2>3. Retires(p)'
    BY <1>h, <1>a, <1>g DEF Retires, Ownership, history
  <2> QED
    BY <2>1, <2>2, <2>3 DEF Process, Binding, Initializes, Completes, Reclaiming
<1>5. ASSUME NEW q \in Processes \ {p}, arg[q] = h
      PROVE  Process(q)'
  <2>1. acked' = acked
    BY <1>g DEF history
  <2> QED
    BY <1>h, <1>a, <1>g, <1>1, <1>5, <2>1, CompanyStrips
<1> QED
  BY <1>t, <1>1, <1>2, <1>3, <1>4, <1>5, Conclude

\* The removal of an entry is flushed.
LEMMA StepSyncStore ==
  ASSUME IInv, NEW p \in Processes, SyncStore(p)
  PROVE  IInv'
<1> USE Known
<1>t. TypeOK'
  BY TypesReclaim DEF Reclaim
<1>a. pc[p] = "unlinked" /\ Rest(p) /\ Strips(p)
  BY DEF SyncStore, Strips
<1>h. PICK h \in Handles : h = arg[p]
  BY <1>a, OnlyUsed
<1>0. h # None /\ h \in used
  BY <1>a, <1>h, OnlyUsed
<1>g. /\ dirsOnDisk' = {dirs}
      /\ UNCHANGED <<dirs, names, onDisk, tree, unflushed, history>>
  BY DEF SyncStore
<1>1. Elsewhere(p, h)
  BY <1>h, <1>a, <1>g, RestAlone DEF Elsewhere, Same, Rooted, Store, history
<1>2. Store'
  BY <1>g DEF Store
<1>3. Same(h)
  BY <1>g DEF Same, Rooted, Store, history
<1>4. Entry(h)'
  BY <1>0, <1>3, <1>g, EntryStill DEF history
<1>5. Process(p)'
  BY <1>a, AtRest
<1>6. ASSUME NEW q \in Processes \ {p}, arg[q] = h
      PROVE  Process(q)'
  <2>1. acked' = acked
    BY <1>g DEF history
  <2> QED
    BY <1>h, <1>a, <1>g, <1>1, <1>6, <2>1, CompanyStrips
<1> QED
  BY <1>t, <1>1, <1>2, <1>4, <1>5, <1>6, Conclude

-----------------------------------------------------------------------------
(* Prepare builds the package *)

\* Who builds has the lock of an entry that nobody knows of.
LEMMA BuilderRole ==
  ASSUME IInv, NEW p \in Processes, Builds(p)
  PROVE  /\ Locks(p) /\ ~Works(p) /\ ~Engaged(p) /\ ~Strips(p) /\ ~Starts(p) /\ ~Fresh(p)
         /\ ~Owning(p) /\ pc[p] # "locking" /\ pc[p] # "checking"
         /\ arg[p] \in used /\ arg[p] \in Handles /\ arg[p] # None
         /\ lock[arg[p]] = p /\ arg[p] \notin acked /\ arg[p] \in dirs
         /\ {"control.json", "use.lock"} \subseteq names[arg[p]]
<1> USE Known
<1>1. /\ Locks(p) /\ ~Works(p) /\ ~Engaged(p) /\ ~Strips(p) /\ ~Starts(p) /\ ~Fresh(p)
      /\ ~Owning(p) /\ pc[p] # "locking" /\ pc[p] # "checking"
  BY DEF Builds, Fresh, Starts, Owning, Reclaims, Engaged, Works, Locks, Strips, Publishing
<1>2. arg[p] \in used /\ arg[p] \in Handles /\ arg[p] # None
  BY OnlyUsed DEF Builds, Publishing
<1> QED
  BY <1>1, <1>2, EntryParts DEF Completes, Placed, Files

\* An entry that is being built was neither completed nor, unless Prepare was preempted,
\* revoked.
LEMMA Unbuilt ==
  ASSUME IInv, NEW p \in Processes, pc[p] \in {"building", "built", "finalized"},
         NEW h \in Handles, h = arg[p]
  PROVE  /\ \A s \in onDisk[h] : "ready.json" \notin s
         /\ "ready.json" \notin names[h] /\ ~Exposed(h)
         /\ \/ h \in preempted
            \/ h \notin ended /\ "released.json" \notin UNION onDisk[h]
<1> USE Known
<1>1. Builds(p) /\ Completes(p)
  BY DEF Builds
<1>2. names[h] \in onDisk[h] /\ "use.lock" \in names[h]
  BY <1>1, BuilderRole, EntryParts DEF Files
<1>3. \A s \in onDisk[h] : "ready.json" \notin s
  BY <1>1 DEF Completes
<1>4. h \notin preempted => "released.json" \notin UNION onDisk[h]
  BY <1>1 DEF Completes
<1>5. h \notin preempted => h \notin ended
  BY <1>2, <1>4, EntryParts DEF Succession
<1> QED
  BY <1>2, <1>3, <1>4, <1>5 DEF Exposed

\* The package is built and its modes are repaired.
LEMMA StepBuild ==
  ASSUME IInv, NEW p \in Processes, Build(p) \/ retainedFinalize(p)
  PROVE  IInv'
<1> USE Known
<1>t. TypeOK'
  BY TypesPreparation DEF Preparation
<1>a. pc[p] \in {"building", "built"} /\ Builds(p)
  BY DEF Build, retainedFinalize, Builds
<1>h. PICK h \in Handles : h = arg[p]
  BY <1>a, BuilderRole
<1>g. /\ pc'[p] \in {"built", "finalized"} /\ arg'[p] = h /\ op'[p] = op[p]
      /\ \A g \in Handles : g # h => tree'[g] = tree[g] /\ ((g \in unflushed') <=> (g \in unflushed))
      /\ tree'[h] # "none"
      /\ \A q \in Processes \ {p} : /\ pc'[q] = pc[q] /\ op'[q] = op[q] /\ arg'[q] = arg[q]
                                    /\ pub'[q] = pub[q] /\ then'[q] = then[q]
      /\ UNCHANGED <<dirs, dirsOnDisk, names, onDisk, family, lock, history>>
  BY <1>h DEF Build, retainedFinalize, Goto, TypeOK
<1>1. Elsewhere(p, h)
  BY <1>h, <1>g DEF Elsewhere, Same, Rooted, history
<1>u. used' = used /\ acked' = acked /\ ended' = ended /\ requested' = requested
        /\ preempted' = preempted /\ resumed' = resumed
  BY <1>g DEF history
<1>2. Entry(h)'
  <2>1. h \in used /\ h \in dirs
    BY <1>a, <1>h, BuilderRole
  <2>2. /\ ~Exposed(h) /\ "ready.json" \notin names[h]
        /\ \/ h \in preempted
           \/ h \notin ended /\ "released.json" \notin UNION onDisk[h]
    BY <1>a, <1>h, Unbuilt
  <2> QED
    BY <1>g, <1>u, <2>1, <2>2, EntryTree DEF Rooted
<1>3. Process(p)'
  <2>1. ~Fresh(p)' /\ ~Starts(p)' /\ ~Owning(p)' /\ Builds(p)' /\ ~Engaged(p)' /\ ~Strips(p)'
          /\ ~Works(p)' /\ Locks(p)' /\ pc'[p] # "locking"
    BY <1>g DEF Fresh, Owning, Builds, Engaged, Works, Reclaims, Strips, Starts, Publishing, Locks
  <2>2. Placed(p)'
    BY <1>h, <1>a, <1>g, <1>u, <2>1, BuilderRole DEF Placed, Publishing
  <2>3. Completes(p)'
    <3>1. Completes(p)
      OBVIOUS
    <3> QED
      BY <1>h, <1>a, <1>g, <1>u, <3>1 DEF Completes, Publishing
  <2> QED
    BY <2>1, <2>2, <2>3 DEF Process, Binding, Initializes, Reclaiming, Retires
<1>4. ASSUME NEW q \in Processes \ {p}, arg[q] = h
      PROVE  Process(q)'
  BY <1>h, <1>a, <1>g, <1>u, <1>1, <1>4, BuilderRole, BesideLocks
<1> QED
  BY <1>t, <1>h, <1>g, <1>1, <1>2, <1>3, <1>4, EffectStep

\* The package and its entry are flushed before the completion is published.
LEMMA StepFlush ==
  ASSUME IInv, NEW p \in Processes, Flush(p)
  PROVE  IInv'
<1> USE Known
<1>t. TypeOK'
  BY TypesPreparation DEF Preparation
<1>a. pc[p] = "finalized" /\ Builds(p)
  BY DEF Flush, Builds
<1>h. PICK h \in Handles : h = arg[p]
  BY <1>a, BuilderRole
<1>g. /\ pc'[p] = "staging" /\ pub'[p] = "ready.json" /\ arg'[p] = h /\ op'[p] = op[p]
      /\ names' = names /\ onDisk'[h] = {names[h]}
      /\ (h \in ended') <=> (h \in ended \/ "released.json" \in UNION onDisk[h])
      /\ \A g \in Handles : g # h => /\ onDisk'[g] = onDisk[g]
                                     /\ (g \in ended') <=> (g \in ended)
                                     /\ (g \in unflushed') <=> (g \in unflushed)
      /\ tree[h] = "whole" /\ h \notin unflushed'
      /\ \A q \in Processes \ {p} : /\ pc'[q] = pc[q] /\ op'[q] = op[q] /\ arg'[q] = arg[q]
                                    /\ pub'[q] = pub[q] /\ then'[q] = then[q]
      /\ UNCHANGED <<dirs, dirsOnDisk, tree, family, lock, used, acked, requested, preempted, resumed>>
  BY <1>h DEF Flush, Flushed, Publish, TypeOK
<1>1. Elsewhere(p, h)
  BY <1>h, <1>g DEF Elsewhere, Same, Rooted
<1>2. Entry(h)'
  <2>1. h \in used
    BY <1>a, <1>h, BuilderRole
  <2> QED
    BY <1>g, <2>1, EntryFlushed DEF Rooted
<1>3. Process(p)'
  <2>1. ~Fresh(p)' /\ ~Starts(p)' /\ ~Owning(p)' /\ Builds(p)' /\ ~Engaged(p)' /\ ~Strips(p)'
          /\ ~Works(p)' /\ Locks(p)' /\ pc'[p] # "locking"
    BY <1>g DEF Fresh, Owning, Builds, Engaged, Works, Reclaims, Strips, Starts, Publishing, Locks
  <2>2. Placed(p)'
    BY <1>h, <1>a, <1>g, <2>1, BuilderRole DEF Placed, Publishing, Published
  <2>3. Completes(p)'
    <3>1. Completes(p) /\ names[h] \in onDisk[h]
      BY EntryParts DEF Files
    <3> QED
      BY <1>h, <1>a, <1>g, <3>1 DEF Completes, Whole, Publishing
  <2> QED
    BY <2>1, <2>2, <2>3 DEF Process, Binding, Initializes, Reclaiming, Retires
<1>4. ASSUME NEW q \in Processes \ {p}, arg[q] = h
      PROVE  Process(q)'
  BY <1>h, <1>a, <1>g, <1>1, <1>4, BuilderRole, BesideLocks
<1> QED
  BY <1>t, <1>h, <1>g, <1>1, <1>2, <1>3, <1>4, EffectStep

\* Prepare returns the handle.
LEMMA StepAcknowledge ==
  ASSUME IInv, NEW p \in Processes, Acknowledge(p)
  PROVE  IInv'
<1> USE Known
<1>t. TypeOK'
  BY TypesPreparation DEF Preparation
<1>a. pc[p] = "prepared" /\ Builds(p) /\ Rest(p)
  BY DEF Acknowledge, Builds
<1>h. PICK h \in Handles : h = arg[p]
  BY <1>a, BuilderRole
<1>g. /\ acked' = acked \cup {h}
      /\ UNCHANGED <<entry, used, ended, requested, preempted, resumed>>
  BY <1>h DEF Acknowledge
<1>0. h \in used /\ h \in dirs
  BY <1>a, <1>h, BuilderRole
<1>1. Elsewhere(p, h)
  BY <1>h, <1>a, <1>g, RestAlone DEF Elsewhere, Same, Rooted, entry
<1>2. Entry(h)'
  <2>0. Files(h) /\ Completion(h) /\ Revocation(h) /\ Succession(h)
    BY EntryParts
  <2>g. UNCHANGED <<dirs, dirsOnDisk, names, onDisk, tree, unflushed, ended, requested, preempted, resumed>>
          /\ h \in used'
    BY <1>0, <1>g DEF entry
  <2>1. /\ onDisk[h] = {names[h]} /\ "ready.json" \in names[h]
        /\ h \notin preempted => "released.json" \notin names[h]
    BY <1>h, <1>a DEF Completes, Publishing
  <2>2. Files(h)'
    BY <2>0, <2>g DEF Files, Rooted
  <2>3. Completion(h)'
    BY <1>0, <2>0, <2>g, <2>1 DEF Completion, Exposed, Whole
  <2>4. Revocation(h)'
    BY <2>0, <2>g DEF Revocation, Resumable
  <2>5. Succession(h)'
    BY <2>0, <2>g, <2>1 DEF Succession
  <2> QED
    BY <2>2, <2>3, <2>4, <2>5, <2>g DEF Entry, Unborn
<1>3. Process(p)'
  BY <1>a, AtRest
<1>4. ASSUME NEW q \in Processes \ {p}, arg[q] = h
      PROVE  Process(q)'
  <2>1. Waits(q) \/ pc[q] = "opening"
    BY <1>h, <1>a, <1>4, BuilderRole, BesideHolder
  <2> QED
    BY <1>1, <1>4, <2>1, BesideLight
<1> QED
  BY <1>t, <1>h, <1>g, <1>1, <1>2, <1>3, <1>4, EffectStep DEF entry

-----------------------------------------------------------------------------
(* An entry is reclaimed *)

\* Who reclaims has the lock.
LEMMA ReclaimerRole ==
  ASSUME IInv, NEW p \in Processes, Reclaims(p)
  PROVE  /\ Locks(p) /\ Works(p) /\ Engaged(p) /\ ~Builds(p) /\ ~Strips(p) /\ ~Starts(p)
         /\ ~Fresh(p) /\ ~Owning(p) /\ pc[p] # "locking" /\ pc[p] # "checking"
         /\ arg[p] \in used /\ arg[p] \in Handles /\ arg[p] # None
         /\ lock[arg[p]] = p
<1> USE Known
<1>1. /\ Locks(p) /\ Works(p) /\ Engaged(p) /\ ~Builds(p) /\ ~Strips(p) /\ ~Starts(p)
      /\ ~Fresh(p) /\ ~Owning(p) /\ pc[p] # "locking" /\ pc[p] # "checking"
  BY DEF Builds, Fresh, Starts, Owning, Reclaims, Engaged, Works, Locks, Strips, Publishing
<1>2. arg[p] \in used /\ arg[p] \in Handles /\ arg[p] # None
  BY OnlyUsed DEF Reclaims, Publishing
<1> QED
  BY <1>1, <1>2 DEF Placed

\* Stages go before the revocation is published, files of the package after it.
LEMMA StepDrops ==
  ASSUME IInv, NEW p \in Processes, RetireStage(p) \/ RemoveData(p)
  PROVE  IInv'
<1> USE Known
<1>t. TypeOK'
  BY TypesReclaim DEF Reclaim
<1>a. pc[p] \in {"retiring", "removing"} /\ Reclaims(p) /\ Reclaiming(p) /\ Engaged(p)
  BY DEF RetireStage, RemoveData, Reclaims, Engaged
<1>h. PICK h \in Handles : h = arg[p]
  BY <1>a, ReclaimerRole
<1>0. h # None /\ h \in used
  BY <1>a, <1>h, ReclaimerRole
<1>n. PICK n \in Stages \cup {"ready.json"} :
        /\ Drop(h, n) /\ n \in names[h]
        /\ n = "ready.json" => pc[p] = "removing" /\ "use.lock" \in names[h]
  <2>1. CASE RetireStage(p)
    <3>1. PICK s \in Stages \cap names[arg[p]] : Drop(arg[p], s)
      BY <2>1 DEF RetireStage
    <3> QED
      BY <1>h, <3>1 DEF Stages
  <2>2. CASE RemoveData(p)
    <3>1. PICK d \in Data(arg[p]) : Drop(arg[p], d)
      BY <2>2 DEF RemoveData
    <3>2. d \in Stages \cup {"ready.json"} /\ d \in names[h]
      BY <1>h, <3>1 DEF Data, TypeOK, Names, Published, Stages
    <3> QED
      BY <1>h, <2>2, <3>1, <3>2 DEF RemoveData, Checked
  <2> QED
    BY <2>1, <2>2
<1>d. n \notin {"control.json", "use.lock", "released.json"}
  BY DEF Stages
<1>g. /\ pc'[p] = "syncing" /\ then'[p] = pc[p] /\ arg'[p] = h /\ op'[p] = op[p]
      /\ names'[h] = names[h] \ {n} /\ onDisk'[h] = onDisk[h] \cup {names'[h]}
      /\ \A g \in Handles : g # h => names'[g] = names[g] /\ onDisk'[g] = onDisk[g]
      /\ \A q \in Processes \ {p} : /\ pc'[q] = pc[q] /\ op'[q] = op[q] /\ arg'[q] = arg[q]
                                    /\ pub'[q] = pub[q] /\ then'[q] = then[q]
      /\ UNCHANGED <<dirs, dirsOnDisk, tree, unflushed, family, lock, history>>
  BY <1>h, <1>n DEF RetireStage, RemoveData, Drop, SyncThen, TypeOK
<1>u. used' = used /\ acked' = acked /\ ended' = ended /\ requested' = requested
        /\ preempted' = preempted /\ resumed' = resumed
  BY <1>g DEF history
<1>1. Elsewhere(p, h)
  BY <1>h, <1>g, <1>u DEF Elsewhere, Same, Rooted
<1>2. Kept(h) /\ Drops(h, n)
  BY <1>0, <1>g, <1>u DEF Kept, Drops, Rooted
<1>3. Entry(h)'
  <2>1. CASE n \in Stages
    BY <1>2, <2>1, EntryDropStage
  <2>2. CASE n = "ready.json"
    <3>1. {"released.json", "use.lock"} \subseteq names[h]
      BY <1>a, <1>h, <1>n, <2>2 DEF Reclaiming
    <3> QED
      BY <1>2, <2>2, <3>1, EntryDropReady
  <2> QED
    BY <2>1, <2>2
<1>4. Process(p)'
  <2>1. ~Fresh(p)' /\ ~Starts(p)' /\ ~Owning(p)' /\ ~Builds(p)' /\ Engaged(p)' /\ Reclaims(p)'
          /\ ~Strips(p)' /\ Works(p)' /\ Locks(p)' /\ pc'[p] # "locking"
    BY <1>a, <1>g DEF Fresh, Owning, Builds, Engaged, Works, Reclaims, Strips, Starts, Publishing,
       Locks
  <2>2. Placed(p)'
    BY <1>h, <1>0, <1>a, <1>g, <1>u, <2>1, ReclaimerRole DEF Placed, Publishing
  <2>3. Reclaiming(p)'
    <3>1. names[h] \in onDisk[h]
      BY <1>h, EntryParts DEF Files
    <3>2. ~Exposed(h) => ~Exposed(h)'
      BY <1>d, <1>g, <3>1 DEF Exposed
    <3> QED
      BY <1>h, <1>a, <1>d, <1>g, <1>u, <2>1, <3>2 DEF Reclaiming
  <2> QED
    BY <2>1, <2>2, <2>3 DEF Process, Binding, Initializes, Completes, Retires
<1>5. ASSUME NEW q \in Processes \ {p}, arg[q] = h
      PROVE  Process(q)'
  <2>1. Works(p)' /\ Works(p) /\ Locks(p) /\ pc[p] # "checking"
    BY <1>a, <1>g, ReclaimerRole DEF Works, Engaged, Reclaims
  <2>2. /\ \A m \in {"control.json", "use.lock"} : m \in names'[h] <=> m \in names[h]
        /\ \A m \in {"control.stage", "ready.json"} : m \in names'[h] => m \in names[h]
        /\ \A s \in onDisk'[h] : s \in onDisk[h] \/ s = names[h] \/ s = names'[h]
        /\ tree[h] = "none" => tree'[h] = "none"
    BY <1>d, <1>g
  <2> QED
    BY <1>h, <1>g, <1>u, <1>1, <1>5, <2>1, <2>2, BesideLocks
<1> QED
  BY <1>t, <1>h, <1>g, <1>1, <1>3, <1>4, <1>5, EffectStep

\* The package is removed piece by piece.
LEMMA StepRemoveTree ==
  ASSUME IInv, NEW p \in Processes, RemoveTree(p)
  PROVE  IInv'
<1> USE Known
<1>t. TypeOK'
  BY TypesReclaim DEF Reclaim
<1>a. pc[p] = "removing" /\ Reclaims(p) /\ Reclaiming(p) /\ Engaged(p)
  BY DEF RemoveTree, Reclaims, Engaged
<1>h. PICK h \in Handles : h = arg[p]
  BY <1>a, ReclaimerRole
<1>0. h # None /\ h \in used
  BY <1>a, <1>h, ReclaimerRole
<1>g. /\ \A g \in Handles : g # h => tree'[g] = tree[g] /\ ((g \in unflushed') <=> (g \in unflushed))
      /\ h \notin unflushed' /\ tree[h] # "none" /\ h \in dirs /\ "use.lock" \in names[h]
      /\ UNCHANGED <<dirs, dirsOnDisk, names, onDisk, family, lock, pc, op, arg, pub, then, history>>
  BY <1>h DEF RemoveTree, Checked, TypeOK, process
<1>u. used' = used /\ acked' = acked /\ ended' = ended /\ requested' = requested
        /\ preempted' = preempted /\ resumed' = resumed
  BY <1>g DEF history
<1>1. Elsewhere(p, h)
  BY <1>h, <1>g, <1>u DEF Elsewhere, Same, Rooted
<1>2. Entry(h)'
  <2>1. "released.json" \in names[h]
    BY <1>a, <1>h, <1>g DEF Reclaiming
  <2>2. Exposed(h) => h \in resumed
    BY <1>a, <1>h DEF Reclaiming
  <2> QED
    BY <1>0, <1>g, <1>u, <2>1, <2>2, EntryTree DEF Rooted
<1>3. Process(p)'
  <2>1. ~Fresh(p)' /\ ~Starts(p)' /\ ~Owning(p)' /\ ~Builds(p)' /\ Engaged(p)' /\ Reclaims(p)'
          /\ ~Strips(p)' /\ Works(p)' /\ Locks(p)' /\ pc'[p] # "locking"
    BY <1>a, <1>g DEF Fresh, Owning, Builds, Engaged, Works, Reclaims, Strips, Starts, Publishing,
       Locks
  <2>2. Placed(p)'
    BY <1>h, <1>0, <1>a, <1>g, <1>u, <2>1, ReclaimerRole DEF Placed, Publishing
  <2>3. Reclaiming(p)'
    BY <1>h, <1>a, <1>g, <1>u, <2>1 DEF Reclaiming, Exposed
  <2> QED
    BY <2>1, <2>2, <2>3 DEF Process, Binding, Initializes, Completes, Retires
<1>4. ASSUME NEW q \in Processes \ {p}, arg[q] = h
      PROVE  Process(q)'
  <2>1. Works(p)' /\ Works(p) /\ Locks(p) /\ pc[p] # "checking"
    BY <1>a, <1>g, ReclaimerRole DEF Works, Engaged, Reclaims
  <2> QED
    BY <1>h, <1>g, <1>u, <1>1, <1>4, <2>1, BesideLocks
<1> QED
  BY <1>t, <1>h, <1>g, <1>1, <1>2, <1>3, <1>4, EffectStep

\* The last files go, one at a time.
LEMMA StepStrip ==
  ASSUME IInv, NEW p \in Processes, Strip(p)
  PROVE  IInv'
<1> USE Known
<1>t. TypeOK'
  BY TypesReclaim DEF Reclaim
<1>a. pc[p] = "stripping" /\ Strips(p) /\ Retires(p)
  BY DEF Strip, Strips
<1>h. PICK h \in Handles : h = arg[p]
  BY <1>a, OnlyUsed
<1>0. h # None /\ h \in used
  BY <1>a, <1>h, OnlyUsed
<1>n. PICK n \in {"control.stage", "control.json", "use.lock", "released.json"} :
        /\ n = Last(h) /\ n \in names[h] /\ Drop(h, n)
        /\ n = "use.lock" => names[h] \cap Ownership = {}
        /\ n = "released.json" => names[h] \cap Ownership = {} /\ "use.lock" \notin names[h]
  BY <1>h DEF Strip, Last, Ownership
<1>g. /\ pc'[p] = "syncing" /\ then'[p] = "stripping" /\ arg'[p] = h /\ op'[p] = op[p]
      /\ names'[h] = names[h] \ {n} /\ onDisk'[h] = onDisk[h] \cup {names'[h]}
      /\ \A g \in Handles : g # h => names'[g] = names[g] /\ onDisk'[g] = onDisk[g]
      /\ \A q \in Processes \ {p} : /\ pc'[q] = pc[q] /\ op'[q] = op[q] /\ arg'[q] = arg[q]
                                    /\ pub'[q] = pub[q] /\ then'[q] = then[q]
      /\ UNCHANGED <<dirs, dirsOnDisk, tree, unflushed, family, lock, history>>
  BY <1>h, <1>n DEF Strip, Drop, SyncThen, TypeOK
<1>u. used' = used /\ acked' = acked /\ ended' = ended /\ requested' = requested
        /\ preempted' = preempted /\ resumed' = resumed
  BY <1>g DEF history
<1>1. Elsewhere(p, h)
  BY <1>h, <1>g, <1>u DEF Elsewhere, Same, Rooted
<1>2. Kept(h) /\ Drops(h, n)
  BY <1>0, <1>g, <1>u DEF Kept, Drops, Rooted
<1>r. /\ tree[h] = "none" /\ "ready.json" \notin names[h]
      /\ "use.lock" \in names[h] =>
           lock[h] = p /\ "released.json" \in names[h]
             /\ names[h] \subseteq {"control.json", "use.lock", "released.json"}
      /\ h \notin preempted => names[h] \subseteq Ownership \cup {"use.lock", "released.json"}
  BY <1>a, <1>h DEF Retires
<1>3. Entry(h)'
  <2>1. CASE n = "control.stage"
    BY <1>2, <2>1, EntryDropStage DEF Stages
  <2>2. CASE n = "control.json"
    BY <1>2, <1>r, <2>2, EntryDropControl
  <2>3. CASE n = "use.lock"
    <3>1. names[h] \subseteq {"use.lock", "released.json"}
      BY <1>n, <1>r, <2>3 DEF Ownership
    <3> QED
      BY <1>2, <1>r, <2>3, <3>1, EntryDropLock
  <2>4. CASE n = "released.json"
    <3>1. h \in preempted \/ names[h] \subseteq {"released.json"}
      BY <1>n, <1>r, <2>4 DEF Ownership
    <3> QED
      BY <1>2, <1>n, <1>r, <2>4, <3>1, EntryDropReleased
  <2> QED
    BY <2>1, <2>2, <2>3, <2>4
<1>4. Process(p)'
  <2>1. ~Fresh(p)' /\ ~Starts(p)' /\ ~Owning(p)' /\ ~Builds(p)' /\ ~Engaged(p)' /\ Strips(p)'
          /\ ~Works(p)' /\ ~Locks(p)' /\ ~Locks(p) /\ ~Starts(p) /\ pc'[p] # "locking"
    BY <1>g, <1>a DEF Fresh, Owning, Builds, Engaged, Works, Reclaims, Strips, Starts, Publishing,
       Locks
  <2>2. Placed(p)'
    BY <1>h, <1>0, <1>a, <1>g, <1>u, <2>1 DEF Placed, Publishing
  <2>3. Retires(p)'
    BY <1>h, <1>n, <1>g, <1>u, <1>r DEF Retires, Ownership
  <2> QED
    BY <2>1, <2>2, <2>3 DEF Process, Binding, Initializes, Completes, Reclaiming
<1>5. ASSUME NEW q \in Processes \ {p}, arg[q] = h
      PROVE  Process(q)'
  BY <1>h, <1>a, <1>g, <1>u, <1>1, <1>5, CompanyStrips
<1> QED
  BY <1>t, <1>h, <1>g, <1>1, <1>3, <1>4, <1>5, EffectStep

-----------------------------------------------------------------------------
(* The host loses power *)

\* A power loss leaves an entry as it was at one moment since it was last flushed, and
\* every one of these moments is an entry that the invariant describes.
LEMMA EntryPowerLoss ==
  ASSUME IInv, PowerLoss, NEW h \in Handles
  PROVE  Entry(h)'
<1> USE EntryParts
<1>0. /\ onDisk'[h] = {names'[h]} /\ dirsOnDisk' = {dirs'} /\ unflushed' = {} /\ lock'[h] = None
      /\ (h \in ended') <=> (h \in ended \/ "released.json" \in names'[h])
      /\ h \notin dirs' => names'[h] = {} /\ tree'[h] = "none"
      /\ h \in dirs' => names'[h] \in onDisk[h] /\ (h \notin unflushed => tree'[h] = tree[h])
      /\ UNCHANGED <<used, acked, requested, preempted, resumed>> /\ PowerFails
      /\ dirs' \in dirsOnDisk
  BY DEF PowerLoss
<1>1. Files(h)'
  BY <1>0 DEF Files, Rooted
<1>2. Completion(h)'
  <2>1. "ready.json" \in names'[h] /\ "released.json" \notin names'[h] => Exposed(h)
    BY <1>0 DEF Exposed
  <2>2. Whole(h) /\ h \in dirs' => Whole(h)'
    BY <1>0 DEF Whole
  <2>3. Exposed(h)' => "ready.json" \in names'[h] /\ "released.json" \notin names'[h] /\ h \in dirs'
    BY <1>0 DEF Exposed
  <2>4. Exposed(h)' => (h \in requested \/ Whole(h)') /\ (h \in resumed \/ Whole(h)')
    BY <2>1, <2>2, <2>3 DEF Completion
  <2>5. "ready.json" \in names'[h] /\ "released.json" \notin names'[h] => Exposed(h)'
    BY <1>0 DEF Exposed
  <2>6. h \in acked \ (requested \cup preempted) => h \in dirs'
    BY <1>0 DEF Completion, Files, Rooted
  <2>7. h \in acked \ (requested \cup preempted) =>
          "ready.json" \in names'[h] /\ "released.json" \notin names'[h]
    BY <1>0, <2>6 DEF Completion
  <2> QED
    BY <1>0, <2>3, <2>4, <2>5, <2>6, <2>7 DEF Completion
<1>3. Revocation(h)'
  <2>1. ASSUME h \notin preempted, h \in ended \/ "released.json" \in names'[h]
        PROVE  \/ {"use.lock", "released.json"} \subseteq names'[h]
               \/ names'[h] \subseteq {"released.json"} /\ tree'[h] = "none"
    <3>1. CASE h \in dirs'
      <4>1. Resumable(h, names'[h])
        BY <1>0, <2>1, <3>1 DEF Revocation
      <4>2. tree[h] = "none" => tree'[h] = "none"
        BY <1>0, <3>1 DEF Files
      <4> QED
        BY <4>1, <4>2 DEF Resumable
    <3>2. CASE h \notin dirs'
      BY <1>0, <3>2 DEF Resumable
    <3> QED
      BY <3>1, <3>2
  <2> QED
    BY <1>0, <2>1 DEF Revocation, Resumable
<1>4. Succession(h)'
  BY <1>0 DEF Succession
<1>5. Unborn(h)'
  BY <1>0 DEF Unborn
<1> QED
  BY <1>1, <1>2, <1>3, <1>4, <1>5 DEF Entry

\* After a power loss no process runs and every entry is one of its moments.
LEMMA StepPowerLoss ==
  ASSUME IInv, PowerLoss
  PROVE  IInv'
<1>1. Store'
  BY Known DEF Store, PowerLoss
<1>2. ASSUME NEW p \in Processes
      PROVE  Process(p)'
  <2>0. /\ pc'[p] = "idle" /\ op'[p] = None /\ arg'[p] = None /\ family' # p
        /\ \A g \in Handles : lock'[g] # p
    BY NoneAssumption DEF PowerLoss
  <2>1. ~Fresh(p)' /\ ~Owning(p)' /\ ~Builds(p)' /\ ~Engaged(p)' /\ ~Works(p)' /\ ~Strips(p)'
          /\ ~Starts(p)'
    BY <2>0 DEF Fresh, Owning, Builds, Engaged, Works, Reclaims, Strips, Starts, Publishing
  <2> QED
    BY <2>0, <2>1 DEF Process, Placed, Binding, Initializes, Completes, Reclaiming, Retires,
       Locks, Waits, Publishing
<1> QED
  BY <1>1, <1>2, EntryPowerLoss, TypesPowerLoss DEF IInv

-----------------------------------------------------------------------------
(* The inductive invariant *)

\* An empty store satisfies the invariant.
LEMMA Starting ==
  ASSUME Init
  PROVE  IInv
<1> USE DEF Init
<1>1. TypeOK
  <2>1. dirsOnDisk \in SUBSET SUBSET used
    OBVIOUS
  <2>2. names \in [Handles -> SUBSET Names] /\ torn \in [Handles -> SUBSET Stages]
    OBVIOUS
  <2>3. onDisk \in [Handles -> SUBSET SUBSET Names]
    OBVIOUS
  <2>4. pc \in [Processes -> Locations] /\ tree \in [Handles -> Trees]
    BY DEF Locations, Trees
  <2> QED
    BY <2>1, <2>2, <2>3, <2>4 DEF TypeOK
<1>2. Store
  <2>1. IsFiniteSet({}) /\ Cardinality({}) = 0
    BY FS_EmptySet
  <2> QED
    BY <2>1, BoundsAssumption DEF Store
<1>3. ASSUME NEW h \in Handles
      PROVE  Entry(h)
  BY DEF Entry, Files, Completion, Revocation, Succession, Unborn, Exposed, Resumable
<1>4. ASSUME NEW p \in Processes
      PROVE  Process(p)
  <2>0. /\ pc[p] = "idle" /\ op[p] = None /\ arg[p] = None /\ family # p
        /\ \A g \in Handles : lock[g] # p
    BY NoneAssumption
  <2>1. ~Fresh(p) /\ ~Owning(p) /\ ~Builds(p) /\ ~Engaged(p) /\ ~Works(p) /\ ~Strips(p)
          /\ ~Starts(p)
    BY <2>0 DEF Fresh, Owning, Builds, Engaged, Works, Reclaims, Strips, Starts, Publishing
  <2> HIDE DEF Init
  <2> QED
    BY <2>0, <2>1 DEF Process, Placed, Binding, Initializes, Completes, Reclaiming, Retires,
       Locks, Waits, Publishing
<1> QED
  BY <1>1, <1>2, <1>3, <1>4 DEF IInv

\* The invariant reads the variables only.
LEMMA Stuttering ==
  ASSUME IInv, UNCHANGED vars
  PROVE  IInv'
<1> USE Known DEF vars
<1>1. TypeOK' /\ Store'
  BY DEF TypeOK, Store
<1>2. ASSUME NEW h \in Handles
      PROVE  Entry(h)'
  BY EntryStill, EntryParts DEF Same, Rooted, Unborn
<1>3. ASSUME NEW p \in Processes
      PROVE  Process(p)'
  <2>1. /\ Fresh(p)' <=> Fresh(p)
        /\ Owning(p)' <=> Owning(p)
        /\ Builds(p)' <=> Builds(p)
        /\ Reclaims(p)' <=> Reclaims(p)
        /\ Engaged(p)' <=> Engaged(p)
        /\ Strips(p)' <=> Strips(p)
        /\ Starts(p)' <=> Starts(p)
        /\ Locks(p)' <=> Locks(p)
    BY SameRoles
  <2>2. \A q \in Processes : (Waits(q)' <=> Waits(q)) /\ (Works(q)' <=> Works(q))
    BY SameRoles
  <2>3. \A h : Exposed(h)' <=> Exposed(h)
    BY DEF Exposed
  <2> QED
    BY <2>1, <2>2, <2>3 DEF Process, Placed, Binding, Initializes, Completes, Reclaiming, Retires,
       Whole, Verified, Ownership
<1> QED
  BY <1>1, <1>2, <1>3 DEF IInv

\* Every action of Next keeps the invariant.
LEMMA EveryStep ==
  ASSUME IInv, [Next]_vars
  PROVE  IInv'
<1>1. ASSUME NEW p \in Processes, Begin(p)
      PROVE  IInv'
  BY <1>1, StepOpenStore, StepOpen DEF Begin, Cleanup, Operations
<1>2. ASSUME NEW p \in Processes, Publication(p)
      PROVE  IInv'
  BY <1>2, StepCreateStage, StepWriteStage, StepLinkStage, StepRemoveStage, StepSync DEF Publication
<1>3. ASSUME NEW p \in Processes, Preparation(p)
      PROVE  IInv'
  BY <1>3, StepAllocate, StepCreateUseLock, StepLockNew, StepOwn, StepBuild, StepFlush,
     StepAcknowledge DEF Preparation
<1>4. ASSUME NEW p \in Processes, Use(p)
      PROVE  IInv'
  BY <1>4, StepLockEntry, StepDecides, StepRests DEF Use
<1>5. ASSUME NEW p \in Processes, Reclaim(p)
      PROVE  IInv'
  BY <1>5, StepDecides, StepDrops, StepRemoveTree, StepStripsFirst, StepDecline, StepStrip,
     StepRemoveEntry, StepSyncStore DEF Reclaim
<1>6. ASSUME NEW p \in Processes,
             \/ Refuse(p) \/ InventoryRaw(p) \/ Stop(p) \/ StopPublishing(p) \/ StopLocking(p)
      PROVE  IInv'
  BY <1>6, StepRests, StepDecides, StepStopPublishing, StepStopLocking
<1> QED
  BY <1>1, <1>2, <1>3, <1>4, <1>5, <1>6, StepPowerLoss, Stuttering DEF Next, Step

(***************************************************************************)
(* What the steps of any number of operations on a retained store keep,       *)
(* wherever they are interrupted.                                           *)
(***************************************************************************)
THEOREM Inductive == Spec => []IInv
<1>1. Init => IInv
  BY Starting
<1>2. IInv /\ [Next]_vars => IInv'
  BY EveryStep
<1> QED
  BY <1>1, <1>2, PTL DEF Spec

-----------------------------------------------------------------------------
(* What the store promises *)

(***************************************************************************)
(* Every variable keeps its type: entries, revocations, completions and       *)
(* requests are of handles that were drawn, and a process stays in a place of  *)
(* its program.                                                             *)
(***************************************************************************)
THEOREM TypeCorrect == Spec => []TypeOK
<1>1. IInv => TypeOK
  BY DEF IInv
<1> QED
  BY <1>1, Inductive, PTL

\* An entry with the completion and without the revocation, whose package is whole.
LEMMA WholeIsAvailable ==
  ASSUME IInv, NEW h \in Handles, "ready.json" \in names[h], "released.json" \notin names[h],
         Whole(h)
  PROVE  Available(h)
  BY EntryParts DEF Files, Available, Checked, Controlled, Whole

(***************************************************************************)
(* ready.json without released.json stands beside all of the package, after    *)
(* any failure and power loss, except that a power loss may take a revocation  *)
(* back on which a reclaim was resumed although it was never flushed.         *)
(***************************************************************************)
THEOREM ReadyMeansComplete == Spec => []ReadyIsComplete
<1>1. IInv => ReadyIsComplete
  BY EntryParts, WholeIsAvailable DEF ReadyIsComplete, Completion
<1> QED
  BY <1>1, Inductive, PTL

(***************************************************************************)
(* What Prepare returned can be lent until somebody calls Release, over any    *)
(* number of Cleanups and power losses, unless another process took its       *)
(* use.lock first.                                                          *)
(***************************************************************************)
THEOREM AcknowledgedKept == Spec => []AcknowledgedIsKept
<1>1. ASSUME IInv, NEW h \in acked \ (requested \cup preempted)
      PROVE  Available(h)
  <2>1. h \in Handles
    BY <1>1, Known DEF TypeOK
  <2>2. "ready.json" \in names[h] /\ "released.json" \notin names[h]
    BY <1>1, <2>1, EntryParts DEF Completion, Files
  <2>3. Whole(h)
    BY <1>1, <2>1, <2>2, EntryParts DEF Completion
  <2> QED
    BY <1>1, <2>1, <2>2, <2>3, WholeIsAvailable
<1>2. IInv => AcknowledgedIsKept
  BY <1>1 DEF AcknowledgedIsKept
<1> QED
  BY <1>2, Inductive, PTL

(***************************************************************************)
(* A borrower is alone at its entry, apart from those who wait for a lock, and *)
(* the package it was lent stays complete and unrevoked.                     *)
(***************************************************************************)
THEOREM BorrowedAlone == Spec => []BorrowedIsUndisturbed
<1>1. ASSUME IInv, NEW p \in Processes, pc[p] = "using"
      PROVE  /\ Available(arg[p])
             /\ \A q \in Processes \ {p} : arg[q] = arg[p] =>
                  pc[q] \in {"opening", "recovering", "marking"}
  <2>1. Engaged(p) /\ Works(p) /\ Locks(p)
    BY <1>1 DEF Engaged, Works, Locks
  <2>2. arg[p] \in Handles /\ arg[p] # None
    BY <1>1, <2>1, HasHandle
  <2>3. Verified(arg[p])
    BY <1>1, <2>1, Known DEF Reclaiming
  <2>4. Available(arg[p])
    BY <1>1, <2>2, <2>3, EntryParts DEF Files, Available, Checked, Controlled, Verified
  <2>5. ASSUME NEW q \in Processes \ {p}, arg[q] = arg[p]
        PROVE  pc[q] \in {"opening", "recovering", "marking"}
    <3>1. \/ Waits(q) \/ pc[q] = "opening" \/ pc[q] = "locking"
          \/ Strips(q) /\ "use.lock" \notin names[arg[p]]
      BY <1>1, <2>1, <2>5, BesideHolder
    <3>2. "use.lock" \in names[arg[p]] /\ "ready.json" \in names[arg[p]]
      BY <2>4 DEF Available, Checked
    <3>3. pc[q] # "locking"
      BY <1>1, <2>2, <2>5, <3>2, Known, EntryParts DEF Initializes, Files
    <3> QED
      BY <3>1, <3>2, <3>3 DEF Waits
  <2> QED
    BY <2>4, <2>5
<1>2. IInv => BorrowedIsUndisturbed
  BY <1>1 DEF BorrowedIsUndisturbed
<1> QED
  BY <1>2, Inductive, PTL

(***************************************************************************)
(* No step and no power loss leaves use.lock in an entry without a binding    *)
(* that names its owner.                                                    *)
(***************************************************************************)
THEOREM LocksAreMarked == Spec => []NoUnmarkedLock
<1>1. IInv => NoUnmarkedLock
  BY EntryParts DEF NoUnmarkedLock, Files
<1> QED
  BY <1>1, Inductive, PTL

(***************************************************************************)
(* Once a revocation is durable, whatever interrupts the removal leaves an     *)
(* entry that it can be resumed on.                                         *)
(***************************************************************************)
THEOREM RevokedFinishes == Spec => []RevokedIsFinishable
<1>1. ASSUME IInv, NEW h \in (ended \cap dirs) \ preempted
      PROVE  Finishable(h)
  <2>1. h \in Handles
    BY <1>1, Known DEF TypeOK
  <2>2. Resumable(h, names[h])
    BY <1>1, <2>1, EntryParts DEF Revocation, Files
  <2> QED
    BY <1>1, <2>2 DEF Resumable, Finishable, Terminal
<1>2. IInv => RevokedIsFinishable
  BY <1>1 DEF RevokedIsFinishable
<1> QED
  BY <1>2, Inductive, PTL

(***************************************************************************)
(* The store holds at most MaxPackages entries, whoever prepares and whatever  *)
(* set of entries a power loss brings back.                                 *)
(***************************************************************************)
THEOREM CapacityHeld == Spec => []WithinCapacity
<1>1. IInv => WithinCapacity
  BY Known DEF Store, WithinCapacity
<1> QED
  BY <1>1, Inductive, PTL

-----------------------------------------------------------------------------
(***************************************************************************)
(* The operations on a retained store implement PackageLifecycle: every step  *)
(* is a step of the lifecycle of one package, the removal of some packages, a  *)
(* restart, or nothing at all.  First, what the lifecycle sees of the store.   *)
(***************************************************************************)

\* A power loss may leave the entry.
Stored(h) == h \in UNION dirsOnDisk

\* A power loss may leave the revocation.
Revocable(h) == "released.json" \in UNION onDisk[h]

Lent(h) == {p \in Processes : pc[p] = "using" /\ arg[p] = h}

\* The phase of a package, case by case.
LEMMA Phases ==
  ASSUME NEW h \in Handles
  PROVE  /\ h \notin used => Phase(h) = "absent"
         /\ h \in used /\ ~Stored(h) => Phase(h) = "gone"
         /\ h \in used /\ Stored(h) =>
              /\ h \in ended => Phase(h) = "ended"
              /\ h \notin ended /\ Revocable(h) => Phase(h) = "revoked"
              /\ h \notin ended /\ ~Revocable(h) /\ "ready.json" \in names[h] => Phase(h) = "ready"
              /\ h \notin ended /\ ~Revocable(h) /\ "ready.json" \notin names[h] =>
                   Phase(h) = "incomplete"
  BY DEF Phase, Stored, Revocable

\* The same of the next state.
LEMMA PhasesAfter ==
  ASSUME NEW h \in Handles
  PROVE  /\ h \notin used' => Phase(h)' = "absent"
         /\ h \in used' /\ ~Stored(h)' => Phase(h)' = "gone"
         /\ h \in used' /\ Stored(h)' =>
              /\ h \in ended' => Phase(h)' = "ended"
              /\ h \notin ended' /\ Revocable(h)' => Phase(h)' = "revoked"
              /\ h \notin ended' /\ ~Revocable(h)' /\ "ready.json" \in names'[h] =>
                   Phase(h)' = "ready"
              /\ h \notin ended' /\ ~Revocable(h)' /\ "ready.json" \notin names'[h] =>
                   Phase(h)' = "incomplete"
  BY DEF Phase, Stored, Revocable

\* A phase depends on these facts only; the completion counts until there is a revocation.
LEMMA SamePhase ==
  ASSUME NEW h \in Handles,
         (h \in used') <=> (h \in used), Stored(h)' <=> Stored(h),
         (h \in ended') <=> (h \in ended), Revocable(h)' <=> Revocable(h),
         Revocable(h) \/ (("ready.json" \in names'[h]) <=> ("ready.json" \in names[h]))
  PROVE  Phase(h)' = Phase(h)
  BY Phases, PhasesAfter

\* A step that neither begins nor ends a loan.
LEMMA SameLent ==
  ASSUME NEW p \in Processes, pc[p] # "using", pc'[p] # "using",
         \A q \in Processes \ {p} : pc'[q] = pc[q] /\ arg'[q] = arg[q]
  PROVE  \A h \in Handles : Lent(h)' = Lent(h)
  BY DEF Lent

-----------------------------------------------------------------------------
(* The steps of the lifecycle, in the words of the store *)

\* A step that the lifecycle does not see.
LEMMA Stuttered ==
  ASSUME \A h \in Handles : Phase(h)' = Phase(h), \A h \in Handles : Lent(h)' = Lent(h),
         acked' = acked
  PROVE  UNCHANGED Lifecycle!vars
  BY DEF Lifecycle!vars, Lent

\* One package moves on from one phase to another, and is not lent.
Moves(h, from, to) ==
  /\ Phase(h) \in from
  /\ Phase(h)' = to
  /\ \A g \in Handles \ {h} : Phase(g)' = Phase(g)
  /\ \A g \in Handles : Lent(g)' = Lent(g)
  /\ acked' = acked

\* The four moves of one package.
LEMMA Moved ==
  ASSUME NEW h \in Handles,
         \/ Moves(h, {"absent"}, "incomplete")
         \/ Moves(h, {"incomplete"}, "ready")
         \/ Moves(h, {"incomplete", "ready"}, "revoked") /\ Lent(h) = {}
         \/ Moves(h, {"revoked"}, "ended")
  PROVE  Lifecycle!Next
<1>1. ASSUME Moves(h, {"absent"}, "incomplete")
      PROVE  Lifecycle!Allocate(h)
  BY <1>1 DEF Moves, Lifecycle!Allocate, Lifecycle!Become, Lent
<1>2. ASSUME Moves(h, {"incomplete"}, "ready")
      PROVE  Lifecycle!Complete(h)
  BY <1>2 DEF Moves, Lifecycle!Complete, Lifecycle!Become, Lent
<1>3. ASSUME Moves(h, {"incomplete", "ready"}, "revoked"), Lent(h) = {}
      PROVE  Lifecycle!Revoke(h)
  BY <1>3 DEF Moves, Lifecycle!Revoke, Lifecycle!Become, Lent
<1>4. ASSUME Moves(h, {"revoked"}, "ended")
      PROVE  Lifecycle!Settle(h)
  BY <1>4 DEF Moves, Lifecycle!Settle, Lifecycle!Become, Lent
<1> QED
  BY <1>1, <1>2, <1>3, <1>4 DEF Lifecycle!Next

-----------------------------------------------------------------------------
(* Borrowers *)

\* What is lent is complete, and so is in the store.
LEMMA LentIsReady ==
  ASSUME IInv, NEW h \in Handles, NEW q \in Lent(h)
  PROVE  h \in dirs /\ "ready.json" \in names[h]
<1>1. q \in Processes /\ pc[q] = "using" /\ arg[q] = h
  BY DEF Lent
<1>2. Verified(h)
  BY <1>1, Known DEF Reclaiming, Engaged
<1> QED
  BY <1>2, EntryParts DEF Files, Verified

\* Nothing is lent while somebody else has the lock.
LEMMA NotLent ==
  ASSUME IInv, NEW p \in Processes, Locks(p), pc[p] # "using"
  PROVE  Lent(arg[p]) = {}
<1>1. ASSUME NEW q \in Lent(arg[p])
      PROVE  FALSE
  <2>1. q \in Processes /\ q # p /\ Locks(q) /\ arg[q] = arg[p]
    BY <1>1 DEF Lent, Locks, Works, Engaged
  <2> QED
    BY <2>1, Known DEF Placed
<1> QED
  BY <1>1

-----------------------------------------------------------------------------
(* Steps that the lifecycle does not see *)

\* A step of a process that neither begins nor ends a loan.
Discreet(p) ==
  /\ pc[p] # "using" /\ pc'[p] # "using"
  /\ \A q \in Processes \ {p} : pc'[q] = pc[q] /\ arg'[q] = arg[q]

\* No file comes or goes.
LEMMA Unseen ==
  ASSUME NEW p \in Processes, Discreet(p),
         UNCHANGED <<dirsOnDisk, names, onDisk, used, ended, acked>>
  PROVE  UNCHANGED Lifecycle!vars
<1>1. \A h \in Handles : Phase(h)' = Phase(h)
  BY DEF Phase
<1>2. \A h \in Handles : Lent(h)' = Lent(h)
  BY SameLent DEF Discreet
<1> QED
  BY <1>1, <1>2, Stuttered

\* A name comes or goes, but for the revocation and for the completion of a package that
\* is not revoked.
Plain(h) ==
  /\ \A g \in Handles \ {h} : names'[g] = names[g] /\ onDisk'[g] = onDisk[g]
  /\ onDisk'[h] = onDisk[h] \cup {names'[h]}
  /\ "released.json" \in names'[h] => "released.json" \in names[h]
  /\ \/ "released.json" \in names[h]
     \/ ("ready.json" \in names'[h]) <=> ("ready.json" \in names[h])

\* A plain change leaves every phase alone.
LEMMA PlainPhase ==
  ASSUME IInv, NEW h \in Handles, Plain(h), UNCHANGED <<used, ended>>, NEW g \in Handles,
         Stored(g)' <=> Stored(g)
  PROVE  Phase(g)' = Phase(g)
<1>1. names[h] \in onDisk[h]
  BY EntryParts DEF Files
<1>2. Revocable(g)' <=> Revocable(g)
  BY <1>1 DEF Plain, Revocable
<1>3. Revocable(g) \/ (("ready.json" \in names'[g]) <=> ("ready.json" \in names[g]))
  BY <1>1 DEF Plain, Revocable
<1> QED
  BY <1>2, <1>3, SamePhase

\* The lifecycle does not see a plain change.
LEMMA PlainStep ==
  ASSUME IInv, NEW p \in Processes, Discreet(p), NEW h \in Handles, Plain(h),
         UNCHANGED <<dirsOnDisk, used, ended, acked>>
  PROVE  UNCHANGED Lifecycle!vars
<1>1. \A g \in Handles : Phase(g)' = Phase(g)
  BY PlainPhase DEF Stored
<1>2. \A g \in Handles : Lent(g)' = Lent(g)
  BY SameLent DEF Discreet
<1> QED
  BY <1>1, <1>2, Stuttered

\* What a process does between the steps that somebody else can tell.
LEMMA UnseenSteps ==
  ASSUME IInv, NEW p \in Processes,
         \/ WriteStage(p) \/ LockNew(p) \/ Own(p) \/ Build(p) \/ retainedFinalize(p)
         \/ LockEntry(p) \/ CheckEntry(p) \/ Decide(p) \/ Revoke(p) \/ Inventory(p)
         \/ InventoryRaw(p) \/ RemoveTree(p) \/ Finish(p) \/ Recover(p) \/ Decline(p) \/ Mark(p)
         \/ Refuse(p) \/ Stop(p)
         \/ \E h \in Handles : (\E o \in Operations : Open(p, o, h)) \/ OpenMissing(p, h)
  PROVE  UNCHANGED Lifecycle!vars
<1> USE DEF Discreet, history, entry
<1>t. pc \in [Processes -> Locations] /\ arg \in [Processes -> Handles \cup {None}]
  BY Known DEF TypeOK
<1>1. CASE WriteStage(p) \/ LockNew(p) \/ Own(p) \/ Build(p) \/ retainedFinalize(p)
  <2>1. Discreet(p)
    BY <1>t, <1>1 DEF WriteStage, LockNew, Own, Build, retainedFinalize, Goto, SyncThen
  <2> QED
    BY <1>1, <2>1, Unseen DEF WriteStage, LockNew, Own, Build, retainedFinalize
<1>2. CASE LockEntry(p) \/ CheckEntry(p) \/ Decide(p) \/ Revoke(p) \/ Inventory(p) \/ InventoryRaw(p)
  <2>1. Discreet(p)
    BY <1>t, <1>2 DEF LockEntry, CheckEntry, Decide, Revoke, Inventory, InventoryRaw, Goto, Publish
  <2> QED
    BY <1>2, <2>1, Unseen DEF LockEntry, CheckEntry, Decide, Revoke, Inventory, InventoryRaw
<1>3. CASE RemoveTree(p) \/ Finish(p) \/ Recover(p) \/ Decline(p) \/ Mark(p)
  <2>1. Discreet(p)
    BY <1>t, <1>3 DEF RemoveTree, Finish, Recover, Decline, Mark, Goto, process
  <2> QED
    BY <1>3, <2>1, Unseen DEF RemoveTree, Finish, Recover, Decline, Mark
<1>4. CASE Refuse(p) \/ Stop(p)
  <2>1. Discreet(p)
    BY <1>t, <1>4 DEF Refuse, Refused, Stop, Rest
  <2> QED
    BY <1>4, <2>1, Unseen DEF Refuse, Stop
<1>5. ASSUME NEW h \in Handles, (\E o \in Operations : Open(p, o, h)) \/ OpenMissing(p, h)
      PROVE  UNCHANGED Lifecycle!vars
  <2>1. Discreet(p)
    BY <1>t, <1>5 DEF Open, OpenMissing, Start
  <2> QED
    BY <1>5, <2>1, Unseen DEF Open, OpenMissing
<1> QED
  BY <1>1, <1>2, <1>3, <1>4, <1>5

\* The lifecycle does not see stages, bindings, locks and data of revoked packages.
LEMMA PlainSteps ==
  ASSUME IInv, NEW p \in Processes,
         \/ CreateStage(p) \/ RemoveStage(p) \/ RetireStage(p) \/ RemoveData(p) \/ Strip(p)
         \/ StopPublishing(p) \/ StopLocking(p)
  PROVE  UNCHANGED Lifecycle!vars
<1> USE DEF history
<1>t. /\ pc \in [Processes -> Locations] /\ arg \in [Processes -> Handles \cup {None}]
      /\ names \in [Handles -> SUBSET Names] /\ onDisk \in [Handles -> SUBSET SUBSET Names]
  BY Known DEF TypeOK
<1>p. PICK h \in Handles : h = arg[p]
  BY OnlyUsed DEF CreateStage, RemoveStage, RetireStage, RemoveData, Strip, StopPublishing,
     StopLocking
<1>s. \A n \in Stages : n # "ready.json" /\ n # "released.json"
  BY DEF Stages
<1>d. ASSUME NEW n, Drop(h, n), n # "ready.json" \/ "released.json" \in names[h]
      PROVE  Plain(h)
  BY <1>t, <1>d DEF Drop, Plain
<1>1. CASE CreateStage(p)
  <2>1. retainedStage(pub[p]) \in Stages
    BY <1>1, Writer DEF CreateStage, Publishing
  <2>2. Plain(h)
    BY <1>t, <1>p, <1>1, <1>s, <2>1 DEF CreateStage, Add, Plain
  <2>3. Discreet(p)
    BY <1>t, <1>1 DEF CreateStage, Goto, Discreet
  <2> QED
    BY <1>1, <2>2, <2>3, PlainStep DEF CreateStage
<1>2. CASE RemoveStage(p) \/ StopPublishing(p)
  <2>1. retainedStage(pub[p]) \in Stages
    BY <1>2, Writer DEF RemoveStage, StopPublishing, Publishing
  <2>2. Plain(h)
    BY <1>p, <1>2, <1>s, <1>d, <2>1 DEF RemoveStage, StopPublishing
  <2>3. Discreet(p)
    BY <1>t, <1>2 DEF RemoveStage, StopPublishing, SyncThen, Rest, Discreet
  <2> QED
    BY <1>2, <2>2, <2>3, PlainStep DEF RemoveStage, StopPublishing
<1>3. CASE RetireStage(p)
  <2>2. Plain(h)
    BY <1>p, <1>3, <1>s, <1>d DEF RetireStage
  <2>3. Discreet(p)
    BY <1>t, <1>3 DEF RetireStage, SyncThen, Discreet
  <2> QED
    BY <1>3, <2>2, <2>3, PlainStep DEF RetireStage
<1>4. CASE RemoveData(p)
  <2>1. "released.json" \in names[h]
    BY <1>p, <1>4, Known DEF RemoveData, Checked, Reclaiming, Engaged, Reclaims
  <2>2. Plain(h)
    BY <1>p, <1>4, <1>d, <2>1 DEF RemoveData
  <2>3. Discreet(p)
    BY <1>t, <1>4 DEF RemoveData, SyncThen, Discreet
  <2> QED
    BY <1>4, <2>2, <2>3, PlainStep DEF RemoveData
<1>5. CASE Strip(p)
  <2>1. Last(h) # "ready.json"
    BY DEF Last
  <2>2. Plain(h)
    BY <1>p, <1>5, <1>d, <2>1 DEF Strip
  <2>3. Discreet(p)
    BY <1>t, <1>5 DEF Strip, SyncThen, Discreet
  <2> QED
    BY <1>5, <2>2, <2>3, PlainStep DEF Strip
<1>6. CASE StopLocking(p)
  <2>2. Plain(h)
    BY <1>p, <1>6, <1>d DEF StopLocking
  <2>3. Discreet(p)
    BY <1>t, <1>6 DEF StopLocking, Rest, Discreet
  <2> QED
    BY <1>6, <2>2, <2>3, PlainStep DEF StopLocking
<1> QED
  BY <1>1, <1>2, <1>3, <1>4, <1>5, <1>6

\* An entry that goes stays on disk until the store is flushed.
LEMMA RemovedUnseen ==
  ASSUME IInv, NEW p \in Processes, RemoveEntry(p)
  PROVE  UNCHANGED Lifecycle!vars
<1>1. UNION dirsOnDisk' = UNION dirsOnDisk
  BY Known DEF Store, RemoveEntry
<1>2. Discreet(p)
  BY Known DEF TypeOK, RemoveEntry, Goto, Discreet
<1>3. \A h \in Handles : Phase(h)' = Phase(h)
  BY <1>1 DEF Phase, RemoveEntry, history
<1>4. \A h \in Handles : Lent(h)' = Lent(h)
  BY <1>2, SameLent DEF Discreet
<1> QED
  BY <1>3, <1>4, Stuttered DEF RemoveEntry, history

-----------------------------------------------------------------------------
(* Steps of the lifecycle *)

\* A handle is drawn: the package is incomplete.
LEMMA AllocateMoves ==
  ASSUME IInv, NEW p \in Processes, NEW h \in Handles, Allocate(p, h)
  PROVE  Lifecycle!Next
<1>t. TypeOK
  BY Known
<1>1. \A g \in Handles : Stored(g)' <=> (Stored(g) \/ g = h)
  BY Known DEF Store, Allocate, Stored
<1>2. Phase(h) = "absent"
  BY Phases DEF Allocate
<1>3. Phase(h)' = "incomplete"
  <2>1. onDisk[h] = {{}} /\ names[h] = {} /\ h \notin ended
    BY <1>t, EntryParts DEF Allocate, Unborn, Files, TypeOK
  <2>2. ~Revocable(h)'
    BY <2>1 DEF Allocate, Revocable
  <2> QED
    BY <1>1, <2>1, <2>2, PhasesAfter DEF Allocate
<1>4. ASSUME NEW g \in Handles \ {h}
      PROVE  Phase(g)' = Phase(g)
  BY <1>1, SamePhase DEF Allocate, Revocable
<1>5. \A g \in Handles : Lent(g)' = Lent(g)
  BY <1>t, SameLent DEF TypeOK, Allocate
<1> QED
  BY <1>2, <1>3, <1>4, <1>5, Moved DEF Moves, Allocate

\* The completion, or the revocation, gets its name.  A binding is nothing to the lifecycle,
\* and neither is what is published in an entry that was revoked before.
LEMMA LinkMoves ==
  ASSUME IInv, NEW p \in Processes, LinkStage(p)
  PROVE  Lifecycle!Next \/ UNCHANGED Lifecycle!vars
<1>t. TypeOK
  BY Known
<1>p. PICK h \in Handles : h = arg[p]
  BY OnlyUsed DEF LinkStage, Publishing
<1>r. /\ pc[p] \in Publishing /\ h \in used /\ h \in dirs
      /\ pub[p] \in Published
      /\ pub[p] = "ready.json" => Builds(p)
      /\ pub[p] = "released.json" => Reclaims(p)
  BY <1>p, PublisherRole DEF LinkStage, Publishing
<1>s. Stored(h)
  BY <1>r, Known DEF Store, Stored
<1>0. /\ UNCHANGED <<dirsOnDisk, used, ended, acked>>
      /\ names' = [names EXCEPT ![h] = @ \cup {pub[p]}]
      /\ onDisk' = [onDisk EXCEPT ![h] = @ \cup {names[h] \cup {pub[p]}}]
  BY <1>p DEF LinkStage, Add, history
<1>n. /\ names'[h] = names[h] \cup {pub[p]} /\ onDisk'[h] = onDisk[h] \cup {names'[h]}
      /\ \A g \in Handles \ {h} : names'[g] = names[g] /\ onDisk'[g] = onDisk[g]
  BY <1>0, <1>t DEF TypeOK
<1>d. Discreet(p)
  BY <1>t DEF TypeOK, LinkStage, Goto, Discreet
<1>1. CASE pub[p] = "control.json"
  <2>1. Plain(h)
    BY <1>1, <1>n DEF Plain
  <2> QED
    BY <1>0, <1>d, <2>1, PlainStep
<1>2. CASE pub[p] # "control.json" /\ (h \in ended \/ Revocable(h))
  <2>1. \A g \in Handles : Stored(g)' <=> Stored(g)
    BY <1>0 DEF Stored
  <2>2. Phase(h)' = Phase(h)
    <3>1. Revocable(h) => Revocable(h)'
      BY <1>n DEF Revocable
    <3> QED
      BY <1>0, <1>2, <1>r, <1>s, <2>1, <3>1, Phases, PhasesAfter
  <2>3. ASSUME NEW g \in Handles \ {h}
        PROVE  Phase(g)' = Phase(g)
    BY <1>0, <1>n, <2>1, SamePhase DEF Revocable
  <2>4. \A g \in Handles : Lent(g)' = Lent(g)
    BY <1>d, SameLent DEF Discreet
  <2> QED
    BY <1>0, <2>2, <2>3, <2>4, Stuttered
<1>3. CASE pub[p] # "control.json" /\ h \notin ended /\ ~Revocable(h)
  <2>1. \A g \in Handles : Stored(g)' <=> Stored(g)
    BY <1>0 DEF Stored
  <2>2. ASSUME NEW g \in Handles \ {h}
        PROVE  Phase(g)' = Phase(g)
    BY <1>0, <1>n, <2>1, SamePhase DEF Revocable
  <2>3. \A g \in Handles : Lent(g)' = Lent(g)
    BY <1>d, SameLent DEF Discreet
  <2>4. CASE pub[p] = "ready.json"
    <3>1. "ready.json" \notin names[h]
      BY <1>p, <2>4 DEF LinkStage
    <3>2. Phase(h) = "incomplete"
      BY <1>3, <1>r, <1>s, <3>1, Phases
    <3>3. ~Revocable(h)'
      BY <1>3, <1>n, <2>4, EntryParts DEF Revocable, Files
    <3>4. Phase(h)' = "ready"
      BY <1>0, <1>3, <1>n, <1>r, <1>s, <2>1, <2>4, <3>3, PhasesAfter
    <3> QED
      BY <1>0, <2>2, <2>3, <3>2, <3>4, Moved DEF Moves
  <2>5. CASE pub[p] = "released.json"
    <3>1. Phase(h) \in {"incomplete", "ready"}
      BY <1>3, <1>r, <1>s, Phases
    <3>2. Revocable(h)'
      BY <1>n, <2>5 DEF Revocable
    <3>3. Phase(h)' = "revoked"
      BY <1>0, <1>3, <1>r, <1>s, <2>1, <3>2, PhasesAfter
    <3>4. Lent(h) = {}
      <4>1. Locks(p)
        BY <1>r, <2>5, ReclaimerRole
      <4> QED
        BY <1>d, <1>p, <4>1, NotLent DEF Discreet
    <3> QED
      BY <1>0, <2>2, <2>3, <3>1, <3>3, <3>4, Moved DEF Moves
  <2> QED
    BY <1>3, <1>r, <2>4, <2>5 DEF Published
<1> QED
  BY <1>1, <1>2, <1>3

\* The flush of an entry makes the revocation durable that is there.
LEMMA FlushMoves ==
  ASSUME IInv, NEW p \in Processes, Sync(p) \/ Flush(p)
  PROVE  Lifecycle!Next \/ UNCHANGED Lifecycle!vars
<1>t. TypeOK
  BY Known
<1>p. PICK h \in Handles : h = arg[p] /\ h \in used
  BY OnlyUsed DEF Sync, Flush
<1>0. /\ UNCHANGED <<dirsOnDisk, names, used, acked>>
      /\ onDisk' = [onDisk EXCEPT ![h] = {names[h]}]
      /\ ended' = IF Revocable(h) THEN ended \cup {h} ELSE ended
  BY <1>p DEF Sync, Flush, Flushed, Revocable
<1>n. onDisk'[h] = {names[h]} /\ \A g \in Handles \ {h} : onDisk'[g] = onDisk[g]
  BY <1>0, <1>t DEF TypeOK
<1>d. Discreet(p)
  <2>1. CASE Sync(p)
    BY <1>t, <2>1, Known DEF TypeOK, Sync, Discreet, Placed
  <2>2. CASE Flush(p)
    BY <1>t, <2>2 DEF TypeOK, Flush, Publish, Discreet
  <2> QED
    BY <2>1, <2>2
<1>1. \A g \in Handles : Stored(g)' <=> Stored(g)
  BY <1>0 DEF Stored
<1>2. ASSUME NEW g \in Handles \ {h}
      PROVE  Phase(g)' = Phase(g)
  BY <1>0, <1>n, <1>1, SamePhase DEF Revocable
<1>3. \A g \in Handles : Lent(g)' = Lent(g)
  BY <1>d, SameLent DEF Discreet
<1>4. CASE Stored(h) /\ h \notin ended /\ Revocable(h)
  <2>1. Phase(h) = "revoked"
    BY <1>4, <1>p, Phases
  <2>2. Phase(h)' = "ended"
    BY <1>0, <1>1, <1>4, <1>p, PhasesAfter
  <2> QED
    BY <1>0, <1>2, <1>3, <2>1, <2>2, Moved DEF Moves
<1>5. CASE ~Stored(h) \/ h \in ended \/ ~Revocable(h)
  <2>1. ~Revocable(h) => ~Revocable(h)'
    BY <1>n, EntryParts DEF Revocable, Files
  <2>2. Phase(h)' = Phase(h)
    BY <1>0, <1>1, <1>5, <1>p, <2>1, Phases, PhasesAfter
  <2> QED
    BY <1>0, <1>2, <1>3, <2>2, Stuttered
<1> QED
  BY <1>4, <1>5

\* Prepare returns a package that is complete, or that was revoked meanwhile.
LEMMA AcknowledgeMoves ==
  ASSUME IInv, NEW p \in Processes, Acknowledge(p)
  PROVE  Lifecycle!Next
<1>t. TypeOK
  BY Known
<1>p. PICK h \in Handles : h = arg[p] /\ h \in used
  BY OnlyUsed DEF Acknowledge
<1>1. h \in dirs /\ "ready.json" \in names[h]
  <2>1. Builds(p)
    BY DEF Acknowledge, Builds
  <2> QED
    BY <1>p, <2>1, BuilderRole, Known DEF Acknowledge, Completes
<1>2. Phase(h) \in {"ready", "revoked", "ended"}
  <2>1. Stored(h)
    BY <1>1, Known DEF Store, Stored
  <2> QED
    BY <1>1, <1>p, <2>1, Phases
<1>3. \A g \in Handles : Phase(g)' = Phase(g)
  BY DEF Phase, Acknowledge, entry
<1>4. \A g \in Handles : Lent(g)' = Lent(g)
  BY <1>t, SameLent DEF TypeOK, Acknowledge, Rest
<1>5. Lifecycle!Acknowledge(h)
  BY <1>2, <1>3, <1>4, <1>p DEF Acknowledge, Lifecycle!Acknowledge, Lent
<1> QED
  BY <1>5 DEF Lifecycle!Next

\* A flush of the store makes every removal final: of packages that were revoked or never
\* ready, and are not lent.
LEMMA StoreFlushed ==
  ASSUME IInv, NEW p \in Processes, Discreet(p), dirsOnDisk' = {dirs},
         UNCHANGED <<used, ended, acked>>,
         \A h \in Handles : (Stored(h)' <=> Stored(h)) => Phase(h)' = Phase(h)
  PROVE  Lifecycle!Next
<1> DEFINE removed == {h \in Handles : Stored(h) /\ h \notin dirs}
<1>t. TypeOK
  BY Known
<1>1. \A h \in Handles : Stored(h)' <=> (h \in dirs)
  BY DEF Stored
<1>2. \A h \in Handles : h \in dirs => Stored(h)
  BY Known DEF Store, Stored
<1>3. \A h \in Handles : Lent(h)' = Lent(h)
  BY SameLent DEF Discreet
<1>4. ASSUME NEW h \in removed
      PROVE  Phase(h) \in {"incomplete", "revoked", "ended"} /\ Lent(h) = {} /\ Phase(h)' = "gone"
  <2>1. h \in Handles /\ h \in used /\ "ready.json" \notin names[h]
    BY <1>t, <1>4, EntryParts DEF TypeOK, Stored, Files
  <2>2. Phase(h) \in {"incomplete", "revoked", "ended"}
    BY <1>4, <2>1, Phases
  <2>3. Lent(h) = {}
    BY <1>4, LentIsReady
  <2>4. Phase(h)' = "gone"
    BY <1>1, <1>4, <2>1, PhasesAfter
  <2> QED
    BY <2>2, <2>3, <2>4
<1>5. ASSUME NEW h \in Handles \ removed
      PROVE  Phase(h)' = Phase(h)
  BY <1>1, <1>2
<1> HIDE DEF removed
<1>6. \A h \in Handles : Phase(h)' = IF h \in removed THEN "gone" ELSE Phase(h)
  BY <1>4, <1>5
<1>7. removed \in SUBSET Handles
  BY DEF removed
<1>8. Lifecycle!Remove(removed)
  <2>1. [h \in Handles |-> Phase(h)]' = [h \in Handles |-> IF h \in removed THEN "gone" ELSE Phase(h)]
    BY <1>6
  <2>2. [h \in Handles |-> Lent(h)]' = [h \in Handles |-> Lent(h)]
    BY <1>3
  <2> QED
    BY <1>4, <1>7, <2>1, <2>2 DEF Lifecycle!Remove, Lent
<1> QED
  BY <1>7, <1>8 DEF Lifecycle!Next

\* The three places where the store is flushed.
LEMMA StoreMoves ==
  ASSUME IInv, NEW p \in Processes, OpenStore(p) \/ SyncStore(p) \/ CreateUseLock(p)
  PROVE  Lifecycle!Next
<1> USE DEF history
<1>t. TypeOK
  BY Known
<1>1. CASE OpenStore(p) \/ SyncStore(p)
  <2>1. Discreet(p)
    BY <1>t, <1>1 DEF TypeOK, OpenStore, SyncStore, Rest, Discreet
  <2>2. \A h \in Handles : (Stored(h)' <=> Stored(h)) => Phase(h)' = Phase(h)
    BY <1>1, SamePhase DEF OpenStore, SyncStore, Revocable, Stored
  <2> QED
    BY <1>1, <2>1, <2>2, StoreFlushed DEF OpenStore, SyncStore
<1>2. CASE CreateUseLock(p)
  <2>1. PICK h \in Handles : h = arg[p]
    BY <1>2, OnlyUsed DEF CreateUseLock
  <2>2. Plain(h)
    BY <1>t, <1>2, <2>1 DEF TypeOK, CreateUseLock, Add, Plain
  <2>3. Discreet(p)
    BY <1>t, <1>2 DEF TypeOK, CreateUseLock, Goto, Discreet
  <2>4. \A g \in Handles : (Stored(g)' <=> Stored(g)) => Phase(g)' = Phase(g)
    BY <1>2, <2>2, PlainPhase DEF CreateUseLock
  <2> QED
    BY <1>2, <2>3, <2>4, StoreFlushed DEF CreateUseLock
<1> QED
  BY <1>1, <1>2

\* A package is lent that is ready and not lent yet.
LEMMA VerifyMoves ==
  ASSUME IInv, NEW p \in Processes, Verify(p)
  PROVE  Lifecycle!Next
<1>t. TypeOK
  BY Known
<1>p. PICK h \in Handles : h = arg[p] /\ h \in used
  BY OnlyUsed DEF Verify
<1>1. Locks(p)
  BY DEF Verify, Locks, Works, Engaged
<1>2. Lent(h) = {}
  BY <1>1, <1>p, NotLent DEF Verify
<1>3. "ready.json" \in names[h] /\ "released.json" \notin names[h]
  BY <1>p DEF Verify, Verified
<1>4. "use.lock" \in names[h] /\ h \in dirs /\ names[h] \in onDisk[h]
  BY <1>3, EntryParts DEF Files
<1>5. Phase(h) = "ready"
  <2>1. h \notin ended /\ ~Revocable(h)
    BY <1>3, <1>4, EntryParts DEF Succession, Revocable
  <2>2. Stored(h)
    BY <1>4, Known DEF Store, Stored
  <2> QED
    BY <1>3, <1>p, <2>1, <2>2, Phases
<1>6. \A g \in Handles : Phase(g)' = Phase(g)
  BY DEF Phase, Verify, entry, history
<1>7. pc'[p] = "using" /\ arg'[p] = h
        /\ \A q \in Processes \ {p} : pc'[q] = pc[q] /\ arg'[q] = arg[q]
  BY <1>t, <1>p DEF TypeOK, Verify, Goto
<1>8. \A g \in Handles : Lent(g)' = IF g = h THEN {p} ELSE Lent(g)
  <2>1. Lent(h)' = {p}
    BY <1>2, <1>7 DEF Lent
  <2>2. ASSUME NEW g \in Handles \ {h}
        PROVE  Lent(g)' = Lent(g)
    BY <1>7, <1>p DEF Lent
  <2> QED
    BY <2>1, <2>2
<1>9. Lifecycle!Borrow(p, h)
  <2>1. [g \in Handles |-> Lent(g)]' = [[g \in Handles |-> Lent(g)] EXCEPT ![h] = {p}]
    BY <1>8
  <2>2. [g \in Handles |-> Phase(g)]' = [g \in Handles |-> Phase(g)]
    BY <1>6
  <2> QED
    BY <1>2, <1>5, <2>1, <2>2 DEF Lifecycle!Borrow, Lent, Verify, history
<1> QED
  BY <1>9 DEF Lifecycle!Next

\* A borrower gives the package back.
LEMMA CloseMoves ==
  ASSUME IInv, NEW p \in Processes, Close(p)
  PROVE  Lifecycle!Next
<1>t. TypeOK
  BY Known
<1>p. PICK h \in Handles : h = arg[p]
  BY OnlyUsed DEF Close
<1>1. \A g \in Handles : Phase(g)' = Phase(g)
  BY DEF Phase, Close, entry, history
<1>2. pc'[p] # "using" /\ \A q \in Processes \ {p} : pc'[q] = pc[q] /\ arg'[q] = arg[q]
  BY <1>t DEF TypeOK, Close, Rest
<1>3. \A g \in Handles : Lent(g)' = IF g = h THEN Lent(h) \ {p} ELSE Lent(g)
  <2>1. Lent(h)' = Lent(h) \ {p}
    BY <1>2 DEF Lent
  <2>2. ASSUME NEW g \in Handles \ {h}
        PROVE  Lent(g)' = Lent(g)
    BY <1>2, <1>p DEF Lent
  <2> QED
    BY <2>1, <2>2
<1>4. Lifecycle!Return(p, h)
  <2>1. [g \in Handles |-> Lent(g)]' = [[g \in Handles |-> Lent(g)] EXCEPT ![h] = @ \ {p}]
    BY <1>3
  <2>2. [g \in Handles |-> Phase(g)]' = [g \in Handles |-> Phase(g)]
    BY <1>1
  <2> QED
    BY <2>1, <2>2 DEF Lifecycle!Return, Lent, Close, history
<1> QED
  BY <1>4 DEF Lifecycle!Next

\* After a power loss a package that was acknowledged is still ready, a durable revocation
\* still stands, and whatever else is left of a package survives.
LEMMA PowerLossMoves ==
  ASSUME IInv, PowerLoss
  PROVE  Lifecycle!Next
<1>1. ASSUME NEW h \in Handles
      PROVE  /\ Phase(h)' \in Lifecycle!Phases
             /\ \/ Phase(h)' = Phase(h)
                \/ Phase(h) = "ready" /\ h \notin acked /\ Phase(h)' = "incomplete"
                \/ Phase(h) = "revoked" /\ Phase(h)' \in {"incomplete", "ready", "ended", "gone"}
                \/ Phase(h) \in {"incomplete", "ended"} /\ Phase(h)' = "gone"
             /\ Lent(h)' = {}
  <2>0. /\ onDisk'[h] = {names'[h]} /\ dirsOnDisk' = {dirs'} /\ dirs' \in dirsOnDisk
        /\ UNCHANGED <<used, acked>>
        /\ (h \in ended') <=> (h \in ended \/ "released.json" \in names'[h])
        /\ h \in dirs' => names'[h] \in onDisk[h]
    BY DEF PowerLoss
  <2>1. /\ Stored(h)' <=> (h \in dirs')
        /\ h \in dirs' => Stored(h)
        /\ Revocable(h)' <=> ("released.json" \in names'[h])
        /\ "released.json" \in names'[h] => h \in ended'
    BY <2>0 DEF Stored, Revocable
  <2>2. Lent(h)' = {}
    BY DEF Lent, PowerLoss
  <2>3. CASE h \notin used \/ ~Stored(h)
    BY <2>0, <2>1, <2>2, <2>3, Phases, PhasesAfter DEF Lifecycle!Phases
  <2>4. CASE h \in used /\ Stored(h) /\ (h \in ended \/ Revocable(h))
    BY <2>0, <2>1, <2>2, <2>4, Phases, PhasesAfter DEF Lifecycle!Phases
  <2>5. CASE h \in used /\ Stored(h) /\ h \notin ended /\ ~Revocable(h)
    <3>1. h \in dirs' => "released.json" \notin names'[h]
      BY <2>0, <2>5 DEF Revocable
    <3>2. h \in dirs' => Phase(h)' = IF "ready.json" \in names'[h] THEN "ready" ELSE "incomplete"
      BY <2>0, <2>1, <2>5, <3>1, PhasesAfter
    <3>3. h \notin dirs' => Phase(h)' = "gone"
      BY <2>0, <2>1, <2>5, PhasesAfter
    <3>4. CASE "ready.json" \in names[h]
      <4>1. h \in dirs'
        BY <2>0, <3>4, EntryParts DEF Files, Rooted
      <4>2. h \in acked => "ready.json" \in names'[h]
        BY <2>0, <2>5, <3>4, <4>1, EntryParts DEF Succession, Revocable
      <4>3. Phase(h) = "ready"
        BY <2>5, <3>4, Phases
      <4> QED
        BY <2>2, <3>2, <4>1, <4>2, <4>3 DEF Lifecycle!Phases
    <3>5. CASE "ready.json" \notin names[h]
      <4>1. h \in dirs' => "ready.json" \notin names'[h]
        BY <2>0, <2>5, <3>5, EntryParts DEF Succession, Revocable
      <4>2. Phase(h) = "incomplete"
        BY <2>5, <3>5, Phases
      <4> QED
        BY <2>2, <3>2, <3>3, <4>1, <4>2 DEF Lifecycle!Phases
    <3> QED
      BY <3>4, <3>5
  <2> QED
    BY <2>3, <2>4, <2>5
<1>2. Lifecycle!Restart
  <2>1. [h \in Handles |-> Lent(h)]' = [h \in Handles |-> {}]
    BY <1>1
  <2>2. [h \in Handles |-> Phase(h)]' \in [Handles -> Lifecycle!Phases]
    BY <1>1
  <2>3. ASSUME NEW h \in Handles
        PROVE  Lifecycle!Survives(h, Phase(h)')
    BY <1>1, <2>3 DEF Lifecycle!Survives
  <2>4. \A h \in Handles : Lifecycle!Survives(h, [g \in Handles |-> Phase(g)]'[h])
    BY <2>3
  <2> QED
    BY <2>1, <2>2, <2>4 DEF Lifecycle!Restart, Lent, PowerLoss
<1> QED
  BY <1>2 DEF Lifecycle!Next

-----------------------------------------------------------------------------
(* The refinement *)

\* No package exists at first.
LEMMA LifecycleStarts ==
  ASSUME Init
  PROVE  Lifecycle!Init
<1>1. \A h \in Handles : Phase(h) = "absent" /\ Lent(h) = {}
  BY DEF Init, Phase, Lent
<1>2. [h \in Handles |-> Phase(h)] = [h \in Handles |-> "absent"]
  BY <1>1
<1>3. [h \in Handles |-> Lent(h)] = [h \in Handles |-> {}]
  BY <1>1
<1> QED
  BY <1>2, <1>3 DEF Lifecycle!Init, Lent, Init

\* Every step of the store is a step of the lifecycle or none.
LEMMA LifecycleStep ==
  ASSUME IInv, Next
  PROVE  Lifecycle!Next \/ UNCHANGED Lifecycle!vars
<1>1. ASSUME NEW p \in Processes, Begin(p)
      PROVE  Lifecycle!Next \/ UNCHANGED Lifecycle!vars
  BY <1>1, StoreMoves, UnseenSteps DEF Begin, Cleanup, Operations
<1>2. ASSUME NEW p \in Processes, Publication(p)
      PROVE  Lifecycle!Next \/ UNCHANGED Lifecycle!vars
  BY <1>2, PlainSteps, UnseenSteps, LinkMoves, FlushMoves DEF Publication
<1>3. ASSUME NEW p \in Processes, Preparation(p)
      PROVE  Lifecycle!Next \/ UNCHANGED Lifecycle!vars
  BY <1>3, AllocateMoves, StoreMoves, UnseenSteps, FlushMoves, AcknowledgeMoves DEF Preparation
<1>4. ASSUME NEW p \in Processes, Use(p)
      PROVE  Lifecycle!Next \/ UNCHANGED Lifecycle!vars
  BY <1>4, UnseenSteps, VerifyMoves, CloseMoves DEF Use
<1>5. ASSUME NEW p \in Processes, Reclaim(p)
      PROVE  Lifecycle!Next \/ UNCHANGED Lifecycle!vars
  BY <1>5, UnseenSteps, PlainSteps, RemovedUnseen, StoreMoves DEF Reclaim
<1>6. ASSUME NEW p \in Processes,
             Refuse(p) \/ InventoryRaw(p) \/ Stop(p) \/ StopPublishing(p) \/ StopLocking(p)
      PROVE  Lifecycle!Next \/ UNCHANGED Lifecycle!vars
  BY <1>6, UnseenSteps, PlainSteps
<1> QED
  BY <1>1, <1>2, <1>3, <1>4, <1>5, <1>6, PowerLossMoves DEF Next, Step

(***************************************************************************)
(* All operations on the store together are the lifecycle of its packages:    *)
(* each is complete once, lent to one borrower at a time, not disturbed while  *)
(* it is lent, not lent once it is revoked, and gone only when it was revoked  *)
(* or never ready, whatever stops the operations and the host.               *)
(***************************************************************************)
THEOREM LifecycleImplemented == Spec => ImplementsLifecycle
<1>1. Init => Lifecycle!Init
  BY LifecycleStarts
<1>2. IInv /\ [Next]_vars => [Lifecycle!Next]_(Lifecycle!vars)
  <2>1. ASSUME IInv, UNCHANGED vars
        PROVE  UNCHANGED Lifecycle!vars
    <3>1. \A h \in Handles : Phase(h)' = Phase(h)
      BY <2>1 DEF vars, Phase
    <3>2. \A h \in Handles : Lent(h)' = Lent(h)
      BY <2>1 DEF vars, Lent
    <3> QED
      BY <2>1, <3>1, <3>2, Stuttered DEF vars
  <2> QED
    BY <2>1, LifecycleStep
<1> QED
  BY <1>1, <1>2, Inductive, PTL DEF Spec, ImplementsLifecycle, Lifecycle!Spec
=============================================================================
