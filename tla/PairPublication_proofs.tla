----------------------- MODULE PairPublication_proofs -----------------------
(***************************************************************************)
(* What PairPublication promises for any number of savers and faults.  The   *)
(* argument is about what a save knows at each location: the lock it has,     *)
(* what it has looked at under that lock, and that a version which has left   *)
(* its name never comes back.                                               *)
(***************************************************************************)
EXTENDS PairPublication, TLAPS

Running == {"agent", "tests", "ready", "rereading"}
Active == Running \cup {"locking"}
Finished == {"complete", "refused", "crashed"}

-----------------------------------------------------------------------------
(* The inductive invariant *)

\* A version that somebody holds, or a name has, was made by now.
Known(v, r) == v # None =>
  /\ v.bytes \in Savers \cup (0 .. faults)
  /\ \A o \in Savers : o \in {v.ino, v.bytes} => r \in put[o]

\* What is still to be replaced is locked.
Locking(s, r) ==
  pc[s] \in Running /\ ack[s][r] # "written" /\ r \in ToLock(s)
    => <<r, held[s][r].ino>> \in locks[s]

Looked(s, r) == pc[s] = "ready" \/ (pc[s] = "tests" /\ r = "agent")

\* What it has looked at still has its name, unless somebody outside interfered.
Named(s, r) ==
  Looked(s, r) /\ ack[s][r] = "not_written" /\ held[s][r] # None
    => file[r] = held[s][r] \/ r \in meddled

\* It replaces bytes by its own, or removes a file that was there.
Sensible(s, r) ==
  /\ pc[s] \in Active /\ ack[s][r] \in {"not_written", "written"} => wanted[s][r] \in {s, None}
  /\ pc[s] \in Active /\ ack[s][r] = "not_written" => wanted[s][r] # None \/ held[s][r] # None

\* What is not to be replaced, or has been, is what it wants.
Matching(s, r) ==
  pc[s] \in Active /\ ack[s][r] # "not_written"
  /\ ~(pc[s] = "rereading" /\ r = Written(s))
    => Bytes(held[s])[r] = wanted[s][r]

Told(s, r) ==
  pc[s] # "crashed" /\ ack[s][r] # "unknown" => (ack[s][r] = "written") = (r \in put[s])

\* The tests come last.
Ordered(s) ==
  /\ pc[s] = "idle" => put[s] = {}
  /\ pc[s] = "ready" => \E r \in Roles : ack[s][r] = "not_written"
  /\ pc[s] = "rereading" =>
       ~alone[s] /\ ack[s][Written(s)] = "written" /\ wanted[s][Written(s)] # None
  /\ pc[s] \in Active /\ ack[s]["tests"] = "written" => ack[s]["agent"] # "not_written"
  /\ pc[s] \in Active /\ alone[s] /\ held[s]["tests"] # None => ack[s]["tests"] = "not_written"

Calm == ~untested /\ meddled = {}

\* With tests, and left alone, a save that has looked at both files has both.
Beside(s) ==
  /\ pc[s] = "ready" /\ Calm => \A r \in Roles : file[r] = held[s][r]
  /\ pc[s] = "tests" /\ Calm /\ Pending(s) # {}
       => file["agent"] = held[s]["agent"] \/ file["tests"] # held[s]["tests"]

\* The last look at the agent saw both files, or will not find the tests.
Whole(s) ==
  /\ pc[s] = "tests" /\ Pending(s) = {} /\ held[s]["tests"] # None
       => s \in whole \/ file["tests"] # held[s]["tests"]
  /\ pc[s] = "complete" /\ ~alone[s] /\ wanted[s]["tests"] # None => s \in whole

SInv(s) ==
  /\ \A r \in Roles :
       /\ Known(held[s][r], r)
       /\ Locking(s, r)
       /\ Named(s, r)
       /\ Sensible(s, r)
       /\ Matching(s, r)
       /\ Told(s, r)
  /\ Ordered(s)
  /\ Beside(s)
  /\ Whole(s)

IInv ==
  /\ TypeOK
  /\ \A r \in Roles : Known(file[r], r)
  /\ ~untested => file["tests"] # None
  /\ \A s \in Savers : SInv(s)

-----------------------------------------------------------------------------
(* Types *)

\* Every file a saver makes is a file, and is not nothing.
LEMMA FreshIsFile ==
  /\ \A m \in Makers : Fresh(m) \in Files
  /\ None \notin Files /\ None \notin Makers
  /\ Nothing \in Pairs /\ Nothing \in Contents
BY NoneAssumption, BoundAssumption, SMT DEF Fresh, Files, Makers, Nothing, Pairs, Contents

\* The bytes of a pair are contents.
LEMMA BytesAreContents ==
  ASSUME NEW p \in Pairs
  PROVE  Bytes(p) \in Contents
BY FreshIsFile, SMT DEF Bytes, Pairs, Contents, Files, Makers

\* What a save wants when it starts.
LEMMA ChosenContents ==
  ASSUME TypeOK, NEW s \in Savers, EditPair(s) \/ SaveAlone(s), Bytes(file)["tests"] # s
  PROVE  \E w \in Contents, b \in BOOLEAN :
           /\ Hold(s, w, b)
           /\ \A r \in Roles : w[r] = Bytes(file)[r] \/ w[r] \in {s, None}
           /\ b /\ file["tests"] # None => w["tests"] # Bytes(file)["tests"]
<1>1. Bytes(file) \in Contents
  BY BytesAreContents DEF TypeOK
<1>2. CASE EditPair(s)
  <2>1. PICK w \in [Roles -> {None, s} \cup {Bytes(file)[r] : r \in Roles}] :
          /\ w["agent"] \in {Bytes(file)["agent"], s} \ {None}
          /\ w["tests"] \in {Bytes(file)["tests"], s, None}
          /\ Hold(s, w, FALSE)
    BY <1>2 DEF EditPair
  <2>2. w \in Contents
    BY <1>1, <2>1, SMT DEF Contents, Makers, Roles
  <2>. QED
    BY <2>1, <2>2 DEF Roles
<1>3. CASE SaveAlone(s)
  <2>. DEFINE t == IF file["tests"] = None THEN "agent" ELSE "tests"
              w == [Bytes(file) EXCEPT ![t] = s]
  <2>1. Hold(s, w, TRUE)
    BY <1>3 DEF SaveAlone
  <2>2. w \in Contents /\ \A r \in Roles : w[r] = Bytes(file)[r] \/ w[r] = s
    BY <1>1, SMT DEF Contents, Makers, Roles
  <2>3. ASSUME file["tests"] # None PROVE w["tests"] # Bytes(file)["tests"]
    <3>1. t = "tests"
      BY <2>3
    <3>2. w["tests"] = s
      BY <1>1, <3>1 DEF Contents, Roles
    <3>. QED
      BY <3>2
  <2>. QED
    BY <2>1, <2>2, <2>3
<1>. QED
  BY <1>2, <1>3
\* The types, and the exclusion of the locks, of a step that takes no lock.
LEMMA TypeOfStep ==
  ASSUME TypeOK, NEW s \in Savers,
         file' \in Pairs, NEW l, l \in Active \cup Finished, pc' = [pc EXCEPT ![s] = l],
         held' \in [Savers -> Pairs], wanted' \in [Savers -> Contents],
         alone' \in [Savers -> BOOLEAN],
         locks' = locks \/ locks' = [locks EXCEPT ![s] = {}],
         ack' \in [Savers -> [Roles -> {"unchanged", "not_written", "written", "unknown"}]],
         faults' \in 0 .. MaxFaults, put' \in [Savers -> SUBSET Roles],
         meddled' = meddled, Observe
  PROVE  TypeOK'
<1>1. pc' \in [Savers -> Roles \cup {"idle", "locking", "ready", "rereading",
                                     "complete", "refused", "crashed"}]
  BY DEF TypeOK, Active, Running, Finished, Roles
<1>2. whole' \subseteq Savers /\ untested' \in BOOLEAN
  BY DEF TypeOK, Observe
<1>3. locks' \in [Savers -> SUBSET (Roles \X Makers)]
  BY DEF TypeOK
<1>4. \A a, o \in Savers : a # o => locks'[a] \cap locks'[o] = {}
  BY DEF TypeOK
<1>. QED
  BY <1>1, <1>2, <1>3, <1>4 DEF TypeOK

LEMMA LockType ==
  ASSUME TypeOK, NEW s \in Savers, Lock(s)
  PROVE  TypeOK'
<1>1. Wanting(s) \in SUBSET (Roles \X Makers)
  BY FreshIsFile, SMT DEF Wanting, ToLock, TypeOK, Pairs, Files
<1>2. locks' = [locks EXCEPT ![s] = Wanting(s)]
  BY DEF Lock
<1>3. locks' \in [Savers -> SUBSET (Roles \X Makers)]
  BY <1>1, <1>2 DEF TypeOK
<1>4. \A o \in Savers : Wanting(s) \cap locks[o] = {}
  BY DEF Lock, Free
<1>5. \A a, o \in Savers : a # o => locks'[a] \cap locks'[o] = {}
  BY <1>2, <1>4 DEF TypeOK
<1>6. pc' \in [Savers -> Roles \cup {"idle", "locking", "ready", "rereading",
                                     "complete", "refused", "crashed"}]
  BY DEF TypeOK, Lock, Goto, Roles
<1>7. whole' \subseteq Savers /\ untested' \in BOOLEAN
  BY DEF TypeOK, Observe, Lock
<1>. QED
  BY <1>3, <1>5, <1>6, <1>7 DEF TypeOK, Lock, Untouched

\* Finishing keeps the types.
LEMMA FinishTypes ==
  ASSUME TypeOK, NEW s \in Savers, NEW l \in Finished, Finish(s, l)
  PROVE  /\ held' \in [Savers -> Pairs] /\ wanted' \in [Savers -> Contents]
         /\ alone' \in [Savers -> BOOLEAN]
         /\ pc' = [pc EXCEPT ![s] = l]
         /\ locks' = [locks EXCEPT ![s] = {}]
BY FreshIsFile, SMT DEF Finish, TypeOK, Goto, Finished

LEMMA EffectTypes ==
  ASSUME TypeOK, NEW s \in Savers, NEW r \in Roles, Effect(s, r)
  PROVE  file' \in Pairs /\ put' \in [Savers -> SUBSET Roles]
<1>1. Fresh(s) \in Files
  BY FreshIsFile DEF Makers
<1>. QED
  BY <1>1, SMT DEF Effect, TypeOK, Pairs

-----------------------------------------------------------------------------
(* What a step leaves alone *)

Quiet(o) ==
  /\ pc'[o] = pc[o] /\ held'[o] = held[o] /\ wanted'[o] = wanted[o]
  /\ alone'[o] = alone[o] /\ locks'[o] = locks[o] /\ ack'[o] = ack[o] /\ put'[o] = put[o]

Later ==
  /\ \A x \in Savers : put[x] \subseteq put'[x]
  /\ faults \in Nat /\ faults' \in Nat /\ faults <= faults'
  /\ meddled \subseteq meddled' /\ whole \subseteq whole'
  /\ untested => untested'

\* The histories grow.
LEMMA ObservedLater ==
  ASSUME Observe
  PROVE  whole \subseteq whole' /\ (untested => untested')
<1>1. whole \subseteq whole'
  BY DEF Observe
<1>2. untested => untested'
  BY Zenon DEF Observe
<1>. QED
  BY <1>1, <1>2, Zenon

\* A known version stays known.
LEMMA KnownLater ==
  ASSUME NEW v, NEW r, Known(v, r), Later
  PROVE  Known(v, r)'
BY SMT DEF Known, Later

\* A save that a step does not touch keeps what it knows while the files stay.
LEMMA FrameStill ==
  ASSUME NEW o \in Savers, SInv(o), Quiet(o), Later, file' = file
  PROVE  SInv(o)'
<1>1. ToLock(o)' = ToLock(o) /\ Pending(o)' = Pending(o) /\ Written(o)' = Written(o)
  BY DEF Quiet, ToLock, Pending, Written
<1>2. \A r \in Roles : Known(held[o][r], r)'
  BY KnownLater DEF SInv, Quiet
<1>3. \A r \in Roles : (Locking(o, r) /\ Named(o, r) /\ Sensible(o, r))'
  BY <1>1 DEF SInv, Quiet, Later, Locking, Named, Looked, Sensible
<1>4. \A r \in Roles : (Matching(o, r) /\ Told(o, r))'
  BY <1>1 DEF SInv, Quiet, Later, Matching, Told, Bytes
<1>5. (Ordered(o) /\ Beside(o) /\ Whole(o))'
  BY <1>1 DEF SInv, Quiet, Later, Ordered, Beside, Whole, Calm
<1>. QED
  BY <1>2, <1>3, <1>4, <1>5 DEF SInv, Quiet

\* What a save knows when it is about to replace the next name.
LEMMA AboutToPut ==
  ASSUME IInv, NEW s \in Savers, pc[s] = "ready", ~Fails(s, Next1(s))
  PROVE  LET r == Next1(s) IN
         /\ r \in Roles /\ ack[s][r] = "not_written" /\ r \notin put[s]
         /\ wanted[s][r] \in {s, None}
         /\ held[s][r] = None => file[r] = None /\ wanted[s][r] = s
         /\ held[s][r] # None => /\ <<r, held[s][r].ino>> \in locks[s]
                                 /\ file[r] = held[s][r] \/ r \in meddled
<1>. DEFINE r == Next1(s)
<1>1. SInv(s) /\ ack[s] \in [Roles -> {"unchanged", "not_written", "written", "unknown"}]
  BY DEF IInv, TypeOK
<1>2. PICK q \in Roles : ack[s][q] = "not_written"
  BY <1>1 DEF SInv, Ordered
<1>3. r \in Roles /\ ack[s][r] = "not_written"
  BY <1>2 DEF Next1, Pending, Roles
<1>4. r \notin put[s]
  BY <1>1, <1>3 DEF SInv, Told
<1>5. wanted[s][r] \in {s, None} /\ (wanted[s][r] # None \/ held[s][r] # None)
  BY <1>1, <1>3 DEF SInv, Sensible, Active, Running
<1>6. held[s][r] = None => file[r] = None /\ wanted[s][r] = s
  BY <1>5 DEF Fails
<1>7. held[s][r] # None => <<r, held[s][r].ino>> \in locks[s]
  BY <1>1, <1>3 DEF SInv, Locking, Running, ToLock
<1>8. held[s][r] # None => file[r] = held[s][r] \/ r \in meddled
  BY <1>1, <1>3 DEF SInv, Named, Looked
<1>. QED
  BY <1>3, <1>4, <1>5, <1>6, <1>7, <1>8

\* With tests, whoever is about to put anything has their lock.
LEMMA TestsAreLocked ==
  ASSUME IInv, NEW s \in Savers,
         pc[s] = "ready" \/ (pc[s] = "tests" /\ Pending(s) # {}),
         held[s]["tests"] # None
  PROVE  <<"tests", held[s]["tests"].ino>> \in locks[s] /\ ack[s]["tests"] # "written"
<1>1. SInv(s) /\ pc[s] \in Active /\ pc[s] \in Running
  BY DEF IInv, Active, Running
<1>2. \E q \in Roles : ack[s][q] = "not_written"
  BY <1>1 DEF SInv, Ordered, Pending
<1>3. ack[s]["tests"] # "written"
  BY <1>1, <1>2 DEF SInv, Ordered, Roles
<1>4. "tests" \in ToLock(s)
  BY <1>1 DEF SInv, Ordered, ToLock, Roles
<1>. QED
  BY <1>1, <1>3, <1>4 DEF SInv, Locking, Roles

\* Another save keeps what it knows while one name is replaced.
LEMMA FrameEffect ==
  ASSUME IInv, NEW s \in Savers, NEW o \in Savers, s # o, pc[s] = "ready",
         ~Fails(s, Next1(s)), Effect(s, Next1(s)), Quiet(o), Later, Observe,
         meddled' = meddled
  PROVE  SInv(o)'
<1>. DEFINE r == Next1(s)
<1>1. /\ r \in Roles /\ ack[s][r] = "not_written" /\ r \notin put[s]
      /\ wanted[s][r] \in {s, None}
      /\ held[s][r] = None => file[r] = None /\ wanted[s][r] = s
      /\ held[s][r] # None => /\ <<r, held[s][r].ino>> \in locks[s]
                              /\ file[r] = held[s][r] \/ r \in meddled
  BY AboutToPut
<1>2. SInv(o) /\ locks[s] \cap locks[o] = {} /\ file \in Pairs
  BY DEF IInv, TypeOK
<1>3. ToLock(o)' = ToLock(o) /\ Pending(o)' = Pending(o) /\ Written(o)' = Written(o)
  BY DEF Quiet, ToLock, Pending, Written
<1>4. \A q \in Roles : Known(held[o][q], q)'
  BY <1>2, KnownLater DEF SInv, Quiet
<1>5. file' = [file EXCEPT ![r] = IF wanted[s][r] = None THEN None ELSE Fresh(s)]
  BY DEF Effect
<1>6. \A q \in Roles : q # r => file'[q] = file[q]
  BY <1>2, <1>5 DEF Pairs
<1>7. file'[r] = IF wanted[s][r] = None THEN None ELSE Fresh(s)
  BY <1>1, <1>2, <1>5 DEF Pairs
<1>8. \A q \in Roles : (Locking(o, q) /\ Sensible(o, q) /\ Matching(o, q) /\ Told(o, q))'
  BY <1>2, <1>3 DEF SInv, Quiet, Locking, Sensible, Matching, Told, Bytes
<1>9. Ordered(o)'
  BY <1>2, <1>3 DEF SInv, Quiet, Ordered
<1>10. ASSUME NEW q \in Roles PROVE Named(o, q)'
  <2>1. CASE q # r
    BY <1>2, <1>6, <2>1 DEF SInv, Quiet, Named, Looked
  <2>2. CASE q = r
    <3>1. SUFFICES ASSUME Looked(o, r), ack[o][r] = "not_written", held[o][r] # None, r \notin meddled
                   PROVE  FALSE
      BY <2>2 DEF Named, Quiet, Looked
    <3>2. file[r] = held[o][r]
      BY <1>1, <1>2, <3>1 DEF SInv, Named
    <3>3. held[s][r] = held[o][r]
      BY <1>1, <3>1, <3>2
    <3>4. <<r, held[o][r].ino>> \in locks[o]
      BY <1>1, <1>2, <3>1 DEF SInv, Locking, Looked, Running, ToLock
    <3>5. <<r, held[o][r].ino>> \in locks[s]
      BY <1>1, <3>1, <3>3
    <3>. QED
      BY <1>2, <3>4, <3>5
  <2>. QED
    BY <2>1, <2>2
\* What s made is new to everybody else.
<1>11. \A q \in Roles : held[o][q] # None => ~(q = r /\ held[o][q] = Fresh(s))
  BY <1>1, <1>2 DEF SInv, Known, Fresh
<1>12. Beside(o)'
  <2>1. SUFFICES ASSUME Calm', pc[o] = "ready" \/ (pc[o] = "tests" /\ Pending(o) # {})
                 PROVE  /\ pc[o] = "ready" => \A q \in Roles : file'[q] = held[o][q]
                        /\ pc[o] = "tests" =>
                             file'["agent"] = held[o]["agent"] \/ file'["tests"] # held[o]["tests"]
    BY <1>3 DEF Beside, Quiet
  <2>2. Calm /\ file'["tests"] # None /\ file["tests"] # None
    BY <2>1 DEF Calm, Later, Observe, IInv
  <2>3. SInv(s)
    BY DEF IInv
  <2>4. file["tests"] = held[s]["tests"]
    BY <2>2, <2>3 DEF SInv, Beside, Roles
  <2>5. <<"tests", file["tests"].ino>> \in locks[s]
    BY TestsAreLocked, <2>2, <2>4
  <2>6. file["tests"] # held[o]["tests"]
    BY TestsAreLocked, <1>2, <2>1, <2>2, <2>5
  <2>7. pc[o] # "ready"
    BY <1>2, <2>2, <2>6 DEF SInv, Beside, Roles
  <2>8. file'["tests"] # held[o]["tests"]
    BY <1>1, <1>6, <1>7, <1>11, <2>2, <2>6 DEF Roles
  <2>. QED
    BY <2>7, <2>8
<1>13. Whole(o)'
  <2>1. ASSUME pc[o] = "tests", Pending(o) = {}, held[o]["tests"] # None, o \notin whole
        PROVE  file'["tests"] # held[o]["tests"]
    <3>1. file["tests"] # held[o]["tests"]
      BY <1>2, <2>1 DEF SInv, Whole
    <3>. QED
      BY <1>1, <1>6, <1>7, <1>11, <2>1, <3>1 DEF Roles
  <2>2. whole \subseteq whole'
    BY DEF Later
  <2>. QED
    BY <1>2, <1>3, <2>1, <2>2 DEF Whole, Quiet, SInv
<1>. QED
  BY <1>4, <1>8, <1>9, <1>10, <1>12, <1>13 DEF SInv, Quiet


-----------------------------------------------------------------------------
(* The steps *)

\* A step of s that leaves the files alone.
LEMMA StillStep ==
  ASSUME IInv, NEW s \in Savers, TypeOK', Observe, Later, file' = file,
         \A o \in Savers : o # s => Quiet(o), SInv(s)'
  PROVE  IInv'
<1>1. \A o \in Savers : SInv(o)'
  BY FrameStill DEF IInv
<1>2. \A r \in Roles : Known(file[r], r)'
  BY KnownLater DEF IInv
<1>3. (~untested => file["tests"] # None)'
  BY DEF Observe
<1>. QED
  BY <1>1, <1>2, <1>3 DEF IInv

\* A step of s that replaces a file.
LEMMA EffectStep ==
  ASSUME IInv, NEW s \in Savers, TypeOK', Observe, Later, meddled' = meddled,
         pc[s] = "ready", ~Fails(s, Next1(s)), Effect(s, Next1(s)),
         \A o \in Savers : o # s => Quiet(o), SInv(s)'
  PROVE  IInv'
<1>1. \A o \in Savers : SInv(o)'
  BY FrameEffect
<1>2. ASSUME NEW r \in Roles PROVE Known(file[r], r)'
  <2>1. CASE r = Next1(s)
    <3>1. file'[r] \in {None, Fresh(s)} /\ r \in put'[s]
      BY <2>1 DEF Effect, IInv, TypeOK, Pairs
    <3>. QED
      BY <3>1 DEF Known, Fresh
  <2>2. CASE r # Next1(s)
    <3>1. file'[r] = file[r]
      BY <2>2 DEF Effect, IInv, TypeOK, Pairs
    <3>2. Known(file[r], r)
      BY DEF IInv
    <3>. QED
      BY <3>1, <3>2, KnownLater
  <2>. QED
    BY <2>1, <2>2
<1>3. (~untested => file["tests"] # None)'
  BY DEF Observe
<1>. QED
  BY <1>1, <1>2, <1>3 DEF IInv

LEMMA MeddleStep ==
  ASSUME IInv, NEW r \in Roles, Meddle(r)
  PROVE  IInv'
<1>. DEFINE n == faults + 1
<1>1. /\ faults \in Nat /\ faults < MaxFaults /\ faults' = n /\ n \in 1 .. MaxFaults
      /\ meddled' = meddled \cup {r} /\ UNCHANGED <<saver, put>> /\ Observe
  BY BoundAssumption DEF Meddle, IInv, TypeOK
<1>2. file \in Pairs /\ n \in Makers /\ n \notin Savers
  BY <1>1, SaversAssumption DEF IInv, TypeOK, Makers
<1>3. file'[r] # None => /\ file'[r] \in Files /\ file'[r].bytes = n
                         /\ (file[r] # None /\ file'[r].ino = file[r].ino) \/ file'[r].ino = n
  <2>1. CASE file' = [file EXCEPT ![r] = Fresh(n)]
    <3>1. file'[r] = Fresh(n)
      BY <1>2, <2>1 DEF Pairs
    <3>. QED
      BY <1>2, <3>1, FreshIsFile DEF Fresh
  <2>2. CASE file[r] # None /\ file' = [file EXCEPT ![r].bytes = n]
    <3>1. file[r] \in Files
      BY <1>2, <2>2 DEF Pairs
    <3>2. file'[r] = [file[r] EXCEPT !.bytes = n]
      BY <1>2, <2>2 DEF Pairs
    <3>. QED
      BY <1>2, <2>2, <3>1, <3>2 DEF Files
  <2>3. CASE file' = [file EXCEPT ![r] = None]
    BY <1>2, <2>3 DEF Pairs
  <2>. QED
    BY <2>1, <2>2, <2>3 DEF Meddle
<1>4. file' \in [Roles -> Files \cup {None}] /\ \A q \in Roles : q # r => file'[q] = file[q]
  BY <1>2, <1>3, FreshIsFile DEF Meddle, Pairs
<1>5. Later
  <2>1. \A x \in Savers : put[x] \subseteq put'[x]
    BY <1>1
  <2>2. faults \in Nat /\ faults' \in Nat /\ faults <= faults' /\ meddled \subseteq meddled'
    BY <1>1
  <2>. QED
    BY <1>1, <2>1, <2>2, ObservedLater, Zenon DEF Later
<1>6. TypeOK'
  BY <1>1, <1>4 DEF TypeOK, IInv, saver, Observe, Pairs
<1>7. ASSUME NEW q \in Roles PROVE Known(file[q], q)'
  <2>1. Known(file[q], q)
    BY DEF IInv
  <2>2. CASE q # r
    BY <1>4, <1>5, <2>1, <2>2, KnownLater
  <2>3. CASE q = r
    BY <1>1, <1>2, <1>3, <2>1, <2>3 DEF Known
  <2>. QED
    BY <2>2, <2>3
<1>8. (~untested => file["tests"] # None)'
  BY <1>1 DEF Observe
<1>9. ASSUME NEW o \in Savers PROVE SInv(o)'
  <2>1. SInv(o) /\ Quiet(o)
    BY <1>1 DEF IInv, Quiet, saver
  <2>2. ToLock(o)' = ToLock(o) /\ Pending(o)' = Pending(o) /\ Written(o)' = Written(o)
    BY <2>1 DEF Quiet, ToLock, Pending, Written
  <2>3. \A q \in Roles : Known(held[o][q], q)'
    BY <1>5, <2>1, KnownLater DEF SInv, Quiet
  <2>4. \A q \in Roles : (Locking(o, q) /\ Sensible(o, q) /\ Matching(o, q) /\ Told(o, q))'
    BY <2>1, <2>2 DEF SInv, Quiet, Locking, Sensible, Matching, Told, Bytes
  <2>5. Ordered(o)'
    BY <2>1, <2>2 DEF SInv, Quiet, Ordered
  <2>6. \A q \in Roles : Named(o, q)'
    BY <1>1, <1>4, <2>1 DEF SInv, Quiet, Named, Looked
  <2>7. Beside(o)'
    BY <1>1 DEF Beside, Calm
  <2>8. ASSUME held[o]["tests"] # None, file["tests"] # held[o]["tests"]
        PROVE  file'["tests"] # held[o]["tests"]
    <3>1. CASE r = "tests"
      <4>1. Known(held[o]["tests"], "tests")
        BY <2>1 DEF SInv, Roles
      <4>2. held[o]["tests"].bytes # n
        BY <1>1, <1>2, <2>8, <4>1 DEF Known
      <4>. QED
        BY <1>3, <2>8, <3>1, <4>2
    <3>2. CASE r # "tests"
      BY <1>4, <2>8, <3>2 DEF Roles
    <3>. QED
      BY <3>1, <3>2
  <2>9. Whole(o)'
    BY <1>5, <2>1, <2>2, <2>8 DEF SInv, Whole, Quiet, Later
  <2>. QED
    BY <2>1, <2>3, <2>4, <2>5, <2>6, <2>7, <2>9 DEF SInv, Quiet
<1>. QED
  BY <1>6, <1>7, <1>8, <1>9 DEF IInv


LEMMA LaterOf ==
  ASSUME TypeOK, Observe, faults' \in {faults, faults + 1},
         \A x \in Savers : put[x] \subseteq put'[x], meddled' = meddled
  PROVE  Later
<1>1. faults \in Nat /\ faults' \in Nat /\ faults <= faults' /\ meddled \subseteq meddled'
  BY BoundAssumption DEF TypeOK
<1>. QED
  BY <1>1, ObservedLater, Zenon DEF Later

LEMMA HoldStep ==
  ASSUME IInv, NEW s \in Savers, EditPair(s) \/ SaveAlone(s)
  PROVE  IInv'
<1>1. TypeOK /\ SInv(s)
  BY DEF IInv
<1>2. pc[s] = "idle" /\ put[s] = {}
  BY <1>1 DEF EditPair, SaveAlone, Hold, SInv, Ordered
<1>3. Bytes(file)["tests"] # s
  <2>1. Known(file["tests"], "tests")
    BY DEF IInv, Roles
  <2>2. file["tests"] # None => file["tests"].bytes # s
    BY <1>2, <2>1 DEF Known
  <2>3. None # s
    BY NoneAssumption
  <2>. QED
    BY <2>2, <2>3 DEF Bytes, Roles
<1>4. PICK w \in Contents, b \in BOOLEAN :
        /\ Hold(s, w, b)
        /\ \A r \in Roles : w[r] = Bytes(file)[r] \/ w[r] \in {s, None}
        /\ b /\ file["tests"] # None => w["tests"] # Bytes(file)["tests"]
  BY <1>1, <1>3, ChosenContents
<1>5. /\ file' = file /\ faults' = faults /\ put' = put /\ meddled' = meddled /\ Observe
      /\ locks' = locks /\ pc' = [pc EXCEPT ![s] = "locking"]
      /\ held' = [held EXCEPT ![s] = file] /\ wanted' = [wanted EXCEPT ![s] = w]
      /\ alone' = [alone EXCEPT ![s] = b] /\ ack' = [ack EXCEPT ![s] = Facts(file, w)]
  BY <1>4 DEF Hold, Goto, Untouched
<1>6. Facts(file, w) \in [Roles -> {"unchanged", "not_written"}]
  BY DEF Facts
<1>7. TypeOK'
  <2>1. /\ file' \in Pairs /\ held' \in [Savers -> Pairs] /\ wanted' \in [Savers -> Contents]
        /\ alone' \in [Savers -> BOOLEAN] /\ faults' \in 0 .. MaxFaults
        /\ put' \in [Savers -> SUBSET Roles]
        /\ ack' \in [Savers -> [Roles -> {"unchanged", "not_written", "written", "unknown"}]]
    BY <1>1, <1>5, <1>6 DEF TypeOK
  <2>2. "locking" \in Active \cup Finished
    BY DEF Active
  <2>. QED
    BY <1>1, <1>3, <1>5, <2>1, <2>2, TypeOfStep
<1>8. Later
  BY <1>1, <1>5, LaterOf
<1>9. \A o \in Savers : o # s => Quiet(o)
  BY <1>1, <1>5 DEF TypeOK, Quiet
<1>10. /\ pc'[s] = "locking" /\ held'[s] = file /\ wanted'[s] = w /\ alone'[s] = b
       /\ ack'[s] = Facts(file, w) /\ put'[s] = {}
  BY <1>1, <1>2, <1>5 DEF TypeOK
<1>11. SInv(s)'
  <2>1. \A r \in Roles : ack'[s][r] = IF Bytes(file)[r] = w[r] THEN "unchanged" ELSE "not_written"
    BY <1>10 DEF Facts
  <2>2. \A r \in Roles : Known(held[s][r], r)'
    BY <1>8, <1>10, KnownLater DEF IInv
  <2>3. \A r \in Roles : (Locking(s, r) /\ Named(s, r))'
    BY <1>10 DEF Locking, Named, Looked, Running
  <2>4. \A r \in Roles : (Sensible(s, r) /\ Matching(s, r))'
    BY <1>4, <1>10, <2>1 DEF Sensible, Matching, Bytes
  <2>5. \A r \in Roles : Told(s, r)'
    BY <1>10, <2>1 DEF Told
  <2>6. (Ordered(s) /\ Beside(s) /\ Whole(s))'
    BY <1>4, <1>10, <2>1 DEF Ordered, Beside, Whole, Roles
  <2>. QED
    BY <2>2, <2>3, <2>4, <2>5, <2>6 DEF SInv
<1>. QED
  BY <1>5, <1>7, <1>8, <1>9, <1>11, StillStep

\* A save that ends keeps its report.
LEMMA FinishedInv ==
  ASSUME IInv, NEW s \in Savers, NEW l \in {"refused", "crashed"}, Finish(s, l),
         \A r \in Roles : Told(s, r)'
  PROVE  SInv(s)'
<1>1. pc'[s] = l /\ held'[s] = Nothing
  BY DEF Finish, Goto, IInv, TypeOK
<1>2. \A r \in Roles : held'[s][r] = None
  BY <1>1 DEF Nothing
<1>3. \A r \in Roles : (Known(held[s][r], r) /\ Locking(s, r) /\ Named(s, r) /\ Sensible(s, r)
                        /\ Matching(s, r))'
  BY <1>1, <1>2 DEF Known, Locking, Named, Looked, Sensible, Matching, Running, Active
<1>4. (Ordered(s) /\ Beside(s) /\ Whole(s))'
  BY <1>1 DEF Ordered, Beside, Whole, Active, Running
<1>. QED
  BY <1>3, <1>4 DEF SInv

LEMMA RefuseStep ==
  ASSUME IInv, NEW s \in Savers, Refuse(s)
  PROVE  IInv'
<1>1. TypeOK /\ SInv(s)
  BY DEF IInv
<1>2. /\ Finish(s, "refused") /\ ack' = ack /\ Observe /\ pc[s] # "crashed"
      /\ file' = file /\ faults' = faults /\ put' = put /\ meddled' = meddled
  BY DEF Refuse, Untouched
<1>3. TypeOK'
  BY <1>1, <1>2, FinishTypes, TypeOfStep DEF TypeOK, Finished
<1>4. Later
  BY <1>1, <1>2, LaterOf
<1>5. \A o \in Savers : o # s => Quiet(o)
  BY <1>1, <1>2 DEF TypeOK, Quiet, Finish, Goto
<1>6. \A r \in Roles : Told(s, r)'
  BY <1>1, <1>2 DEF SInv, Told
<1>7. SInv(s)'
  BY <1>2, <1>6, FinishedInv
<1>. QED
  BY <1>2, <1>3, <1>4, <1>5, <1>7, StillStep

LEMMA CrashStep ==
  ASSUME IInv, NEW s \in Savers, Crash(s)
  PROVE  IInv'
<1>1. TypeOK
  BY DEF IInv
<1>2. /\ Finish(s, "crashed") /\ Observe /\ faults < MaxFaults /\ faults' = faults + 1
      /\ ack' = [ack EXCEPT ![s] = [r \in Roles |-> "unknown"]]
      /\ file' = file /\ put' = put /\ meddled' = meddled
  BY DEF Crash
<1>3. ack' \in [Savers -> [Roles -> {"unchanged", "not_written", "written", "unknown"}]]
  BY <1>1, <1>2 DEF TypeOK
<1>4. faults' \in 0 .. MaxFaults
  BY <1>1, <1>2, BoundAssumption DEF TypeOK
<1>5. TypeOK'
  BY <1>1, <1>2, <1>3, <1>4, FinishTypes, TypeOfStep DEF TypeOK, Finished
<1>6. Later
  BY <1>1, <1>2, LaterOf
<1>7. \A o \in Savers : o # s => Quiet(o)
  BY <1>1, <1>2 DEF TypeOK, Quiet, Finish, Goto
<1>8. \A r \in Roles : Told(s, r)'
  BY <1>1, <1>2 DEF TypeOK, Told
<1>9. SInv(s)'
  BY <1>2, <1>8, FinishedInv
<1>. QED
  BY <1>2, <1>5, <1>6, <1>7, <1>9, StillStep


\* A save that finds its agent, and has nothing left to write, sees the pair it
\* wants, or will not find its tests.
LEMMA SeesWhole ==
  ASSUME IInv, NEW s \in Savers, pc[s] \in {"locking", "agent"}, pc'[s] = "tests",
         file' = file, wanted' = wanted, Observe,
         file["agent"] = held[s]["agent"], Pending(s) = {}
  PROVE  s \in whole' \/ file["tests"] # held[s]["tests"]
<1>1. SUFFICES ASSUME file["tests"] = held[s]["tests"]
               PROVE  s \in whole'
  OBVIOUS
<1>2. \A r \in Roles : Matching(s, r) /\ ack[s][r] # "not_written"
  BY DEF IInv, SInv, Pending
<1>3. \A r \in Roles : Bytes(held[s])[r] = wanted[s][r]
  BY <1>2 DEF Matching, Active, Running
<1>4. \A r \in Roles : Bytes(file)[r] = Bytes(held[s])[r]
  BY <1>1 DEF Bytes, Roles
<1>5. Bytes(file) \in Contents /\ wanted[s] \in Contents
  BY BytesAreContents DEF IInv, TypeOK
<1>6. Bytes(file) = wanted[s]
  BY <1>3, <1>4, <1>5 DEF Contents
<1>. QED
  BY <1>6 DEF Observe

LEMMA LockStep ==
  ASSUME IInv, NEW s \in Savers, Lock(s)
  PROVE  IInv'
<1>1. TypeOK /\ SInv(s)
  BY DEF IInv
<1>2. /\ pc[s] = "locking" /\ pc' = [pc EXCEPT ![s] = "tests"]
      /\ file["agent"] = held[s]["agent"] /\ locks' = [locks EXCEPT ![s] = Wanting(s)]
      /\ held' = held /\ wanted' = wanted /\ alone' = alone /\ ack' = ack
      /\ file' = file /\ faults' = faults /\ put' = put /\ meddled' = meddled /\ Observe
  BY DEF Lock, Goto, Untouched
<1>3. TypeOK'
  BY <1>1, LockType
<1>4. Later
  BY <1>1, <1>2, LaterOf
<1>5. \A o \in Savers : o # s => Quiet(o)
  BY <1>1, <1>2 DEF TypeOK, Quiet
<1>6. pc'[s] = "tests" /\ locks'[s] = Wanting(s)
  BY <1>1, <1>2 DEF TypeOK
<1>7. ToLock(s)' = ToLock(s) /\ Pending(s)' = Pending(s)
  BY <1>2 DEF ToLock, Pending
<1>8. SInv(s)'
  <2>1. \A r \in Roles : Known(held[s][r], r)'
    BY <1>1, <1>2, <1>4, KnownLater DEF SInv
  <2>2. \A r \in Roles : Locking(s, r)'
    BY <1>2, <1>6, <1>7 DEF Locking, Wanting
  <2>3. \A r \in Roles : (Named(s, r) /\ Told(s, r))'
    BY <1>1, <1>2, <1>6 DEF SInv, Named, Looked, Told
  <2>4. \A r \in Roles : (Sensible(s, r) /\ Matching(s, r))'
    BY <1>1, <1>2, <1>6 DEF SInv, Sensible, Matching, Active, Running, Bytes
  <2>5. (Ordered(s) /\ Beside(s))'
    BY <1>1, <1>2, <1>6 DEF SInv, Ordered, Beside, Active, Running
  <2>6. Whole(s)'
    BY <1>2, <1>6, <1>7, SeesWhole DEF Whole
  <2>. QED
    BY <2>1, <2>2, <2>3, <2>4, <2>5, <2>6 DEF SInv
<1>. QED
  BY <1>2, <1>3, <1>4, <1>5, <1>8, StillStep

LEMMA VerifyStep ==
  ASSUME IInv, NEW s \in Savers, Verify(s)
  PROVE  IInv'
<1>1. TypeOK /\ SInv(s)
  BY DEF IInv
<1>2. /\ pc[s] \in Roles /\ file[pc[s]] = held[s][pc[s]] /\ ack' = ack
      /\ file' = file /\ faults' = faults /\ put' = put /\ meddled' = meddled /\ Observe
  BY DEF Verify, Untouched
<1>3. Later
  BY <1>1, <1>2, LaterOf
<1>4. CASE Finish(s, "complete")
  <2>1. TypeOK'
    BY <1>1, <1>2, <1>4, FinishTypes, TypeOfStep DEF TypeOK, Finished
  <2>2. \A o \in Savers : o # s => Quiet(o)
    BY <1>1, <1>2, <1>4 DEF TypeOK, Quiet, Finish, Goto
  <2>3. /\ pc'[s] = "complete" /\ held'[s] = Nothing /\ wanted'[s] = wanted[s]
        /\ alone'[s] = alone[s]
    <3>1. pc'[s] = "complete" /\ held'[s] = Nothing /\ wanted'[s] = wanted[s]
      BY <1>1, <1>4 DEF Finish, Goto, TypeOK
    <3>2. alone'[s] = alone[s]
      BY <1>1, <1>4, Zenon DEF Finish, TypeOK
    <3>. QED
      BY <3>1, <3>2
  <2>4. CASE pc[s] = "tests" /\ Pending(s) = {}
    <3>1. \A r \in Roles : held'[s][r] = None
      BY <2>3 DEF Nothing
    <3>2. \A r \in Roles : (Known(held[s][r], r) /\ Locking(s, r) /\ Named(s, r)
                            /\ Sensible(s, r) /\ Matching(s, r))'
      BY <2>3, <3>1 DEF Known, Locking, Named, Looked, Sensible, Matching, Running, Active
    <3>3. \A r \in Roles : Told(s, r)'
      BY <1>1, <1>2, <2>4 DEF SInv, Told
    <3>4. (Ordered(s) /\ Beside(s))'
      BY <2>3 DEF Ordered, Beside, Active, Running
    <3>5. ASSUME wanted[s]["tests"] # None PROVE s \in whole'
      <4>1. Bytes(held[s])["tests"] = wanted[s]["tests"]
        BY <1>1, <2>4 DEF SInv, Matching, Active, Running, Pending, Roles
      <4>2. held[s]["tests"] # None
        BY <3>5, <4>1 DEF Bytes, Roles
      <4>3. s \in whole
        BY <1>1, <1>2, <2>4, <4>2 DEF SInv, Whole
      <4>. QED
        BY <1>3, <4>3 DEF Later
    <3>6. Whole(s)'
      BY <2>3, <3>5 DEF Whole
    <3>7. SInv(s)'
      BY <3>2, <3>3, <3>4, <3>6 DEF SInv
    <3>. QED
      BY <1>2, <1>3, <2>1, <2>2, <3>7, StillStep
  <2>5. CASE ~(pc[s] = "tests" /\ Pending(s) = {})
    <3>1. pc'[s] # "complete"
      BY <1>1, <1>2, <2>5 DEF Verify, Continue, Goto, TypeOK, Roles
    <3>. QED
      BY <2>3, <3>1
  <2>. QED
    BY <2>4, <2>5
<1>5. ASSUME NEW l \in {"tests", "ready"}, Continue(s, l),
             (l = "tests") = (pc[s] = "agent"), l = "ready" => Pending(s) # {}
      PROVE  IInv'
  <2>1. /\ pc' = [pc EXCEPT ![s] = l] /\ held' = held /\ wanted' = wanted /\ alone' = alone
        /\ locks' = locks
    BY <1>5 DEF Continue, Goto
  <2>2. TypeOK'
    <3>1. l \in Active \cup Finished
      BY DEF Active, Running
    <3>. QED
      BY <1>1, <1>2, <2>1, <3>1, TypeOfStep DEF TypeOK
  <2>3. \A o \in Savers : o # s => Quiet(o)
    BY <1>1, <1>2, <2>1 DEF TypeOK, Quiet
  <2>4. pc'[s] = l /\ pc[s] \in {"agent", "tests"}
    BY <1>1, <1>2, <2>1 DEF TypeOK, Roles
  <2>5. ToLock(s)' = ToLock(s) /\ Pending(s)' = Pending(s)
    BY <1>2, <2>1 DEF ToLock, Pending
  <2>6. \A r \in Roles : Known(held[s][r], r)'
    BY <1>1, <1>3, <2>1, KnownLater DEF SInv
  <2>7. \A r \in Roles : (Locking(s, r) /\ Told(s, r))'
    BY <1>1, <1>2, <2>1, <2>4, <2>5 DEF SInv, Locking, Told, Running
  <2>8. \A r \in Roles : (Sensible(s, r) /\ Matching(s, r))'
    BY <1>1, <1>2, <2>1, <2>4 DEF SInv, Sensible, Matching, Active, Running, Bytes
  <2>9. \A r \in Roles : Named(s, r)'
    BY <1>1, <1>2, <1>5, <2>1, <2>4 DEF SInv, Named, Looked, Roles
  <2>10. Ordered(s)'
    BY <1>1, <1>2, <1>5, <2>1, <2>4 DEF SInv, Ordered, Active, Running, Pending
  <2>11. Beside(s)'
    <3>1. CASE l = "tests"
      BY <1>2, <1>5, <2>1, <2>4, <3>1 DEF Beside
    <3>2. CASE l = "ready"
      <4>1. pc[s] = "tests" /\ Pending(s) # {}
        BY <1>5, <2>4, <3>2
      <4>2. Calm' => Calm
        BY <1>2, <1>3 DEF Calm, Later
      <4>3. Calm => \A r \in Roles : file[r] = held[s][r]
        BY <1>1, <1>2, <4>1 DEF SInv, Beside, Roles
      <4>. QED
        BY <1>2, <2>1, <2>4, <3>2, <4>2, <4>3 DEF Beside
    <3>. QED
      BY <3>1, <3>2
  <2>12. Whole(s)'
    <3>1. ASSUME l = "tests", Pending(s) = {}
          PROVE  s \in whole' \/ file["tests"] # held[s]["tests"]
      BY <1>2, <1>5, <2>1, <2>4, <3>1, SeesWhole
    <3>. QED
      BY <1>2, <2>1, <2>4, <2>5, <3>1 DEF Whole
  <2>13. SInv(s)'
    BY <2>6, <2>7, <2>8, <2>9, <2>10, <2>11, <2>12 DEF SInv
  <2>. QED
    BY <1>2, <1>3, <2>2, <2>3, <2>13, StillStep
<1>6. \/ Finish(s, "complete")
      \/ pc[s] = "agent" /\ Continue(s, "tests")
      \/ pc[s] # "agent" /\ Pending(s) # {} /\ Continue(s, "ready")
  BY DEF Verify
<1>. QED
  BY <1>4, <1>5, <1>6


LEMMA PutStep ==
  ASSUME IInv, NEW s \in Savers, Put(s)
  PROVE  IInv'
<1>. DEFINE r == Next1(s)
<1>1. TypeOK /\ SInv(s)
  BY DEF IInv
<1>2. /\ pc[s] = "ready" /\ ~Fails(s, r) /\ Effect(s, r) /\ Observe
      /\ ack' = [ack EXCEPT ![s][r] = "written"]
      /\ faults' = faults /\ meddled' = meddled
  BY DEF Put
<1>3. /\ r \in Roles /\ ack[s][r] = "not_written" /\ r \notin put[s]
      /\ wanted[s][r] \in {s, None}
  BY <1>2, AboutToPut
<1>4. file' \in Pairs /\ put' \in [Savers -> SUBSET Roles]
  BY <1>1, <1>2, <1>3, EffectTypes
<1>5. put' = [put EXCEPT ![s] = @ \cup {r}]
  BY <1>2 DEF Effect
<1>6. Later
  BY <1>1, <1>2, <1>5, LaterOf DEF TypeOK
<1>7. ack' \in [Savers -> [Roles -> {"unchanged", "not_written", "written", "unknown"}]]
  BY <1>1, <1>2, <1>3 DEF TypeOK
<1>8. /\ ack'[s][r] = "written" /\ r \in put'[s]
      /\ \A q \in Roles : q # r => ack'[s][q] = ack[s][q] /\ (q \in put'[s] <=> q \in put[s])
  BY <1>1, <1>2, <1>3, <1>5 DEF TypeOK
<1>9. \A q \in Roles : Told(s, q)'
  BY <1>1, <1>2, <1>8 DEF SInv, Told
<1>10. \A o \in Savers : o # s => ack'[o] = ack[o] /\ put'[o] = put[o]
  BY <1>1, <1>2, <1>5 DEF TypeOK
<1>11. r = "tests" => ack[s]["agent"] # "not_written"
  BY DEF Next1, Pending, Roles
<1>12. r = "agent" => ack[s]["tests"] # "written"
  BY <1>1, <1>2, <1>3 DEF SInv, Ordered, Active, Running
<1>13. ASSUME Finish(s, "complete"), alone[s]
       PROVE  IInv'
  <2>1. TypeOK'
    BY <1>1, <1>2, <1>4, <1>7, <1>13, FinishTypes, TypeOfStep DEF TypeOK, Finished
  <2>2. \A o \in Savers : o # s => Quiet(o)
    BY <1>1, <1>10, <1>13 DEF TypeOK, Quiet, Finish, Goto
  <2>3. pc'[s] = "complete" /\ held'[s] = Nothing
    BY <1>1, <1>13 DEF Finish, Goto, TypeOK
  <2>4. alone'[s]
    BY <1>1, <1>13, Zenon DEF Finish, TypeOK
  <2>5. \A q \in Roles : held'[s][q] = None
    BY <2>3 DEF Nothing
  <2>6. \A q \in Roles : (Known(held[s][q], q) /\ Locking(s, q) /\ Named(s, q)
                          /\ Sensible(s, q) /\ Matching(s, q))'
    BY <2>3, <2>5 DEF Known, Locking, Named, Looked, Sensible, Matching, Running, Active
  <2>7. (Ordered(s) /\ Beside(s) /\ Whole(s))'
    BY <2>3, <2>4 DEF Ordered, Beside, Whole, Active, Running
  <2>8. SInv(s)'
    BY <1>9, <2>6, <2>7 DEF SInv
  <2>. QED
    BY <1>2, <1>6, <2>1, <2>2, <2>8, EffectStep
<1>14. ASSUME ~alone[s], NEW l \in {"rereading", "agent"}, Goto(s, l),
              wanted' = wanted, alone' = alone, locks' = locks,
              l = "rereading" => held' = held /\ wanted[s][r] # None,
              l = "agent" => held' = [held EXCEPT ![s][r] = None] /\ wanted[s][r] = None
       PROVE  IInv'
  <2>1. pc' = [pc EXCEPT ![s] = l] /\ l \in Active
    BY <1>14 DEF Goto, Active, Running
  <2>2. held' \in [Savers -> Pairs]
    <3>1. [held EXCEPT ![s][r] = None] \in [Savers -> Pairs]
      BY <1>1, <1>3 DEF TypeOK, Pairs
    <3>. QED
      BY <1>1, <1>14, <3>1 DEF TypeOK
  <2>3. TypeOK'
    <3>1. faults' \in 0 .. MaxFaults /\ wanted' \in [Savers -> Contents]
          /\ alone' \in [Savers -> BOOLEAN]
      BY <1>1, <1>2, <1>14 DEF TypeOK
    <3>. QED
      BY <1>1, <1>2, <1>4, <1>7, <1>14, <2>1, <2>2, <3>1, TypeOfStep
  <2>4. \A o \in Savers : o # s => held'[o] = held[o]
    BY <1>1, <1>14 DEF TypeOK
  <2>5. \A o \in Savers : o # s => Quiet(o)
    BY <1>1, <1>10, <1>14, <2>1, <2>4 DEF TypeOK, Quiet
  <2>6. pc'[s] = l
    BY <1>1, <2>1 DEF TypeOK
  <2>7. /\ \A q \in Roles : q # r => held'[s][q] = held[s][q]
        /\ l = "rereading" => held'[s][r] = held[s][r]
        /\ l = "agent" => held'[s][r] = None
    BY <1>1, <1>3, <1>14 DEF TypeOK, Pairs
  <2>8. \A q \in Roles : Known(held[s][q], q)'
    <3>1. \A q \in Roles : Known(held[s][q], q)'
          \/ held'[s][q] = None
      BY <1>1, <1>6, <2>7, <1>14, KnownLater DEF SInv
    <3>. QED
      BY <3>1 DEF Known
  <2>9. \A q \in Roles : (Locking(s, q) /\ Named(s, q))'
    <3>1. \A q \in Roles : q \in ToLock(s)' => held'[s][q] # None
      BY DEF ToLock
    <3>2. \A q \in Roles : q # r /\ held'[s][q] # None => q \in ToLock(s)
      BY <1>14, <2>7 DEF ToLock
    <3>. QED
      BY <1>1, <1>2, <1>8, <1>14, <2>6, <2>7, <3>1, <3>2
      DEF SInv, Locking, Named, Looked, Running
  <2>10. \A q \in Roles : Sensible(s, q)'
    BY <1>1, <1>2, <1>3, <1>8, <1>14, <2>6, <2>7 DEF SInv, Sensible, Active, Running
  <2>11. l = "rereading" => Written(s)' = r
    BY <1>3, <1>8, <1>12 DEF Written, Roles
  <2>12. \A q \in Roles : Bytes(held'[s])[q] = IF held'[s][q] = None THEN None ELSE held'[s][q].bytes
    BY DEF Bytes
  <2>13. \A q \in Roles : Matching(s, q)'
    <3>1. ASSUME NEW q \in Roles, q # r, ack[s][q] # "not_written"
          PROVE  Bytes(held'[s])[q] = wanted[s][q]
      BY <1>1, <1>2, <2>7, <2>12, <3>1 DEF SInv, Matching, Active, Running, Bytes
    <3>2. l = "agent" => Bytes(held'[s])[r] = wanted[s][r]
      BY <1>3, <1>14, <2>7, <2>12
    <3>. QED
      BY <1>8, <1>14, <2>6, <2>11, <3>1, <3>2 DEF Matching
  <2>14. Ordered(s)'
    <3>1. \A q \in Roles : q = "agent" \/ q = "tests"
      BY DEF Roles
    <3>2. "agent" \in Roles /\ "tests" \in Roles
      BY DEF Roles
    <3>3. ack'[s]["tests"] = "written" => ack'[s]["agent"] # "not_written"
      BY <1>1, <1>2, <1>3, <1>8, <1>11, <3>1, <3>2 DEF SInv, Ordered, Active, Running
    <3>4. ~alone'[s]
      BY <1>14
    <3>. QED
      BY <1>3, <1>8, <1>14, <2>6, <2>11, <3>3, <3>4 DEF Ordered
  <2>15. (Beside(s) /\ Whole(s))'
    BY <2>6 DEF Beside, Whole
  <2>16. SInv(s)'
    BY <1>9, <2>8, <2>9, <2>10, <2>13, <2>14, <2>15 DEF SInv
  <2>. QED
    BY <1>2, <1>6, <2>3, <2>5, <2>16, EffectStep
<1>15. \/ alone[s] /\ Finish(s, "complete")
       \/ ~alone[s] /\ wanted[s][r] # None /\ Continue(s, "rereading")
       \/ /\ ~alone[s] /\ wanted[s][r] = None /\ Goto(s, "agent")
          /\ held' = [held EXCEPT ![s][r] = None]
          /\ wanted' = wanted /\ alone' = alone /\ locks' = locks
  BY DEF Put
<1>. QED
  <2>1. CASE alone[s] /\ Finish(s, "complete")
    BY <1>13, <2>1
  <2>2. CASE ~alone[s] /\ wanted[s][r] # None /\ Continue(s, "rereading")
    BY <1>14, <2>2 DEF Continue
  <2>3. CASE /\ ~alone[s] /\ wanted[s][r] = None /\ Goto(s, "agent")
             /\ held' = [held EXCEPT ![s][r] = None]
             /\ wanted' = wanted /\ alone' = alone /\ locks' = locks
    BY <1>14, <2>3
  <2>. QED
    BY <1>15, <2>1, <2>2, <2>3

LEMMA PutRefusedStep ==
  ASSUME IInv, NEW s \in Savers, PutRefused(s)
  PROVE  IInv'
<1>. DEFINE r == Next1(s)
<1>1. TypeOK /\ SInv(s)
  BY DEF IInv
<1>2. /\ Finish(s, "refused") /\ Observe /\ pc[s] = "ready"
      /\ ack' = [ack EXCEPT ![s][r] = IF wanted[s][r] = None THEN "unknown" ELSE @]
      /\ file' = file /\ faults' = faults /\ put' = put /\ meddled' = meddled
  BY DEF PutRefused, Untouched
<1>3. r \in Roles
  BY DEF Next1, Roles
<1>4. ack' \in [Savers -> [Roles -> {"unchanged", "not_written", "written", "unknown"}]]
  BY <1>1, <1>2, <1>3 DEF TypeOK
<1>5. \A q \in Roles : ack'[s][q] \in {ack[s][q], "unknown"}
  BY <1>1, <1>2, <1>3 DEF TypeOK
<1>6. TypeOK'
  BY <1>1, <1>2, <1>4, FinishTypes, TypeOfStep DEF TypeOK, Finished
<1>7. Later
  BY <1>1, <1>2, LaterOf
<1>8. \A o \in Savers : o # s => Quiet(o)
  BY <1>1, <1>2 DEF TypeOK, Quiet, Finish, Goto
<1>9. \A q \in Roles : Told(s, q)'
  BY <1>1, <1>2, <1>5 DEF SInv, Told
<1>10. SInv(s)'
  BY <1>2, <1>9, FinishedInv
<1>. QED
  BY <1>2, <1>6, <1>7, <1>8, <1>10, StillStep

LEMMA PutFailsStep ==
  ASSUME IInv, NEW s \in Savers, PutFails(s)
  PROVE  IInv'
<1>. DEFINE r == Next1(s)
<1>1. TypeOK /\ SInv(s)
  BY DEF IInv
<1>2. /\ Finish(s, "refused") /\ Observe /\ pc[s] = "ready" /\ faults < MaxFaults
      /\ ack' = [ack EXCEPT ![s][r] = "unknown"]
      /\ faults' = faults + 1 /\ meddled' = meddled
      /\ (~Fails(s, r) /\ Effect(s, r)) \/ (file' = file /\ put' = put)
  BY DEF PutFails
<1>3. r \in Roles
  BY DEF Next1, Roles
<1>4. ack' \in [Savers -> [Roles -> {"unchanged", "not_written", "written", "unknown"}]]
  BY <1>1, <1>2, <1>3 DEF TypeOK
<1>5. ack'[s][r] = "unknown" /\ \A q \in Roles : q # r => ack'[s][q] = ack[s][q]
  BY <1>1, <1>2, <1>3 DEF TypeOK
<1>6. file' \in Pairs /\ put' \in [Savers -> SUBSET Roles]
  BY <1>1, <1>2, <1>3, EffectTypes DEF TypeOK
<1>7. put' = put \/ put' = [put EXCEPT ![s] = @ \cup {r}]
  BY <1>2 DEF Effect
<1>8. faults' \in 0 .. MaxFaults
  BY <1>1, <1>2, BoundAssumption DEF TypeOK
<1>9. TypeOK'
  BY <1>1, <1>2, <1>4, <1>6, <1>8, FinishTypes, TypeOfStep DEF Finished
<1>10. Later
  BY <1>1, <1>2, <1>7, LaterOf DEF TypeOK
<1>11. \A o \in Savers : o # s => Quiet(o)
  BY <1>1, <1>2, <1>7 DEF TypeOK, Quiet, Finish, Goto
<1>12. \A q \in Roles : q # r => (q \in put'[s] <=> q \in put[s])
  BY <1>1, <1>7 DEF TypeOK
<1>13. \A q \in Roles : Told(s, q)'
  BY <1>1, <1>2, <1>5, <1>12 DEF SInv, Told
<1>14. SInv(s)'
  BY <1>2, <1>13, FinishedInv
<1>15. CASE ~Fails(s, r) /\ Effect(s, r)
  BY <1>2, <1>9, <1>10, <1>11, <1>14, <1>15, EffectStep
<1>16. CASE file' = file /\ put' = put
  BY <1>2, <1>9, <1>10, <1>11, <1>14, <1>16, StillStep
<1>. QED
  BY <1>2, <1>15, <1>16


LEMMA RereadStep ==
  ASSUME IInv, NEW s \in Savers, Reread(s)
  PROVE  IInv'
<1>. PICK w \in Roles : w = Written(s)
  BY DEF Written, Roles
<1>1. TypeOK /\ SInv(s)
  BY DEF IInv
<1>2. /\ pc[s] = "rereading" /\ Observe
      /\ file' = file /\ faults' = faults /\ put' = put /\ meddled' = meddled
  BY DEF Reread, Untouched
<1>3. w \in Roles /\ ack[s][w] = "written" /\ wanted[s][w] # None /\ ~alone[s]
  BY <1>1, <1>2 DEF Written, Roles, SInv, Ordered
<1>4. Later
  BY <1>1, <1>2, LaterOf
<1>5. ASSUME held' = [held EXCEPT ![s][w] = Fresh(s)], Goto(s, "agent"), ack' = ack,
             wanted' = wanted, alone' = alone, locks' = locks
      PROVE  IInv'
  <2>1. Fresh(s) \in Files
    BY FreshIsFile DEF Makers
  <2>2. held' \in [Savers -> Pairs]
    BY <1>1, <1>3, <1>5, <2>1 DEF TypeOK, Pairs
  <2>3. pc' = [pc EXCEPT ![s] = "agent"] /\ "agent" \in Active \cup Finished
    BY <1>5 DEF Goto, Active, Running
  <2>4. TypeOK'
    BY <1>1, <1>2, <1>5, <2>2, <2>3, TypeOfStep DEF TypeOK
  <2>5. \A o \in Savers : o # s => Quiet(o)
    BY <1>1, <1>2, <1>5, <2>3 DEF TypeOK, Quiet
  <2>6. pc'[s] = "agent"
    BY <1>1, <2>3 DEF TypeOK
  <2>7. held'[s][w] = Fresh(s) /\ \A q \in Roles : q # w => held'[s][q] = held[s][q]
    BY <1>1, <1>3, <1>5 DEF TypeOK, Pairs
  <2>8. w \in put[s]
    BY <1>1, <1>2, <1>3 DEF SInv, Told
  <2>9. Known(Fresh(s), w)'
    BY <1>2, <2>8 DEF Known, Fresh
  <2>10. \A q \in Roles : Known(held[s][q], q)'
    <3>1. ASSUME NEW q \in Roles PROVE Known(held[s][q], q)'
      <4>1. CASE q = w
        BY <2>7, <2>9, <4>1 DEF Known
      <4>2. CASE q # w
        BY <1>1, <1>4, <2>7, <4>2, KnownLater DEF SInv
      <4>. QED
        BY <4>1, <4>2
    <3>. QED
      BY <3>1
  <2>11. \A q \in Roles : (Locking(s, q) /\ Named(s, q))'
    <3>1. \A q \in Roles : q # w /\ q \in ToLock(s)' => q \in ToLock(s)
      BY <1>5, <2>7 DEF ToLock
    <3>. QED
      BY <1>1, <1>2, <1>3, <1>5, <2>6, <2>7, <3>1 DEF SInv, Locking, Named, Looked, Running
  <2>12. \A q \in Roles : Sensible(s, q)'
    BY <1>1, <1>2, <1>3, <1>5, <2>6, <2>7 DEF SInv, Sensible, Active, Running
  <2>13. \A q \in Roles : Bytes(held'[s])[q] = IF held'[s][q] = None THEN None ELSE held'[s][q].bytes
    BY DEF Bytes
  <2>14. \A q \in Roles : Matching(s, q)'
    <3>1. ASSUME NEW q \in Roles, q # w, ack[s][q] # "not_written"
          PROVE  Bytes(held'[s])[q] = wanted[s][q]
      BY <1>1, <1>2, <2>7, <2>13, <3>1 DEF SInv, Matching, Active, Running, Bytes
    <3>2. wanted[s][w] = s
      BY <1>1, <1>2, <1>3 DEF SInv, Sensible, Active, Running
    <3>3. Fresh(s) # None /\ Fresh(s).bytes = s
      BY FreshIsFile DEF Fresh, Makers
    <3>4. Bytes(held'[s])[w] = wanted[s][w]
      BY <1>3, <2>7, <2>13, <3>2, <3>3
    <3>. QED
      BY <1>5, <2>6, <3>1, <3>4 DEF Matching
  <2>15. Ordered(s)'
    BY <1>1, <1>2, <1>3, <1>5, <2>6 DEF SInv, Ordered, Active, Running
  <2>16. \A q \in Roles : Told(s, q)'
    BY <1>1, <1>2, <1>5, <2>6 DEF SInv, Told
  <2>17. (Beside(s) /\ Whole(s))'
    BY <2>6 DEF Beside, Whole
  <2>18. SInv(s)'
    BY <2>10, <2>11, <2>12, <2>14, <2>15, <2>16, <2>17 DEF SInv
  <2>. QED
    BY <1>2, <1>4, <2>4, <2>5, <2>18, StillStep
<1>6. ASSUME ack' = [ack EXCEPT ![s][w] = "unknown"], Finish(s, "refused")
      PROVE  IInv'
  <2>1. ack' \in [Savers -> [Roles -> {"unchanged", "not_written", "written", "unknown"}]]
    BY <1>1, <1>3, <1>6 DEF TypeOK
  <2>2. TypeOK'
    BY <1>1, <1>2, <1>6, <2>1, FinishTypes, TypeOfStep DEF TypeOK, Finished
  <2>3. \A o \in Savers : o # s => Quiet(o)
    BY <1>1, <1>2, <1>6 DEF TypeOK, Quiet, Finish, Goto
  <2>4. \A q \in Roles : ack'[s][q] \in {ack[s][q], "unknown"}
    BY <1>1, <1>3, <1>6 DEF TypeOK
  <2>5. \A q \in Roles : Told(s, q)'
    BY <1>1, <1>2, <2>4 DEF SInv, Told
  <2>6. SInv(s)'
    BY <1>6, <2>5, FinishedInv
  <2>. QED
    BY <1>2, <1>4, <2>2, <2>3, <2>6, StillStep
<1>. QED
  BY <1>5, <1>6 DEF Reread

LEMMA StutterStep ==
  ASSUME IInv, UNCHANGED vars
  PROVE  IInv'
<1>1. TypeOK' /\ Later
  BY BoundAssumption DEF IInv, TypeOK, vars, Later
<1>2. \A o \in Savers : Quiet(o)
  BY DEF vars, Quiet
<1>3. \A o \in Savers : SInv(o)'
  BY <1>1, <1>2, FrameStill DEF IInv, vars
<1>4. \A r \in Roles : Known(file[r], r)'
  BY <1>1, KnownLater DEF IInv, vars
<1>5. (~untested => file["tests"] # None)'
  BY DEF IInv, vars
<1>. QED
  BY <1>1, <1>3, <1>4, <1>5 DEF IInv

\* Nothing has happened yet.
LEMMA InitIInv == Init => IInv
<1>. SUFFICES ASSUME Init PROVE IInv
  OBVIOUS
<1>1. Fresh(0) \in Files /\ Nothing \in Pairs /\ Nothing \in Contents
  BY FreshIsFile, BoundAssumption DEF Makers
<1>2. file \in Pairs /\ faults \in 0 .. MaxFaults
  BY <1>1, BoundAssumption DEF Init, Pairs
<1>3. /\ pc \in [Savers -> {"idle"}] /\ held \in [Savers -> Pairs]
      /\ wanted \in [Savers -> Contents] /\ alone \in [Savers -> BOOLEAN]
  BY <1>1 DEF Init
<1>4. /\ locks \in [Savers -> SUBSET (Roles \X Makers)] /\ put \in [Savers -> SUBSET Roles]
      /\ \A s, o \in Savers : s # o => locks[s] \cap locks[o] = {}
  BY DEF Init
<1>5. ack \in [Savers -> [Roles -> {"unchanged"}]]
  BY DEF Init
<1>6. whole \subseteq Savers /\ meddled \subseteq Roles
  BY DEF Init
<1>7. untested \in BOOLEAN /\ (~untested => file["tests"] # None)
  <2>1. untested = (file["tests"] = None)
    BY DEF Init
  <2>. QED
    BY <2>1, Zenon
<1>8. pc \in [Savers -> Roles \cup {"idle", "locking", "ready", "rereading",
                                    "complete", "refused", "crashed"}]
  BY <1>3
<1>9. ack \in [Savers -> [Roles -> {"unchanged", "not_written", "written", "unknown"}]]
  BY <1>5
<1>10. TypeOK
  BY <1>2, <1>3, <1>4, <1>6, <1>7, <1>8, <1>9 DEF TypeOK
<1>11. \A r \in Roles : Known(file[r], r)
  <2>1. \A r \in Roles : file[r] \in {Fresh(0), None}
    BY DEF Init
  <2>2. Fresh(0).bytes = 0 /\ Fresh(0).ino = 0 /\ 0 \in 0 .. faults /\ 0 \notin Savers
    BY SaversAssumption DEF Fresh, Init
  <2>. QED
    BY <2>1, <2>2 DEF Known
<1>12. ASSUME NEW s \in Savers PROVE SInv(s)
  <2>1. /\ pc[s] = "idle" /\ put[s] = {}
        /\ \A r \in Roles : held[s][r] = None /\ ack[s][r] = "unchanged"
    BY DEF Init, Nothing
  <2>2. \A r \in Roles : /\ Known(held[s][r], r) /\ Locking(s, r) /\ Named(s, r)
                         /\ Sensible(s, r) /\ Matching(s, r) /\ Told(s, r)
    BY <2>1 DEF Known, Locking, Named, Looked, Sensible, Matching, Told, Active, Running
  <2>3. Ordered(s) /\ Beside(s) /\ Whole(s)
    BY <2>1 DEF Ordered, Beside, Whole, Active, Running
  <2>. QED
    BY <2>2, <2>3 DEF SInv
<1>. QED
  BY <1>7, <1>10, <1>11, <1>12 DEF IInv

\* The invariant holds of every behaviour, whatever the number of savers, crashes
\* and changes from outside.
THEOREM Inductive == Spec => []IInv
<1>1. Init => IInv
  BY InitIInv
<1>2. ASSUME IInv, [Next]_vars PROVE IInv'
  <2>1. ASSUME NEW s \in Savers, Save(s) PROVE IInv'
    <3>1. CASE EditPair(s) \/ SaveAlone(s)
      BY <3>1, <1>2, HoldStep
    <3>2. CASE Lock(s)
      BY <3>2, <1>2, LockStep
    <3>3. CASE Refuse(s)
      BY <3>3, <1>2, RefuseStep
    <3>4. CASE Verify(s)
      BY <3>4, <1>2, VerifyStep
    <3>5. CASE Put(s)
      BY <3>5, <1>2, PutStep
    <3>6. CASE PutRefused(s)
      BY <3>6, <1>2, PutRefusedStep
    <3>7. CASE PutFails(s)
      BY <3>7, <1>2, PutFailsStep
    <3>8. CASE Reread(s)
      BY <3>8, <1>2, RereadStep
    <3>9. CASE Crash(s)
      BY <3>9, <1>2, CrashStep
    <3>. QED
      BY <2>1, <3>1, <3>2, <3>3, <3>4, <3>5, <3>6, <3>7, <3>8, <3>9 DEF Save
  <2>2. ASSUME NEW r \in Roles, Meddle(r) PROVE IInv'
    BY <1>2, <2>2, MeddleStep
  <2>3. CASE UNCHANGED vars
    BY <1>2, <2>3, StutterStep
  <2>. QED
    BY <1>2, <2>1, <2>2, <2>3 DEF Next
<1>. QED
  BY <1>1, <1>2, PTL DEF Spec

-----------------------------------------------------------------------------
(* What follows *)

\* Every variable has its type, and a file is never locked by two saves, in every
\* behaviour.
THEOREM TypeCorrect == Spec => []TypeOK
<1>1. IInv => TypeOK
  BY DEF IInv
<1>. QED
  BY <1>1, Inductive, PTL

\* Only Put and PutFails give a name to a save's history, and only the name that
\* is next.
LEMMA WhoPuts ==
  ASSUME IInv, Next, NEW s \in Savers, NEW r \in put'[s] \ put[s]
  PROVE  pc[s] = "ready" /\ ~Fails(s, Next1(s)) /\ r = Next1(s)
<1>1. put \in [Savers -> SUBSET Roles]
  BY DEF IInv, TypeOK
<1>2. ASSUME NEW o \in Savers, pc[o] = "ready", ~Fails(o, Next1(o)), Effect(o, Next1(o))
      PROVE  pc[s] = "ready" /\ ~Fails(s, Next1(s)) /\ r = Next1(s)
  <2>1. o = s
    BY <1>1, <1>2 DEF Effect
  <2>2. r = Next1(s)
    BY <1>1, <1>2, <2>1 DEF Effect
  <2>. QED
    BY <1>2, <2>1, <2>2
<1>3. ASSUME put' = put PROVE FALSE
  BY <1>3
<1>4. ASSUME NEW o \in Savers, Save(o)
      PROVE  put' = put \/ (pc[o] = "ready" /\ ~Fails(o, Next1(o)) /\ Effect(o, Next1(o)))
  <2>1. CASE EditPair(o) \/ SaveAlone(o) \/ Lock(o) \/ Refuse(o) \/ Verify(o) \/ PutRefused(o)
             \/ Reread(o) \/ Crash(o)
    BY <2>1 DEF EditPair, SaveAlone, Hold, Lock, Refuse, Verify, PutRefused, Reread, Crash, Untouched
  <2>2. CASE Put(o) \/ PutFails(o)
    BY <2>2 DEF Put, PutFails
  <2>. QED
    BY <1>4, <2>1, <2>2 DEF Save
<1>5. ASSUME NEW q \in Roles, Meddle(q) PROVE put' = put
  BY <1>5 DEF Meddle
<1>. QED
  BY <1>2, <1>3, <1>4, <1>5 DEF Next

\* A save overwrites the version it has read and no other one, whatever the number
\* of savers: only a file put under the name from outside can go unseen, and never
\* under a name that was empty.
THEOREM NoSaveIsLost == Spec => NoLostUpdate
<1>1. ASSUME IInv, Next, NEW s \in Savers, NEW r \in put'[s] \ put[s]
      PROVE  file[r] = held[s][r] \/ (r \in meddled /\ held[s][r] # None)
  <2>1. pc[s] = "ready" /\ ~Fails(s, Next1(s)) /\ r = Next1(s)
    BY <1>1, WhoPuts
  <2>. QED
    BY <1>1, <2>1, AboutToPut
<1>2. IInv /\ [Next]_vars =>
        [\A s \in Savers : \A r \in put'[s] \ put[s] :
           file[r] = held[s][r] \/ (r \in meddled /\ held[s][r] # None)]_vars
  BY <1>1
<1>. QED
  BY <1>2, Inductive, PTL DEF Spec, NoLostUpdate

\* While there have been tests and nobody outside acted, a file is replaced only
\* beside the file it was validated with, whatever the number of savers.
THEOREM NeverMixed == Spec => PairsDoNotMix
<1>1. ASSUME IInv, Next, NEW s \in Savers, NEW r \in put'[s] \ put[s],
             ~untested, meddled = {}
      PROVE  file[Other(r)] = held[s][Other(r)]
  <2>1. pc[s] = "ready" /\ r = Next1(s)
    BY <1>1, WhoPuts
  <2>2. r \in Roles /\ Other(r) \in Roles
    BY <2>1 DEF Next1, Other, Roles
  <2>. QED
    BY <1>1, <2>1, <2>2 DEF IInv, SInv, Beside, Calm
<1>2. IInv /\ [Next]_vars =>
        [\A s \in Savers : \A r \in put'[s] \ put[s] :
           ~untested /\ meddled = {} => file[Other(r)] = held[s][Other(r)]]_vars
  BY <1>1
<1>. QED
  BY <1>2, Inductive, PTL DEF Spec, PairsDoNotMix

\* What a save reports of each name is true, and a complete pair with tests has
\* been on disk at one moment, whatever the number of savers and faults.
THEOREM ReportsAreTrue == Spec => []ReportIsTrue
<1>1. IInv => ReportIsTrue
  BY DEF IInv, SInv, Told, Whole, ReportIsTrue
<1>. QED
  BY <1>1, Inductive, PTL
=============================================================================
