--------------------------- MODULE PairPublication ---------------------------
(***************************************************************************)
(* The two source files of an agent, its definition and its tests, and the   *)
(* processes that save them: the pair editor, which publishes both, and the   *)
(* recorder and the single-file editor, which replace one beside the other.   *)
(* A save holds the versions it read, takes the flock of the files it        *)
(* replaces, verifies every name and renames its staged bytes over them, one  *)
(* name after the other.  A flock belongs to an inode, so a name that was     *)
(* replaced is no longer locked, and an editor outside takes no lock.         *)
(***************************************************************************)
EXTENDS Naturals

CONSTANTS
  Savers,     \* one save each, by processes of their own
  None,       \* a name without a file
  MaxFaults   \* crashes, failing renames and changes from outside

ASSUME NoneAssumption ==
  /\ None \notin Savers \cup Nat
  /\ None \notin [ino : Savers \cup Nat, bytes : Savers \cup Nat]
ASSUME SaversAssumption == \A s \in Savers : s \notin Nat
ASSUME BoundAssumption == MaxFaults \in Nat

VARIABLES
  file,      \* what each name holds
  pc,        \* where each save is
  held,      \* the versions it has read and keeps open
  wanted,    \* the bytes it wants under each name
  alone,     \* it replaces one file only: a recording, or a single-file edit
  locks,     \* the files it has locked
  ack,       \* what it says of each name
  faults,
  put,       \* history: the names under which its rename or removal took effect
  whole,     \* history: the saves whose wanted pair was on disk at some moment
  meddled,   \* history: the names that were changed from outside
  untested   \* history: there has been a moment without tests

saver == <<pc, held, wanted, alone, locks, ack>>
history == <<put, whole, meddled, untested>>
vars == <<file, pc, held, wanted, alone, locks, ack, faults, put, whole, meddled, untested>>

Roles == {"agent", "tests"}
Other(r) == CHOOSE o \in Roles : o # r

\* Inodes and bytes are named by who made them: 0 was there from the start, a
\* number above it is somebody outside.
Makers == Savers \cup (0 .. MaxFaults)
Files == [ino : Makers, bytes : Makers]
Pairs == [Roles -> Files \cup {None}]
Contents == [Roles -> Makers \cup {None}]
Fresh(s) == [ino |-> s, bytes |-> s]
Nothing == [r \in Roles |-> None]
Bytes(pair) == [r \in Roles |-> IF pair[r] = None THEN None ELSE pair[r].bytes]

Init ==
  /\ file \in [Roles -> {Fresh(0), None}]
  /\ file["agent"] = None => file["tests"] = None
  /\ pc = [s \in Savers |-> "idle"]
  /\ held = [s \in Savers |-> Nothing]
  /\ wanted = [s \in Savers |-> Nothing]
  /\ alone = [s \in Savers |-> FALSE]
  /\ locks = [s \in Savers |-> {}]
  /\ ack = [s \in Savers |-> [r \in Roles |-> "unchanged"]]
  /\ faults = 0
  /\ put = [s \in Savers |-> {}]
  /\ whole = {}
  /\ meddled = {}
  /\ untested = (file["tests"] = None)

Goto(s, l) == pc' = [pc EXCEPT ![s] = l]

Continue(s, l) == Goto(s, l) /\ UNCHANGED <<held, wanted, alone, locks>>

\* The save returns, or its process is gone: its descriptors are closed.
Finish(s, l) ==
  /\ Goto(s, l)
  /\ held' = [held EXCEPT ![s] = Nothing]
  /\ locks' = [locks EXCEPT ![s] = {}]
  /\ wanted' = [wanted EXCEPT ![s] = IF l = "complete" THEN @ ELSE Nothing]
  /\ alone' = [alone EXCEPT ![s] = l = "complete" /\ @]

\* Whoever acts, the histories follow the two names.
Observe ==
  /\ whole' = whole \cup {s \in Savers : pc'[s] # "idle" /\ Bytes(file') = wanted'[s]}
  /\ untested' = (untested \/ file'["tests"] = None)

Untouched == UNCHANGED <<file, faults, put, meddled>>

-----------------------------------------------------------------------------
(* A save *)

\* facts: a name whose bytes change starts as not written.
Facts(pair, wants) ==
  [r \in Roles |-> IF Bytes(pair)[r] = wants[r] THEN "unchanged" ELSE "not_written"]

Hold(s, wants, single) ==
  /\ pc[s] = "idle"
  /\ held' = [held EXCEPT ![s] = file]
  /\ wanted' = [wanted EXCEPT ![s] = wants]
  /\ alone' = [alone EXCEPT ![s] = single]
  /\ ack' = [ack EXCEPT ![s] = Facts(file, wants)]
  /\ Goto(s, "locking")
  /\ UNCHANGED locks
  /\ Untouched /\ Observe

\* PublishSourcePair and the pair operations of the server: a create wants both
\* files where there is neither; an edit wants the bytes it read or its own, and
\* a restored version may be one without tests.
EditPair(s) ==
  \E wants \in [Roles -> {None, s} \cup {Bytes(file)[r] : r \in Roles}] :
    /\ wants["agent"] \in {Bytes(file)["agent"], s} \ {None}
    /\ wants["tests"] \in {Bytes(file)["tests"], s, None}
    /\ file["agent"] = None => file["tests"] = None /\ wants["tests"] = s
    /\ Hold(s, wants, FALSE)

\* A recording goes into the tests, or into the agent when there are none, and
\* the server's single-file edit wants an agent without tests.
SaveAlone(s) ==
  /\ file["agent"] # None
  /\ LET target == IF file["tests"] = None THEN "agent" ELSE "tests"
     IN Hold(s, [Bytes(file) EXCEPT ![target] = s], TRUE)

\* Mutant: a pair editor locks only what it replaces.
LockedIfChanged(s) ==
  {r \in Roles : held[s][r] # None /\ ack[s][r] # "unchanged"}

ToLock(s) ==
  {r \in Roles : held[s][r] # None /\ (alone[s] => ack[s][r] # "unchanged")}

\* A lock is of the file that is held, whatever its name holds by now.
Wanting(s) == {<<r, held[s][r].ino>> : r \in ToLock(s)}

\* Mutant: the lock is a shared one.
FreeOfMine(s) == Wanting(s) \cap locks[s] = {}

Free(s) == \A o \in Savers : Wanting(s) \cap locks[o] = {}

\* Mutant: what was read before the lock is not verified under it.
LockUnverified(s) ==
  /\ pc[s] = "locking"
  /\ Free(s)
  /\ locks' = [locks EXCEPT ![s] = Wanting(s)]
  /\ Goto(s, "ready")
  /\ UNCHANGED <<held, wanted, alone, ack>>
  /\ Untouched /\ Observe

\* Nobody waits for a lock: a file that is locked elsewhere is a refusal, so that
\* two locks may as well be taken at once, and with the first look under them.
Lock(s) ==
  /\ pc[s] = "locking"
  /\ Free(s)
  /\ file["agent"] = held[s]["agent"]
  /\ locks' = [locks EXCEPT ![s] = Wanting(s)]
  /\ Goto(s, "tests")
  /\ UNCHANGED <<held, wanted, alone, ack>>
  /\ Untouched /\ Observe

Pending(s) == {r \in Roles : ack[s][r] = "not_written"}
Next1(s) == IF "agent" \in Pending(s) THEN "agent" ELSE "tests"

\* An error of its own: a file that is locked elsewhere, a stage that cannot be
\* written, a caller that gave up.
Refuse(s) ==
  /\ pc[s] \in {"locking", "agent", "tests"}
  /\ Finish(s, "refused")
  /\ UNCHANGED ack
  /\ Untouched /\ Observe

\* checkPublishing and check: the held file still has its name and its bytes, and
\* a name that was empty is empty.  A held file has the bytes its inode has now.
Verify(s) ==
  /\ pc[s] \in Roles
  /\ file[pc[s]] = held[s][pc[s]]
  /\ IF pc[s] = "agent" THEN Continue(s, "tests")
     ELSE IF Pending(s) # {} THEN Continue(s, "ready")
     ELSE Finish(s, "complete")
  /\ UNCHANGED ack
  /\ Untouched /\ Observe

Effect(s, r) ==
  /\ file' = [file EXCEPT ![r] = IF wanted[s][r] = None THEN None ELSE Fresh(s)]
  /\ put' = [put EXCEPT ![s] = @ \cup {r}]

\* A removal of a name that is gone fails, and so does an exclusive rename onto a
\* name that is taken; a plain rename replaces what the name holds by now.
Fails(s, r) ==
  IF wanted[s][r] = None THEN file[r] = None ELSE held[s][r] = None /\ file[r] # None

\* Mutant: the pair editor is done with its last rename.
PutAndReturn(s) ==
  LET r == Next1(s) IN
  /\ pc[s] = "ready" /\ ~Fails(s, r)
  /\ Effect(s, r)
  /\ ack' = [ack EXCEPT ![s][r] = "written"]
  /\ IF Pending(s) = {r} THEN Finish(s, "complete")
     ELSE Continue(s, "rereading")
  /\ UNCHANGED <<faults, meddled>>
  /\ Observe

\* One rename or removal.  A save of one file is done with it.
Put(s) ==
  LET r == Next1(s) IN
  /\ pc[s] = "ready" /\ ~Fails(s, r)
  /\ Effect(s, r)
  /\ ack' = [ack EXCEPT ![s][r] = "written"]
  /\ IF alone[s] THEN Finish(s, "complete")
     ELSE IF wanted[s][r] # None THEN Continue(s, "rereading")
     ELSE /\ Goto(s, "agent")
          /\ held' = [held EXCEPT ![s][r] = None]
          /\ UNCHANGED <<wanted, alone, locks>>
  /\ UNCHANGED <<faults, meddled>>
  /\ Observe

\* The name that was to be new is taken: nothing was written.  Any other failure
\* says nothing of what became of the name.
PutRefused(s) ==
  LET r == Next1(s) IN
  /\ pc[s] = "ready" /\ Fails(s, r)
  /\ ack' = [ack EXCEPT ![s][r] = IF wanted[s][r] = None THEN "unknown" ELSE @]
  /\ Finish(s, "refused")
  /\ Untouched /\ Observe

PutFails(s) ==
  LET r == Next1(s) IN
  /\ pc[s] = "ready" /\ faults < MaxFaults
  /\ faults' = faults + 1
  /\ \/ ~Fails(s, r) /\ Effect(s, r)
     \/ UNCHANGED <<file, put>>
  /\ ack' = [ack EXCEPT ![s][r] = "unknown"]
  /\ Finish(s, "refused")
  /\ UNCHANGED meddled
  /\ Observe

Written(s) == IF ack[s]["tests"] = "written" THEN "tests" ELSE "agent"

\* The file under the name must be the one that was renamed; it is held from now
\* on, and its inode is not the one that is locked.
Reread(s) ==
  /\ pc[s] = "rereading"
  /\ IF file[Written(s)] = Fresh(s)
     THEN /\ held' = [held EXCEPT ![s][Written(s)] = Fresh(s)]
          /\ Goto(s, "agent")
          /\ UNCHANGED <<wanted, alone, locks, ack>>
     ELSE /\ ack' = [ack EXCEPT ![s][Written(s)] = "unknown"]
          /\ Finish(s, "refused")
  /\ Untouched /\ Observe

-----------------------------------------------------------------------------
(* The surroundings *)

Crash(s) ==
  /\ pc[s] \notin {"idle", "complete", "refused", "crashed"} /\ faults < MaxFaults
  /\ faults' = faults + 1
  /\ Finish(s, "crashed")
  /\ ack' = [ack EXCEPT ![s] = [r \in Roles |-> "unknown"]]
  /\ UNCHANGED <<file, put, meddled>>
  /\ Observe

\* An editor without locks replaces, rewrites or removes a file, or makes one.
Meddle(r) ==
  LET n == faults + 1 IN
  /\ faults < MaxFaults /\ faults' = n
  /\ \/ file' = [file EXCEPT ![r] = Fresh(n)]
     \/ file[r] # None /\ file' = [file EXCEPT ![r].bytes = n]
     \/ file[r] # None /\ file' = [file EXCEPT ![r] = None]
  /\ meddled' = meddled \cup {r}
  /\ UNCHANGED <<saver, put>>
  /\ Observe

Save(s) ==
  \/ EditPair(s) \/ SaveAlone(s)
  \/ Lock(s) \/ Refuse(s)
  \/ Verify(s) \/ Put(s) \/ PutRefused(s) \/ PutFails(s) \/ Reread(s) \/ Crash(s)

Next == (\E s \in Savers : Save(s)) \/ (\E r \in Roles : Meddle(r))

Spec == Init /\ [][Next]_vars

-----------------------------------------------------------------------------
(* Properties *)

\* Every variable has its type, and no file is locked by two saves: what locks
\* are for.
TypeOK ==
  /\ file \in Pairs
  /\ pc \in [Savers -> Roles \cup {"idle", "locking", "ready", "rereading",
                                   "complete", "refused", "crashed"}]
  /\ held \in [Savers -> Pairs]
  /\ wanted \in [Savers -> Contents]
  /\ alone \in [Savers -> BOOLEAN]
  /\ locks \in [Savers -> SUBSET (Roles \X Makers)]
  /\ ack \in [Savers -> [Roles -> {"unchanged", "not_written", "written", "unknown"}]]
  /\ faults \in 0 .. MaxFaults
  /\ put \in [Savers -> SUBSET Roles]
  /\ whole \subseteq Savers /\ meddled \subseteq Roles /\ untested \in BOOLEAN
  /\ \A s, o \in Savers : s # o => locks[s] \cap locks[o] = {}

\* A save overwrites the version it has read and no other one, so that no save
\* of another process is lost; only a file that an editor outside has put under
\* the name, after the last look at it, can go unseen.  Onto a name that was empty,
\* a save never overwrites anything, whoever acts.
NoLostUpdate ==
  [][\A s \in Savers : \A r \in put'[s] \ put[s] :
       file[r] = held[s][r] \/ (r \in meddled /\ held[s][r] # None)]_vars

\* While there have been tests and nobody outside acted, a file is replaced only
\* beside the very file that the save has validated it with, also when it locks
\* one of the two.  A crash or a failure between the two renames of one save still
\* leaves its first file beside the old second one: ReportIsTrue is about that.
PairsDoNotMix ==
  [][\A s \in Savers : \A r \in put'[s] \ put[s] :
       ~untested /\ meddled = {} => file[Other(r)] = held[s][Other(r)]]_vars

\* A save that returned says the truth of each name: it has not touched what it
\* calls unchanged or not written, it has put what it calls written, and a pair that
\* a pair editor calls complete has been on disk, both files at one moment.  (Of an
\* agent without tests it only knows that each name was right when it was last
\* looked at.)
ReportIsTrue ==
  \A s \in Savers : pc[s] \in {"complete", "refused"} =>
    /\ \A r \in Roles : ack[s][r] # "unknown" => (ack[s][r] = "written") = (r \in put[s])
    /\ pc[s] = "complete" /\ ~alone[s] /\ wanted[s]["tests"] # None => s \in whole
==============================================================================
