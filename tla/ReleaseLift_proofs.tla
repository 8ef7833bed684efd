------------------------- MODULE ReleaseLift_proofs -------------------------
(***************************************************************************)
(* The reservation protocol of ReleaseLift is safe for every number of      *)
(* attempts and hosts, whatever crashes and whatever arrives late.          *)
(***************************************************************************)
EXTENDS ReleaseLift, ReleaseRecord_proofs

-----------------------------------------------------------------------------
(* The inductive invariant, attempt by attempt *)

Early == {"idle", "planned", "confirmed", "prepared"}

\* From the acknowledged reservation until the write loop has been left.
Working == {"checking", "writing", "recording", "crediting", "waiting", "finishing", "settling"}

Ending == {"persisting", "releasing", "acking", "linking"} \cup Stopped

Reserved(a) == record # None /\ record.state.op = a

\* The reservation holds and the attempt's own copy of the record says so too.
Owns(a) ==
  /\ Reserved(a)
  /\ seen[a] # None /\ seen[a].state.op = a /\ seen[a].state.pending # None

\* What an attempt knows from its plan.
Planned(a) ==
  /\ pc[a] = "idle" => mode[a] = "none"
  /\ mode[a] = "none" => pc[a] = "idle"
  /\ mode[a] \in {"update", "noop"} =>
       /\ before[a] # None /\ before[a].state.op = None /\ before[a].state.history # << >>
       /\ seen[a] # None
       /\ proof[a] \in Pairs
       /\ pc[a] \in Early => seen[a] = before[a]
  /\ mode[a] = "reuse" => proof[a] \in Pairs
  /\ pc[a] \in {"confirmed", "prepared"} => mode[a] \in {"fresh", "mixed", "update"}
  /\ mode[a] = "noop" => pc[a] \in {"planned"} \cup Stopped
  /\ mode[a] = "none" \/ (mode[a] = "fresh" /\ pc[a] \in Early) => seen[a] = None

\* Where the write loop is, and what has been acknowledged so far.
Rows(a) ==
  /\ pc[a] \in Early => result[a] = "not-applied"
  /\ pc[a] \in Early \cup {"reserving"} => row[a] = 1
  /\ pc[a] \in {"checking", "writing", "recording", "crediting", "waiting"} => row[a] \in {1, 2}
  /\ row[a] \in {2, 3} => proof[a]["Provider"] # None
  /\ row[a] = 3 => proof[a]["Agent"] # None
  /\ pc[a] = "finishing" => row[a] = 3
  /\ pc[a] = "writing" => outcome[a][KindAt(row[a])] = "unknown"
  /\ pc[a] \in {"crediting", "waiting"} => proof[a][KindAt(row[a])] # None
  /\ pc[a] = "recording" /\ outcome[a][KindAt(row[a])] # "unknown" =>
       proof[a][KindAt(row[a])] # None
  /\ mode[a] = "fresh" /\ result[a] = "ready" => proof[a] \in Pairs /\ pc[a] \in Ending

\* Who may give the record back.
Finalizing(a) ==
  /\ known[a] => pc[a] \in Ending
  /\ Shared(a) /\ pc[a] \in Working \cup {"releasing"} => Owns(a)
  /\ pc[a] = "persisting" /\ MayRelease(a) => Owns(a) /\ late[a] = {}
  /\ pc[a] = "settling" => mode[a] = "update"
  /\ pc[a] \in {"reserving", "crediting"} => Shared(a)
  /\ pc[a] \in {"releasing", "acking", "linking"} =>
       Shared(a) /\ proof[a] \in Pairs
  /\ pc[a] \in {"acking", "linking"} => seen[a] # None /\ seen[a].state.history # << >>
  /\ pc[a] = "releasing" /\ (mode[a] = "fresh" \/ Changed(a)) =>
       sent[a].to.state.history # << >>

\* What can be on its way, and when.
Sending(a) ==
  /\ sent[a] # None <=> pc[a] \in Waiting
  /\ pc[a] = "writing" => sent[a].target = KindAt(row[a])
  /\ pc[a] \in {"reserving", "crediting", "releasing"} => sent[a].target = "record"
  /\ pc[a] \in {"reserving", "crediting"} =>
       sent[a].to.state.op = a /\ sent[a].to.state.pending # None
  /\ late[a] # {} => pc[a] \in {"recording", "persisting"} \cup Stopped
  /\ late[a] # {} /\ pc[a] = "recording" =>
       mode[a] # "update" /\ outcome[a][KindAt(row[a])] = "unknown"

\* Whom a request can concern.
Requested(a) ==
  \A r \in InFlight(a) :
    /\ r.target = "record" =>
         /\ Shared(a)
         /\ r.from # None => r.from.state.op \in {None, a} /\ r.to.uid = r.from.uid
         /\ r.to.state.op \in {None, a}
         /\ r.to.state.op = None =>
              /\ r.from # None /\ r.from.state.op = a
              /\ pc[a] \in {"releasing"} \cup Stopped
              /\ \A q \in InFlight(a) : q.target = "record"
    /\ r.target \in Kinds =>
         /\ mode[a] \in {"fresh", "update", "mixed"}
         /\ r.to.lift = a
         /\ Shared(a) => Reserved(a)
         /\ mode[a] = "mixed" => r.from = None

\* Whom the record can name.
Named(a) == Reserved(a) => Shared(a) /\ pc[a] \notin Early

AttemptInv(a) ==
  Planned(a) /\ Rows(a) /\ Finalizing(a) /\ Sending(a) /\ Requested(a) /\ Named(a)

IInv == TypeOK /\ \A a \in Attempts : AttemptInv(a)

\* What is acknowledged object by object is acknowledged as a pair.
LEMMA WholePair ==
  ASSUME NEW f \in [Kinds -> Fingerprints \cup {None}],
         f["Provider"] # None, f["Agent"] # None
  PROVE  f \in Pairs
<1>1. \A k \in Kinds : f[k] \in Fingerprints
  BY DEF Kinds
<1>. QED
  BY <1>1 DEF Pairs

\* The identity of a live object is a fingerprint.
LEMMA FingerprintType ==
  ASSUME NEW o \in Objects
  PROVE  releaseObjectFingerprint(o) \in Fingerprints
BY DEF releaseObjectFingerprint, Objects, Fingerprints, Authors

-----------------------------------------------------------------------------
(* Requests *)

\* A replaced record is a record.
LEMMA NewVersion ==
  ASSUME NEW s \in Snapshots, NEW state \in ReleaseStates
  PROVE  /\ [s EXCEPT !.rv = @ + 1, !.state = state] \in Snapshots
         /\ [s EXCEPT !.rv = @ + 1, !.state = state].state = state
         /\ [s EXCEPT !.rv = @ + 1, !.state = state].uid = s.uid
<1>1. s.rv + 1 \in Nat
  BY DEF Snapshots
<1>2. \A n \in Nat : /\ [s EXCEPT !.rv = n, !.state = state] \in Snapshots
                     /\ [s EXCEPT !.rv = n, !.state = state].state = state
                     /\ [s EXCEPT !.rv = n, !.state = state].uid = s.uid
  BY DEF Snapshots
<1>. QED
  BY <1>1, <1>2

\* A patched object is an object.
LEMMA NewOwner ==
  ASSUME NEW o \in Objects, NEW spec \in Specs, NEW a \in Attempts
  PROVE  /\ patchReleaseUpdate(o, a, spec) \in Objects
         /\ patchReleaseUpdate(o, a, spec).lift = a
<1>1. o.rv + 1 \in Nat /\ (IF o.spec = spec THEN o.gen ELSE o.gen + 1) \in Nat
  BY DEF Objects
<1>2. \A n, g \in Nat : /\ [o EXCEPT !.gen = g, !.rv = n, !.spec = spec, !.lift = a] \in Objects
                        /\ [o EXCEPT !.gen = g, !.rv = n, !.spec = spec, !.lift = a].lift = a
  BY DEF Objects, Authors
<1>. QED
  BY <1>1, <1>2 DEF patchReleaseUpdate

\* A record request carries the attempt's own copy of the record as its test.
LEMMA RecordWriteType ==
  ASSUME TypeOK, NEW a \in Attempts, NEW state \in ReleaseStates
  PROVE  /\ RecordWrite(a, state) \in Requests
         /\ RecordWrite(a, state) # None
         /\ RecordWrite(a, state).target = "record"
         /\ RecordWrite(a, state).from = seen[a]
         /\ RecordWrite(a, state).to.state = state
         /\ seen[a] # None => RecordWrite(a, state).to.uid = seen[a].uid
<1>1. seen[a] \in Snapshots \cup {None}
  BY DEF TypeOK
<1>2. CASE seen[a] = None
  <2>1. [uid |-> a, rv |-> 1, state |-> state] \in Snapshots
    BY DEF Snapshots
  <2>. QED
    BY <1>2, <2>1, RequestAssumption DEF RecordWrite, Create, Requests
<1>3. CASE seen[a] # None
  <2>. DEFINE to == [seen[a] EXCEPT !.rv = @ + 1, !.state = state]
  <2>1. seen[a] \in Snapshots
    BY <1>1, <1>3
  <2>2. to \in Snapshots /\ to.state = state /\ to.uid = seen[a].uid
    BY <2>1, NewVersion
  <2>3. RecordWrite(a, state) = [target |-> "record", from |-> seen[a], to |-> to]
    BY <1>3 DEF RecordWrite
  <2>. HIDE DEF to
  <2>. QED
    BY <2>1, <2>2, <2>3, RequestAssumption DEF Requests
<1>. QED
  BY <1>2, <1>3

\* An object request signs the object; where nothing is, it only fills the gap.
LEMMA ObjectWriteType ==
  ASSUME TypeOK, NEW a \in Attempts, NEW k \in Kinds
  PROVE  /\ ObjectWrite(a, k) \in Requests
         /\ ObjectWrite(a, k) # None
         /\ ObjectWrite(a, k).target = k
         /\ ObjectWrite(a, k).to.lift = a
         /\ Missing(k) => ObjectWrite(a, k).from = None
<1>1. live[k] \in Objects \cup {None} /\ Package[a].spec[k] \in Specs
  BY PackageAssumption DEF TypeOK
<1>2. CASE Missing(k)
  <2>1. [uid |-> a, gen |-> 1, rv |-> 1, spec |-> Package[a].spec[k], lift |-> a] \in Objects
    BY <1>1 DEF Objects, Authors
  <2>. QED
    BY <1>2, <2>1, RequestAssumption DEF ObjectWrite, Create, Requests
<1>3. CASE ~Missing(k)
  <2>. DEFINE to == patchReleaseUpdate(live[k], a, Package[a].spec[k])
  <2>1. live[k] \in Objects
    BY <1>1, <1>3 DEF Missing
  <2>2. to \in Objects /\ to.lift = a
    BY <1>1, <2>1, NewOwner
  <2>3. ObjectWrite(a, k) = [target |-> k, from |-> live[k], to |-> to]
    BY <1>3 DEF ObjectWrite
  <2>. HIDE DEF to
  <2>. QED
    BY <1>3, <2>1, <2>2, <2>3, RequestAssumption DEF Requests
<1>. QED
  BY <1>2, <1>3

\* Serving a request keeps the server's state well-formed.
LEMMA ServeType ==
  ASSUME TypeOK, NEW r \in Requests, Serve(r)
  PROVE  /\ record' \in Snapshots \cup {None}
         /\ live' \in [Kinds -> Objects \cup {None}]
<1>1. CASE r.target = "record"
  <2>1. r.to \in Snapshots
    BY <1>1 DEF Requests, Kinds
  <2>. QED
    BY <1>1, <2>1 DEF Serve, TypeOK
<1>2. CASE r.target # "record"
  <2>1. r.target \in Kinds /\ r.to \in Objects
    BY <1>2 DEF Requests
  <2>. QED
    BY <1>2, <2>1 DEF Serve, TypeOK
<1>. QED
  BY <1>1, <1>2

-----------------------------------------------------------------------------
(* What a step leaves alone *)

Untouched(b) ==
  /\ pc'[b] = pc[b] /\ mode'[b] = mode[b] /\ row'[b] = row[b] /\ before'[b] = before[b]
  /\ seen'[b] = seen[b] /\ proof'[b] = proof[b] /\ outcome'[b] = outcome[b]
  /\ result'[b] = result[b] /\ known'[b] = known[b] /\ sent'[b] = sent[b] /\ late'[b] = late[b]

\* An attempt that a step does not touch keeps its invariant, as long as the step
\* does not change whether the record names it.
LEMMA Frame ==
  ASSUME NEW b \in Attempts, AttemptInv(b), Untouched(b), Reserved(b)' <=> Reserved(b)
  PROVE  AttemptInv(b)'
<1>1. Planned(b)'
  BY DEF Untouched, AttemptInv, Planned
<1>2. Rows(b)'
  BY DEF Untouched, AttemptInv, Rows
<1>3. Finalizing(b)'
  BY DEF Untouched, AttemptInv, Finalizing, Owns, MayRelease, Shared, Changed
<1>4. Sending(b)'
  BY DEF Untouched, AttemptInv, Sending
<1>5. Requested(b)'
  BY DEF Untouched, AttemptInv, Requested, InFlight, Shared
<1>6. Named(b)'
  BY DEF Untouched, AttemptInv, Named, Shared
<1>. QED
  BY <1>1, <1>2, <1>3, <1>4, <1>5, <1>6 DEF AttemptInv

-----------------------------------------------------------------------------
(* Planning *)

LEMMA RefuseStep ==
  ASSUME IInv, NEW a \in Attempts, Refuse(a)
  PROVE  TypeOK' /\ AttemptInv(a)'
<1>1. TypeOK /\ AttemptInv(a)
  BY DEF IInv
<1>2. TypeOK'
  BY <1>1 DEF Refuse, TypeOK, Goto, Locations, Locked, Stopped, cluster, memory, disk
<1>3. AttemptInv(a)'
  BY <1>1 DEF Refuse, TypeOK, Goto, Stopped, cluster, memory, disk, AttemptInv, Planned, Rows, Finalizing, Sending, Requested, Named, Owns, MayRelease, Shared, Changed, InFlight, Reserved, Early, Working, Ending, Waiting
<1>. QED
  BY <1>2, <1>3

\* An eligible record is free, has a baseline and a last revision.
LEMMA EligibleRecord ==
  ASSUME TypeOK, record # None, Eligible(record)
  PROVE  /\ record \in Snapshots
         /\ record.state.op = None /\ record.state.history # << >>
         /\ record.state.baseline \in Pairs
<1>1. record \in Snapshots /\ record.state \in ReleaseStates
  BY DEF TypeOK, Snapshots
<1>2. record.state.history \in Seq(Revisions) /\ record.state.history # << >>
  BY <1>1 DEF Eligible, ReleaseStates
<1>. DEFINE latest == Latest(record.state).lift
<1>3. latest \in Attempts
  <2>1. Latest(record.state) \in Revisions
    BY <1>2, LenProperties, EmptySeq, ElementOfSeq DEF Latest
  <2>. QED
    BY <2>1 DEF Revisions
<1>4. Retained(latest) /\ candidate[latest].objects = record.state.baseline
  BY DEF Eligible
<1>5. candidate[latest] \in Acknowledgments
  BY <1>3, <1>4 DEF Retained, TypeOK
<1>6. record.state.baseline \in Pairs
  BY <1>4, <1>5 DEF Acknowledgments
<1>. QED
  BY <1>1, <1>2, <1>6 DEF Eligible

LEMMA PlanUpdateStep ==
  ASSUME IInv, NEW a \in Attempts, PlanUpdate(a)
  PROVE  TypeOK' /\ AttemptInv(a)'
<1>1. TypeOK /\ AttemptInv(a)
  BY DEF IInv
<1>2. /\ record \in Snapshots /\ record # None
      /\ record.state.op = None /\ record.state.history # << >>
      /\ record.state.baseline \in Pairs
  BY <1>1, EligibleRecord DEF PlanUpdate
<1>3. /\ record.state.baseline \in [Kinds -> Fingerprints \cup {None}]
      /\ \A k \in Kinds : record.state.baseline[k] # None
  BY <1>2, NoneAssumption DEF Pairs
<1>4. TypeOK'
  BY <1>1, <1>2, <1>3
     DEF PlanUpdate, TypeOK, Goto, Locations, Modes, cluster, memory, disk
<1>5. /\ pc[a] = "idle" /\ pc'[a] = "planned" /\ mode'[a] \in {"update", "noop"}
      /\ before'[a] = record /\ seen'[a] = record /\ proof'[a] = record.state.baseline
      /\ row'[a] = row[a] /\ outcome'[a] = outcome[a] /\ result'[a] = result[a]
      /\ known'[a] = known[a] /\ sent' = sent /\ late' = late /\ record' = record
  BY <1>1 DEF PlanUpdate, TypeOK, Goto, cluster, disk
<1>6. Planned(a)'
  BY <1>2, <1>5 DEF Planned
<1>7. Rows(a)'
  BY <1>1, <1>3, <1>5 DEF AttemptInv, Rows, Kinds, Early
<1>8. Finalizing(a)'
  BY <1>1, <1>5 DEF AttemptInv, Finalizing, Working, Ending, Stopped
<1>9. Sending(a)' /\ Requested(a)' /\ Named(a)'
  BY <1>1, <1>5 DEF AttemptInv, Sending, Requested, Named, InFlight, Waiting, Reserved, Early, Stopped
<1>. QED
  BY <1>4, <1>6, <1>7, <1>8, <1>9 DEF AttemptInv

\* A plain deploy plans with what is there.
LEMMA PlanLiftStep ==
  ASSUME IInv, NEW a \in Attempts, PlanLift(a)
  PROVE  TypeOK' /\ AttemptInv(a)'
<1>1. TypeOK /\ AttemptInv(a)
  BY DEF IInv
<1>a. \A k \in Kinds : ~Missing(k) => releaseObjectFingerprint(live[k]) \in Fingerprints
  BY <1>1, FingerprintType DEF TypeOK, Missing
<1>b. /\ proof'[a] \in [Kinds -> Fingerprints \cup {None}]
      /\ mode'[a] = "reuse" => \A k \in Kinds : proof'[a][k] # None
  BY <1>1, <1>a, NoneAssumption DEF PlanLift, TypeOK
<1>c. mode'[a] = "reuse" => proof'[a] \in Pairs
  BY <1>b, WholePair DEF Kinds
<1>2. TypeOK'
  BY <1>1, <1>b, <1>c DEF PlanLift, Reusable, Modes, TypeOK, Locations, Locked, Stopped, Goto, cluster, memory, disk
<1>3. Planned(a)'
  BY <1>1, <1>b, <1>c DEF PlanLift, Reusable, Modes, TypeOK, Goto, cluster, memory, disk, AttemptInv, Planned, Rows, Finalizing, Sending, Requested, Named, Owns, MayRelease, Shared, Changed, InFlight, Reserved, Early, Working, Ending, Waiting, Stopped, Locked
<1>4. Rows(a)'
  BY <1>1, <1>b, <1>c DEF PlanLift, Reusable, Modes, TypeOK, Goto, cluster, memory, disk, AttemptInv, Planned, Rows, Finalizing, Sending, Requested, Named, Owns, MayRelease, Shared, Changed, InFlight, Reserved, Early, Working, Ending, Waiting, Stopped, Locked
<1>5. Finalizing(a)'
  BY <1>1, <1>b, <1>c DEF PlanLift, Reusable, Modes, TypeOK, Goto, cluster, memory, disk, AttemptInv, Planned, Rows, Finalizing, Sending, Requested, Named, Owns, MayRelease, Shared, Changed, InFlight, Reserved, Early, Working, Ending, Waiting, Stopped, Locked
<1>6. Sending(a)'
  BY <1>1, <1>b, <1>c DEF PlanLift, Reusable, Modes, TypeOK, Goto, cluster, memory, disk, AttemptInv, Planned, Rows, Finalizing, Sending, Requested, Named, Owns, MayRelease, Shared, Changed, InFlight, Reserved, Early, Working, Ending, Waiting, Stopped, Locked
<1>7. Requested(a)' /\ Named(a)'
  BY <1>1, <1>b, <1>c DEF PlanLift, Reusable, Modes, TypeOK, Goto, cluster, memory, disk, AttemptInv, Planned, Rows, Finalizing, Sending, Requested, Named, Owns, MayRelease, Shared, Changed, InFlight, Reserved, Early, Working, Ending, Waiting, Stopped, Locked
<1>. QED
  BY <1>2, <1>3, <1>4, <1>5, <1>6, <1>7 DEF AttemptInv

\* Guards and rechecks pass.
LEMMA ConfirmStep ==
  ASSUME IInv, NEW a \in Attempts, Confirm(a)
  PROVE  TypeOK' /\ AttemptInv(a)'
<1>1. TypeOK /\ AttemptInv(a)
  BY DEF IInv
<1>2. TypeOK'
  BY <1>1 DEF Confirm, Modes, TypeOK, Locations, Locked, Stopped, Goto, cluster, memory, disk
<1>3. Planned(a)'
  BY <1>1 DEF Confirm, Modes, TypeOK, Goto, cluster, memory, disk, AttemptInv, Planned, Rows, Finalizing, Sending, Requested, Named, Owns, MayRelease, Shared, Changed, InFlight, Reserved, Early, Working, Ending, Waiting, Stopped, Locked
<1>4. Rows(a)'
  BY <1>1 DEF Confirm, Modes, TypeOK, Goto, cluster, memory, disk, AttemptInv, Planned, Rows, Finalizing, Sending, Requested, Named, Owns, MayRelease, Shared, Changed, InFlight, Reserved, Early, Working, Ending, Waiting, Stopped, Locked
<1>5. Finalizing(a)'
  BY <1>1 DEF Confirm, Modes, TypeOK, Goto, cluster, memory, disk, AttemptInv, Planned, Rows, Finalizing, Sending, Requested, Named, Owns, MayRelease, Shared, Changed, InFlight, Reserved, Early, Working, Ending, Waiting, Stopped, Locked
<1>6. Sending(a)'
  BY <1>1 DEF Confirm, Modes, TypeOK, Goto, cluster, memory, disk, AttemptInv, Planned, Rows, Finalizing, Sending, Requested, Named, Owns, MayRelease, Shared, Changed, InFlight, Reserved, Early, Working, Ending, Waiting, Stopped, Locked
<1>7. Requested(a)' /\ Named(a)'
  BY <1>1 DEF Confirm, Modes, TypeOK, Goto, cluster, memory, disk, AttemptInv, Planned, Rows, Finalizing, Sending, Requested, Named, Owns, MayRelease, Shared, Changed, InFlight, Reserved, Early, Working, Ending, Waiting, Stopped, Locked
<1>. QED
  BY <1>2, <1>3, <1>4, <1>5, <1>6, <1>7 DEF AttemptInv

\* An update with nothing to do.
LEMMA VerifyNoopStep ==
  ASSUME IInv, NEW a \in Attempts, VerifyNoop(a)
  PROVE  TypeOK' /\ AttemptInv(a)'
<1>1. TypeOK /\ AttemptInv(a)
  BY DEF IInv
<1>2. TypeOK'
  BY <1>1 DEF VerifyNoop, TypeOK, Locations, Locked, Stopped, Goto, cluster, memory, disk
<1>3. Planned(a)'
  BY <1>1 DEF VerifyNoop, TypeOK, Goto, cluster, memory, disk, AttemptInv, Planned, Rows, Finalizing, Sending, Requested, Named, Owns, MayRelease, Shared, Changed, InFlight, Reserved, Early, Working, Ending, Waiting, Stopped, Locked
<1>4. Rows(a)'
  BY <1>1 DEF VerifyNoop, TypeOK, Goto, cluster, memory, disk, AttemptInv, Planned, Rows, Finalizing, Sending, Requested, Named, Owns, MayRelease, Shared, Changed, InFlight, Reserved, Early, Working, Ending, Waiting, Stopped, Locked
<1>5. Finalizing(a)'
  BY <1>1 DEF VerifyNoop, TypeOK, Goto, cluster, memory, disk, AttemptInv, Planned, Rows, Finalizing, Sending, Requested, Named, Owns, MayRelease, Shared, Changed, InFlight, Reserved, Early, Working, Ending, Waiting, Stopped, Locked
<1>6. Sending(a)'
  BY <1>1 DEF VerifyNoop, TypeOK, Goto, cluster, memory, disk, AttemptInv, Planned, Rows, Finalizing, Sending, Requested, Named, Owns, MayRelease, Shared, Changed, InFlight, Reserved, Early, Working, Ending, Waiting, Stopped, Locked
<1>7. Requested(a)' /\ Named(a)'
  BY <1>1 DEF VerifyNoop, TypeOK, Goto, cluster, memory, disk, AttemptInv, Planned, Rows, Finalizing, Sending, Requested, Named, Owns, MayRelease, Shared, Changed, InFlight, Reserved, Early, Working, Ending, Waiting, Stopped, Locked
<1>. QED
  BY <1>2, <1>3, <1>4, <1>5, <1>6, <1>7 DEF AttemptInv

\* The attempt directory is prepared.
LEMMA PrepareStep ==
  ASSUME IInv, NEW a \in Attempts, Prepare(a)
  PROVE  TypeOK' /\ AttemptInv(a)'
<1>1. TypeOK /\ AttemptInv(a)
  BY DEF IInv
<1>2. TypeOK'
  BY <1>1 DEF Prepare, TypeOK, Locations, Locked, Stopped, Goto, cluster, memory, disk
<1>3. Planned(a)'
  BY <1>1 DEF Prepare, TypeOK, Goto, cluster, memory, disk, AttemptInv, Planned, Rows, Finalizing, Sending, Requested, Named, Owns, MayRelease, Shared, Changed, InFlight, Reserved, Early, Working, Ending, Waiting, Stopped, Locked
<1>4. Rows(a)'
  BY <1>1 DEF Prepare, TypeOK, Goto, cluster, memory, disk, AttemptInv, Planned, Rows, Finalizing, Sending, Requested, Named, Owns, MayRelease, Shared, Changed, InFlight, Reserved, Early, Working, Ending, Waiting, Stopped, Locked
<1>5. Finalizing(a)'
  BY <1>1 DEF Prepare, TypeOK, Goto, cluster, memory, disk, AttemptInv, Planned, Rows, Finalizing, Sending, Requested, Named, Owns, MayRelease, Shared, Changed, InFlight, Reserved, Early, Working, Ending, Waiting, Stopped, Locked
<1>6. Sending(a)'
  BY <1>1 DEF Prepare, TypeOK, Goto, cluster, memory, disk, AttemptInv, Planned, Rows, Finalizing, Sending, Requested, Named, Owns, MayRelease, Shared, Changed, InFlight, Reserved, Early, Working, Ending, Waiting, Stopped, Locked
<1>7. Requested(a)' /\ Named(a)'
  BY <1>1 DEF Prepare, TypeOK, Goto, cluster, memory, disk, AttemptInv, Planned, Rows, Finalizing, Sending, Requested, Named, Owns, MayRelease, Shared, Changed, InFlight, Reserved, Early, Working, Ending, Waiting, Stopped, Locked
<1>. QED
  BY <1>2, <1>3, <1>4, <1>5, <1>6, <1>7 DEF AttemptInv

-----------------------------------------------------------------------------
(* The reservation and the write loop *)

\* The record is created or reserved.
LEMMA ReserveStep ==
  ASSUME IInv, NEW a \in Attempts, Reserve(a)
  PROVE  TypeOK' /\ AttemptInv(a)'
<1>1. TypeOK /\ AttemptInv(a)
  BY DEF IInv
<1>a. seen[a] \in Snapshots \cup {None} /\ (mode[a] = "update" => seen[a] \in Snapshots)
  BY <1>1 DEF TypeOK, AttemptInv, Planned
<1>. DEFINE next == IF mode[a] = "fresh" THEN releaseCreateIntent(a)
                                         ELSE Reservation(seen[a].state, a)
<1>b. mode[a] # "mixed" => next \in ReleaseStates /\ next.op = a /\ next.pending # None
  <2>1. mode[a] # "mixed" => mode[a] \in {"fresh", "update"}
    BY <1>1 DEF Reserve, AttemptInv, Planned
  <2>2. CASE mode[a] = "fresh"
    BY <2>2, IntentType
  <2>3. CASE mode[a] = "update"
    <3>1. seen[a].state \in ReleaseStates
      BY <1>a, <2>3 DEF Snapshots
    <3>. QED
      BY <2>3, <3>1, ReservationType
  <2>. QED
    BY <2>1, <2>2, <2>3
<1>. DEFINE request == RecordWrite(a, next)
<1>c. mode[a] # "mixed" =>
        /\ request \in Requests /\ request # None
        /\ request.target = "record" /\ request.from = seen[a]
        /\ request.to.state.op = a /\ request.to.state.pending # None
        /\ seen[a] # None => request.to.uid = seen[a].uid
  <2>. HIDE DEF next
  <2>1. \A state \in ReleaseStates :
          /\ RecordWrite(a, state) \in Requests
          /\ RecordWrite(a, state) # None
          /\ RecordWrite(a, state).target = "record"
          /\ RecordWrite(a, state).from = seen[a]
          /\ RecordWrite(a, state).to.state = state
          /\ seen[a] # None => RecordWrite(a, state).to.uid = seen[a].uid
    BY <1>1, RecordWriteType
  <2>. QED
    BY <1>b, <2>1
<1>d. mode[a] = "mixed" => pc'[a] = "checking" /\ UNCHANGED <<result, observed, sent>>
  BY <1>1 DEF Reserve, TypeOK, Goto
<1>e. mode[a] # "mixed" =>
        /\ mode[a] \in {"fresh", "update"} /\ pc'[a] = "reserving"
        /\ sent'[a] = request /\ sent' = [sent EXCEPT ![a] = request]
        /\ result'[a] \in {"partial", result[a]} /\ result'[a] # "ready"
        /\ observed' = [observed EXCEPT ![a] = "unknown"]
        /\ result' \in [Attempts -> {"not-applied", "partial", "ready"}]
  BY <1>1 DEF Reserve, TypeOK, Goto, Send, AttemptInv, Planned, Rows, Early
<1>f. /\ pc[a] = "prepared" /\ pc' \in [Attempts -> Locations]
      /\ UNCHANGED <<cluster, mode, row, before, seen, proof, outcome, known, disk>>
  BY <1>1 DEF Reserve, TypeOK, Goto, Locations, Locked
<1>2. TypeOK'
  <2>. HIDE DEF request
  <2>1. sent' \in [Attempts -> Requests \cup {None}]
    BY <1>1, <1>c, <1>d, <1>e DEF TypeOK
  <2>2. result' \in [Attempts -> {"not-applied", "partial", "ready"}]
    BY <1>1, <1>d, <1>e DEF TypeOK
  <2>3. observed' \in [Attempts -> {"none", "unknown", "pending", "ready", "completed", "partial"}]
    BY <1>1, <1>d, <1>e DEF TypeOK
  <2>4. TypeOK
    BY <1>1
  <2>. HIDE DEF next
  <2>. QED
    BY <1>f, <2>1, <2>2, <2>3, <2>4 DEF TypeOK, cluster, disk
<1>3. Planned(a)'
  <2>. HIDE DEF request
  <2>. QED
    BY <1>1, <1>a, <1>c, <1>d, <1>e, <1>f DEF cluster, disk, Planned, Rows, Finalizing, Sending, Requested, Named, Owns, MayRelease, Shared, Changed, InFlight, Reserved, Early, Working, Ending, Waiting, Stopped, AttemptInv, Kinds
<1>4. Rows(a)'
  <2>. HIDE DEF request
  <2>. QED
    BY <1>1, <1>a, <1>c, <1>d, <1>e, <1>f DEF cluster, disk, Planned, Rows, Finalizing, Sending, Requested, Named, Owns, MayRelease, Shared, Changed, InFlight, Reserved, Early, Working, Ending, Waiting, Stopped, AttemptInv, Kinds
<1>5. Finalizing(a)'
  <2>. HIDE DEF request
  <2>. QED
    BY <1>1, <1>a, <1>c, <1>d, <1>e, <1>f DEF cluster, disk, Planned, Rows, Finalizing, Sending, Requested, Named, Owns, MayRelease, Shared, Changed, InFlight, Reserved, Early, Working, Ending, Waiting, Stopped, AttemptInv, Kinds
<1>6. Sending(a)'
  <2>. HIDE DEF request
  <2>. QED
    BY <1>1, <1>a, <1>c, <1>d, <1>e, <1>f DEF cluster, disk, Planned, Rows, Finalizing, Sending, Requested, Named, Owns, MayRelease, Shared, Changed, InFlight, Reserved, Early, Working, Ending, Waiting, Stopped, AttemptInv, Kinds
<1>7. Requested(a)' /\ Named(a)'
  <2>. HIDE DEF request
  <2>. HIDE DEF next
  <2>1. Named(a)'
    BY <1>1, <1>f DEF cluster, AttemptInv, Named, Reserved, Early
  <2>2. late'[a] = {}
    BY <1>1, <1>f DEF cluster, AttemptInv, Sending, Stopped
  <2>3. CASE mode[a] = "mixed"
    BY <2>1, <2>2, <2>3, <1>1, <1>d, <1>f DEF AttemptInv, Sending, Requested, InFlight, Waiting
  <2>4. CASE mode[a] # "mixed"
    <3>1. InFlight(a)' = {request}
      BY <1>c, <1>e, <2>2, <2>4 DEF InFlight
    <3>2. mode'[a] = mode[a] /\ request.target \notin Kinds
      BY <1>c, <1>f, <2>4 DEF Kinds
    <3>3. seen[a] # None => seen[a].state.op = None
      BY <1>1, <1>e, <1>f, <2>4 DEF AttemptInv, Planned, Early
    <3>4. a # None
      BY NoneAssumption
    <3>. QED
      BY <1>c, <1>e, <2>1, <2>4, <3>1, <3>2, <3>3, <3>4 DEF Requested, Shared
  <2>. QED
    BY <2>1, <2>3, <2>4
<1>. QED
  BY <1>2, <1>3, <1>4, <1>5, <1>6, <1>7 DEF AttemptInv

\* Nothing has been written yet.
LEMMA RefusePreparedStep ==
  ASSUME IInv, NEW a \in Attempts, RefusePrepared(a)
  PROVE  TypeOK' /\ AttemptInv(a)'
<1>1. TypeOK /\ AttemptInv(a)
  BY DEF IInv
<1>2. TypeOK'
  BY <1>1 DEF RefusePrepared, TypeOK, Locations, Locked, Stopped, Goto, cluster, memory, disk
<1>3. Planned(a)'
  BY <1>1 DEF RefusePrepared, TypeOK, Goto, cluster, memory, disk, AttemptInv, Planned, Rows, Finalizing, Sending, Requested, Named, Owns, MayRelease, Shared, Changed, InFlight, Reserved, Early, Working, Ending, Waiting, Stopped, Locked
<1>4. Rows(a)'
  BY <1>1 DEF RefusePrepared, TypeOK, Goto, cluster, memory, disk, AttemptInv, Planned, Rows, Finalizing, Sending, Requested, Named, Owns, MayRelease, Shared, Changed, InFlight, Reserved, Early, Working, Ending, Waiting, Stopped, Locked
<1>5. Finalizing(a)'
  BY <1>1 DEF RefusePrepared, TypeOK, Goto, cluster, memory, disk, AttemptInv, Planned, Rows, Finalizing, Sending, Requested, Named, Owns, MayRelease, Shared, Changed, InFlight, Reserved, Early, Working, Ending, Waiting, Stopped, Locked
<1>6. Sending(a)'
  BY <1>1 DEF RefusePrepared, TypeOK, Goto, cluster, memory, disk, AttemptInv, Planned, Rows, Finalizing, Sending, Requested, Named, Owns, MayRelease, Shared, Changed, InFlight, Reserved, Early, Working, Ending, Waiting, Stopped, Locked
<1>7. Requested(a)' /\ Named(a)'
  BY <1>1 DEF RefusePrepared, TypeOK, Goto, cluster, memory, disk, AttemptInv, Planned, Rows, Finalizing, Sending, Requested, Named, Owns, MayRelease, Shared, Changed, InFlight, Reserved, Early, Working, Ending, Waiting, Stopped, Locked
<1>. QED
  BY <1>2, <1>3, <1>4, <1>5, <1>6, <1>7 DEF AttemptInv

\* An object write is announced and sent, or its object is reused.
LEMMA CheckRowStep ==
  ASSUME IInv, NEW a \in Attempts, CheckRow(a)
  PROVE  TypeOK' /\ AttemptInv(a)'
<1>1. TypeOK /\ AttemptInv(a)
  BY DEF IInv
<1>. DEFINE k == KindAt(row[a])
<1>a. k \in Kinds /\ row[a] \in {1, 2} /\ row[a] + 1 \in 1..3
  BY <1>1 DEF CheckRow, KindAt, Kinds
<1>. DEFINE request == ObjectWrite(a, k)
<1>b. /\ request \in Requests /\ request # None /\ request.target = k /\ request.to.lift = a
      /\ proof[a][k] = None => request.from = None
  <2>. HIDE DEF k
  <2>1. proof[a][k] = None => Missing(k)
    BY <1>a DEF CheckRow, Recheck, PairUnchanged
  <2>. QED
    BY <1>1, <1>a, <2>1, ObjectWriteType
<1>c. mode[a] \in {"fresh", "mixed", "reuse", "update"}
  BY <1>1 DEF CheckRow, TypeOK, Modes, AttemptInv, Planned, Stopped
<1>d. mode[a] = "reuse" => proof[a][k] # None
  <2>. HIDE DEF k
  <2>. QED
    BY <1>1, <1>a, NoneAssumption DEF AttemptInv, Planned, Pairs
<1>e. \/ /\ mode[a] \in {"fresh", "mixed", "update"}
         /\ mode[a] = "update" \/ proof[a][k] = None
         /\ pc'[a] = "writing" /\ sent'[a] = request /\ sent' = [sent EXCEPT ![a] = request]
         /\ outcome' = [outcome EXCEPT ![a][k] = "unknown"] /\ outcome'[a][k] = "unknown"
         /\ result' = [result EXCEPT ![a] = "partial"] /\ result'[a] = "partial"
         /\ row' = row
      \/ /\ mode[a] # "update" /\ proof[a][k] # None
         /\ pc'[a] = IF row[a] = 2 THEN "finishing" ELSE "checking"
         /\ sent' = sent /\ result' = result
         /\ outcome' = [outcome EXCEPT ![a][k] = "reused"]
         /\ row' = [row EXCEPT ![a] = @ + 1] /\ row'[a] = row[a] + 1
  <2>1. mode[a] = "reuse" => ~(mode[a] = "update" \/ proof[a][k] = None)
    BY <1>d
  <2>. QED
    BY <1>1, <1>a, <1>c, <2>1 DEF CheckRow, TypeOK, Goto, Send
<1>f. /\ pc[a] = "checking" /\ pc' \in [Attempts -> Locations]
      /\ UNCHANGED <<cluster, mode, before, seen, proof, observed, known, disk>>
  BY <1>1 DEF CheckRow, TypeOK, Goto, Locations, Locked
<1>2. TypeOK'
  <2>. HIDE DEF request, k
  <2>1. sent' \in [Attempts -> Requests \cup {None}]
    BY <1>1, <1>b, <1>e DEF TypeOK
  <2>2. result' \in [Attempts -> {"not-applied", "partial", "ready"}]
    BY <1>1, <1>e DEF TypeOK
  <2>3. outcome' \in [Attempts -> [Kinds -> {"not-attempted", "unknown", "created", "updated", "reused"}]]
    <3>1. \/ outcome' = [outcome EXCEPT ![a][k] = "unknown"]
          \/ outcome' = [outcome EXCEPT ![a][k] = "reused"]
      BY <1>e
    <3>2. outcome \in [Attempts -> [Kinds -> {"not-attempted", "unknown", "created", "updated", "reused"}]]
      BY <1>1 DEF TypeOK
    <3>. QED
      BY <3>1, <3>2, <1>a
  <2>4. row' \in [Attempts -> 1..3]
    BY <1>1, <1>a, <1>e DEF TypeOK
  <2>. QED
    BY <1>1, <1>f, <2>1, <2>2, <2>3, <2>4 DEF TypeOK, cluster, disk
<1>3. Planned(a)'
  <2>. HIDE DEF request
  <2>. QED
    BY <1>1, <1>a, <1>b, <1>e, <1>f DEF cluster, disk, Planned, Rows, Finalizing, Sending, Requested, Named, Owns, MayRelease, Shared, Changed, InFlight, Reserved, Early, Working, Ending, Waiting, Stopped, AttemptInv, Kinds, KindAt
<1>4. Rows(a)'
  <2>. HIDE DEF request
  <2>. QED
    BY <1>1, <1>a, <1>b, <1>e, <1>f DEF cluster, disk, Planned, Rows, Finalizing, Sending, Requested, Named, Owns, MayRelease, Shared, Changed, InFlight, Reserved, Early, Working, Ending, Waiting, Stopped, AttemptInv, Kinds, KindAt
<1>5. Finalizing(a)'
  <2>. HIDE DEF request
  <2>. QED
    BY <1>1, <1>a, <1>b, <1>e, <1>f DEF cluster, disk, Planned, Rows, Finalizing, Sending, Requested, Named, Owns, MayRelease, Shared, Changed, InFlight, Reserved, Early, Working, Ending, Waiting, Stopped, AttemptInv, Kinds, KindAt
<1>6. Sending(a)'
  <2>. HIDE DEF request
  <2>. QED
    BY <1>1, <1>a, <1>b, <1>e, <1>f DEF cluster, disk, Planned, Rows, Finalizing, Sending, Requested, Named, Owns, MayRelease, Shared, Changed, InFlight, Reserved, Early, Working, Ending, Waiting, Stopped, AttemptInv, Kinds, KindAt
<1>7. Requested(a)' /\ Named(a)'
  <2>. HIDE DEF request
  <2>. QED
    BY <1>1, <1>a, <1>b, <1>e, <1>f DEF cluster, disk, Planned, Rows, Finalizing, Sending, Requested, Named, Owns, MayRelease, Shared, Changed, InFlight, Reserved, Early, Working, Ending, Waiting, Stopped, AttemptInv, Kinds, KindAt
<1>. QED
  BY <1>2, <1>3, <1>4, <1>5, <1>6, <1>7 DEF AttemptInv

\* An acknowledged object is credited to the record.
LEMMA CheckpointStep ==
  ASSUME IInv, NEW a \in Attempts, Checkpoint(a)
  PROVE  TypeOK' /\ AttemptInv(a)'
<1>1. TypeOK /\ AttemptInv(a)
  BY DEF IInv
<1>. DEFINE next == Credit(seen[a].state, KindAt(row[a]), proof[a][KindAt(row[a])])
            request == RecordWrite(a, next)
            unknown == outcome[a][KindAt(row[a])] = "unknown"
<1>a. /\ pc[a] = "recording"
      /\ UNCHANGED <<cluster, memory, candidate, committed>>
      /\ known[a] = FALSE /\ ~(mode[a] = "fresh" /\ result[a] = "ready")
      /\ row[a] \in {1, 2} /\ sent[a] = None
      /\ ~unknown => late[a] = {} /\ proof[a][KindAt(row[a])] # None
  BY <1>1 DEF Checkpoint, TypeOK, AttemptInv, Rows, Finalizing, Sending, Ending, Waiting, Stopped
<1>b. Shared(a) /\ ~unknown =>
        /\ next \in ReleaseStates /\ next.op = a /\ next.pending # None
        /\ seen[a] # None /\ seen[a].state.op = a
  <2>. HAVE Shared(a) /\ ~unknown
  <2>1. seen[a] \in Snapshots /\ seen[a].state.op = a /\ seen[a].state.pending # None
    BY <1>1, <1>a DEF TypeOK, AttemptInv, Finalizing, Owns, Working
  <2>2. seen[a].state \in ReleaseStates
    BY <2>1 DEF Snapshots
  <2>3. KindAt(row[a]) \in Kinds /\ proof[a][KindAt(row[a])] \in Fingerprints
    <3>1. KindAt(row[a]) \in Kinds
      BY DEF KindAt, Kinds
    <3>. QED
      BY <1>1, <1>a, <3>1 DEF TypeOK
  <2>. QED
    BY <2>1, <2>2, <2>3, CreditType, NoneAssumption
<1>c. Shared(a) /\ ~unknown =>
        /\ request \in Requests /\ request # None
        /\ request.target = "record" /\ request.from = seen[a]
        /\ request.to.state.op = a /\ request.to.state.pending # None
        /\ seen[a] # None => request.to.uid = seen[a].uid
  <2>. HIDE DEF next
  <2>1. \A state \in ReleaseStates :
          /\ RecordWrite(a, state) \in Requests
          /\ RecordWrite(a, state) # None
          /\ RecordWrite(a, state).target = "record"
          /\ RecordWrite(a, state).from = seen[a]
          /\ RecordWrite(a, state).to.state = state
          /\ seen[a] # None => RecordWrite(a, state).to.uid = seen[a].uid
    BY <1>1, RecordWriteType
  <2>. QED
    BY <1>b, <2>1
<1>d. /\ pc' \in [Attempts -> Locations] /\ slots' \in [Attempts -> Nat]
  BY <1>1 DEF Checkpoint, TypeOK, Goto, Locations, Locked
<1>e. \/ pc'[a] = "persisting" /\ sent' = sent
      \/ ~unknown /\ Shared(a) /\ pc'[a] = "crediting" /\ sent' = [sent EXCEPT ![a] = request] /\ sent'[a] = request
      \/ ~unknown /\ ~Shared(a) /\ pc'[a] = "waiting" /\ sent' = sent
  BY <1>1 DEF Checkpoint, TypeOK, Goto, Send
<1>2. TypeOK'
  <2>. HIDE DEF next, request
  <2>1. sent' \in [Attempts -> Requests \cup {None}]
    BY <1>1, <1>c, <1>e DEF TypeOK
  <2>2. TypeOK
    BY <1>1
  <2>. QED
    BY <1>a, <1>d, <2>1, <2>2 DEF TypeOK, cluster, memory
<1>3. Planned(a)'
  <2>. HIDE DEF next, request
  <2>. QED
    BY <1>1, <1>a, <1>b, <1>c, <1>d, <1>e DEF cluster, memory, disk, Planned, Rows, Finalizing, Sending, Requested, Named, Owns, MayRelease, Shared, Changed, InFlight, Reserved, Early, Working, Ending, Waiting, Stopped, AttemptInv, Kinds, KindAt
<1>4. Rows(a)'
  <2>. HIDE DEF next, request
  <2>. QED
    BY <1>1, <1>a, <1>b, <1>c, <1>d, <1>e DEF cluster, memory, disk, Planned, Rows, Finalizing, Sending, Requested, Named, Owns, MayRelease, Shared, Changed, InFlight, Reserved, Early, Working, Ending, Waiting, Stopped, AttemptInv, Kinds, KindAt
<1>5. Finalizing(a)'
  <2>. HIDE DEF next, request
  <2>. QED
    BY <1>1, <1>a, <1>b, <1>c, <1>d, <1>e DEF cluster, memory, disk, Planned, Rows, Finalizing, Sending, Requested, Named, Owns, MayRelease, Shared, Changed, InFlight, Reserved, Early, Working, Ending, Waiting, Stopped, AttemptInv, Kinds, KindAt
<1>6. Sending(a)'
  <2>. HIDE DEF next, request
  <2>. QED
    BY <1>1, <1>a, <1>b, <1>c, <1>d, <1>e DEF cluster, memory, disk, Planned, Rows, Finalizing, Sending, Requested, Named, Owns, MayRelease, Shared, Changed, InFlight, Reserved, Early, Working, Ending, Waiting, Stopped, AttemptInv, Kinds, KindAt
<1>7. Requested(a)' /\ Named(a)'
  <2>. HIDE DEF next, request
  <2>1. Named(a)' /\ a # None
    BY <1>1, <1>a, <1>e, NoneAssumption DEF cluster, memory, AttemptInv, Named, Reserved, Early, Shared
  <2>2. CASE sent' = sent
    BY <1>1, <1>a, <1>e, <2>1, <2>2 DEF cluster, memory, AttemptInv, Requested, InFlight, Shared, Reserved, Stopped
  <2>3. CASE sent' # sent
    <3>1. InFlight(a)' = {request}
      BY <1>a, <1>c, <1>e, <2>3 DEF InFlight, cluster
    <3>2. mode'[a] = mode[a] /\ Shared(a) /\ request.target \notin Kinds
      BY <1>a, <1>c, <1>e, <2>3 DEF Kinds, memory
    <3>. QED
      BY <1>b, <1>c, <1>e, <2>1, <2>3, <3>1, <3>2 DEF Requested, Shared
  <2>. QED
    BY <2>2, <2>3
<1>. QED
  BY <1>2, <1>3, <1>4, <1>5, <1>6, <1>7 DEF AttemptInv

\* The checkpoint cannot be published.
LEMMA CheckpointFailsStep ==
  ASSUME IInv, NEW a \in Attempts, CheckpointFails(a)
  PROVE  TypeOK' /\ AttemptInv(a)'
<1>1. TypeOK /\ AttemptInv(a)
  BY DEF IInv
<1>2. TypeOK'
  BY <1>1 DEF CheckpointFails, TypeOK, Locations, Locked, Stopped, Goto, cluster, memory, disk
<1>3. Planned(a)'
  BY <1>1 DEF CheckpointFails, TypeOK, Goto, cluster, memory, disk, AttemptInv, Planned, Rows, Finalizing, Sending, Requested, Named, Owns, MayRelease, Shared, Changed, InFlight, Reserved, Early, Working, Ending, Waiting, Stopped, Locked
<1>4. Rows(a)'
  BY <1>1 DEF CheckpointFails, TypeOK, Goto, cluster, memory, disk, AttemptInv, Planned, Rows, Finalizing, Sending, Requested, Named, Owns, MayRelease, Shared, Changed, InFlight, Reserved, Early, Working, Ending, Waiting, Stopped, Locked
<1>5. Finalizing(a)'
  BY <1>1 DEF CheckpointFails, TypeOK, Goto, cluster, memory, disk, AttemptInv, Planned, Rows, Finalizing, Sending, Requested, Named, Owns, MayRelease, Shared, Changed, InFlight, Reserved, Early, Working, Ending, Waiting, Stopped, Locked
<1>6. Sending(a)'
  BY <1>1 DEF CheckpointFails, TypeOK, Goto, cluster, memory, disk, AttemptInv, Planned, Rows, Finalizing, Sending, Requested, Named, Owns, MayRelease, Shared, Changed, InFlight, Reserved, Early, Working, Ending, Waiting, Stopped, Locked
<1>7. Requested(a)' /\ Named(a)'
  BY <1>1 DEF CheckpointFails, TypeOK, Goto, cluster, memory, disk, AttemptInv, Planned, Rows, Finalizing, Sending, Requested, Named, Owns, MayRelease, Shared, Changed, InFlight, Reserved, Early, Working, Ending, Waiting, Stopped, Locked
<1>. QED
  BY <1>2, <1>3, <1>4, <1>5, <1>6, <1>7 DEF AttemptInv

\* The object became ready.
LEMMA BecomeReadyStep ==
  ASSUME IInv, NEW a \in Attempts, BecomeReady(a)
  PROVE  TypeOK' /\ AttemptInv(a)'
<1>1. TypeOK /\ AttemptInv(a)
  BY DEF IInv
<1>a. row[a] \in {1, 2} /\ row[a] + 1 \in 1..3
  BY <1>1 DEF BecomeReady, AttemptInv, Rows
<1>2. TypeOK'
  BY <1>1, <1>a DEF BecomeReady, KindAt, TypeOK, Locations, Locked, Stopped, Goto, cluster, memory, disk
<1>3. Planned(a)'
  BY <1>1, <1>a DEF BecomeReady, KindAt, TypeOK, Goto, cluster, memory, disk, AttemptInv, Planned, Rows, Finalizing, Sending, Requested, Named, Owns, MayRelease, Shared, Changed, InFlight, Reserved, Early, Working, Ending, Waiting, Stopped, Locked
<1>4. Rows(a)'
  BY <1>1, <1>a DEF BecomeReady, KindAt, TypeOK, Goto, cluster, memory, disk, AttemptInv, Planned, Rows, Finalizing, Sending, Requested, Named, Owns, MayRelease, Shared, Changed, InFlight, Reserved, Early, Working, Ending, Waiting, Stopped, Locked
<1>5. Finalizing(a)'
  BY <1>1, <1>a DEF BecomeReady, KindAt, TypeOK, Goto, cluster, memory, disk, AttemptInv, Planned, Rows, Finalizing, Sending, Requested, Named, Owns, MayRelease, Shared, Changed, InFlight, Reserved, Early, Working, Ending, Waiting, Stopped, Locked
<1>6. Sending(a)'
  BY <1>1, <1>a DEF BecomeReady, KindAt, TypeOK, Goto, cluster, memory, disk, AttemptInv, Planned, Rows, Finalizing, Sending, Requested, Named, Owns, MayRelease, Shared, Changed, InFlight, Reserved, Early, Working, Ending, Waiting, Stopped, Locked
<1>7. Requested(a)' /\ Named(a)'
  BY <1>1, <1>a DEF BecomeReady, KindAt, TypeOK, Goto, cluster, memory, disk, AttemptInv, Planned, Rows, Finalizing, Sending, Requested, Named, Owns, MayRelease, Shared, Changed, InFlight, Reserved, Early, Working, Ending, Waiting, Stopped, Locked
<1>. QED
  BY <1>2, <1>3, <1>4, <1>5, <1>6, <1>7 DEF AttemptInv

\* The write loop is left by an error.
LEMMA LoopFailsStep ==
  ASSUME IInv, NEW a \in Attempts, LoopFails(a)
  PROVE  TypeOK' /\ AttemptInv(a)'
<1>1. TypeOK /\ AttemptInv(a)
  BY DEF IInv
<1>2. TypeOK'
  BY <1>1 DEF LoopFails, Leave, TypeOK, Locations, Locked, Stopped, Goto, cluster, memory, disk
<1>3. Planned(a)'
  BY <1>1 DEF LoopFails, Leave, TypeOK, Goto, cluster, memory, disk, AttemptInv, Planned, Rows, Finalizing, Sending, Requested, Named, Owns, MayRelease, Shared, Changed, InFlight, Reserved, Early, Working, Ending, Waiting, Stopped, Locked
<1>4. Rows(a)'
  BY <1>1 DEF LoopFails, Leave, TypeOK, Goto, cluster, memory, disk, AttemptInv, Planned, Rows, Finalizing, Sending, Requested, Named, Owns, MayRelease, Shared, Changed, InFlight, Reserved, Early, Working, Ending, Waiting, Stopped, Locked
<1>5. Finalizing(a)'
  BY <1>1 DEF LoopFails, Leave, TypeOK, Goto, cluster, memory, disk, AttemptInv, Planned, Rows, Finalizing, Sending, Requested, Named, Owns, MayRelease, Shared, Changed, InFlight, Reserved, Early, Working, Ending, Waiting, Stopped, Locked
<1>6. Sending(a)'
  BY <1>1 DEF LoopFails, Leave, TypeOK, Goto, cluster, memory, disk, AttemptInv, Planned, Rows, Finalizing, Sending, Requested, Named, Owns, MayRelease, Shared, Changed, InFlight, Reserved, Early, Working, Ending, Waiting, Stopped, Locked
<1>7. Requested(a)' /\ Named(a)'
  BY <1>1 DEF LoopFails, Leave, TypeOK, Goto, cluster, memory, disk, AttemptInv, Planned, Rows, Finalizing, Sending, Requested, Named, Owns, MayRelease, Shared, Changed, InFlight, Reserved, Early, Working, Ending, Waiting, Stopped, Locked
<1>. QED
  BY <1>2, <1>3, <1>4, <1>5, <1>6, <1>7 DEF AttemptInv

\* The write loop is through.
LEMMA FinishStep ==
  ASSUME IInv, NEW a \in Attempts, Finish(a)
  PROVE  TypeOK' /\ AttemptInv(a)'
<1>1. TypeOK /\ AttemptInv(a)
  BY DEF IInv
<1>a. mode[a] = "fresh" => proof[a] \in Pairs
  BY <1>1, WholePair DEF Finish, AttemptInv, Rows, TypeOK
<1>2. TypeOK'
  BY <1>1, <1>a DEF Finish, Leave, TypeOK, Locations, Locked, Stopped, Goto, cluster, memory, disk
<1>3. Planned(a)'
  BY <1>1, <1>a DEF Finish, Leave, TypeOK, Goto, cluster, memory, disk, AttemptInv, Planned, Rows, Finalizing, Sending, Requested, Named, Owns, MayRelease, Shared, Changed, InFlight, Reserved, Early, Working, Ending, Waiting, Stopped, Locked
<1>4. Rows(a)'
  BY <1>1, <1>a DEF Finish, Leave, TypeOK, Goto, cluster, memory, disk, AttemptInv, Planned, Rows, Finalizing, Sending, Requested, Named, Owns, MayRelease, Shared, Changed, InFlight, Reserved, Early, Working, Ending, Waiting, Stopped, Locked
<1>5. Finalizing(a)'
  BY <1>1, <1>a DEF Finish, Leave, TypeOK, Goto, cluster, memory, disk, AttemptInv, Planned, Rows, Finalizing, Sending, Requested, Named, Owns, MayRelease, Shared, Changed, InFlight, Reserved, Early, Working, Ending, Waiting, Stopped, Locked
<1>6. Sending(a)'
  BY <1>1, <1>a DEF Finish, Leave, TypeOK, Goto, cluster, memory, disk, AttemptInv, Planned, Rows, Finalizing, Sending, Requested, Named, Owns, MayRelease, Shared, Changed, InFlight, Reserved, Early, Working, Ending, Waiting, Stopped, Locked
<1>7. Requested(a)' /\ Named(a)'
  BY <1>1, <1>a DEF Finish, Leave, TypeOK, Goto, cluster, memory, disk, AttemptInv, Planned, Rows, Finalizing, Sending, Requested, Named, Owns, MayRelease, Shared, Changed, InFlight, Reserved, Early, Working, Ending, Waiting, Stopped, Locked
<1>. QED
  BY <1>2, <1>3, <1>4, <1>5, <1>6, <1>7 DEF AttemptInv

-----------------------------------------------------------------------------
(* The finalizer *)

\* The pair and the reservation are re-proved.
LEMMA SettleStep ==
  ASSUME IInv, NEW a \in Attempts, Settle(a)
  PROVE  TypeOK' /\ AttemptInv(a)'
<1>1. TypeOK /\ AttemptInv(a)
  BY DEF IInv
<1>2. TypeOK'
  BY <1>1 DEF Settle, TypeOK, Locations, Locked, Stopped, Goto, cluster, memory, disk
<1>3. Planned(a)'
  BY <1>1 DEF Settle, TypeOK, Goto, cluster, memory, disk, AttemptInv, Planned, Rows, Finalizing, Sending, Requested, Named, Owns, MayRelease, Shared, Changed, InFlight, Reserved, Early, Working, Ending, Waiting, Stopped, Locked
<1>4. Rows(a)'
  BY <1>1 DEF Settle, TypeOK, Goto, cluster, memory, disk, AttemptInv, Planned, Rows, Finalizing, Sending, Requested, Named, Owns, MayRelease, Shared, Changed, InFlight, Reserved, Early, Working, Ending, Waiting, Stopped, Locked
<1>5. Finalizing(a)'
  BY <1>1 DEF Settle, TypeOK, Goto, cluster, memory, disk, AttemptInv, Planned, Rows, Finalizing, Sending, Requested, Named, Owns, MayRelease, Shared, Changed, InFlight, Reserved, Early, Working, Ending, Waiting, Stopped, Locked
<1>6. Sending(a)'
  BY <1>1 DEF Settle, TypeOK, Goto, cluster, memory, disk, AttemptInv, Planned, Rows, Finalizing, Sending, Requested, Named, Owns, MayRelease, Shared, Changed, InFlight, Reserved, Early, Working, Ending, Waiting, Stopped, Locked
<1>7. Requested(a)' /\ Named(a)'
  BY <1>1 DEF Settle, TypeOK, Goto, cluster, memory, disk, AttemptInv, Planned, Rows, Finalizing, Sending, Requested, Named, Owns, MayRelease, Shared, Changed, InFlight, Reserved, Early, Working, Ending, Waiting, Stopped, Locked
<1>. QED
  BY <1>2, <1>3, <1>4, <1>5, <1>6, <1>7 DEF AttemptInv

\* They cannot be.
LEMMA SettleFailsStep ==
  ASSUME IInv, NEW a \in Attempts, SettleFails(a)
  PROVE  TypeOK' /\ AttemptInv(a)'
<1>1. TypeOK /\ AttemptInv(a)
  BY DEF IInv
<1>2. TypeOK'
  BY <1>1 DEF SettleFails, Downgrade, TypeOK, Locations, Locked, Stopped, Goto, cluster, memory, disk
<1>3. Planned(a)'
  BY <1>1 DEF SettleFails, Downgrade, TypeOK, Goto, cluster, memory, disk, AttemptInv, Planned, Rows, Finalizing, Sending, Requested, Named, Owns, MayRelease, Shared, Changed, InFlight, Reserved, Early, Working, Ending, Waiting, Stopped, Locked
<1>4. Rows(a)'
  BY <1>1 DEF SettleFails, Downgrade, TypeOK, Goto, cluster, memory, disk, AttemptInv, Planned, Rows, Finalizing, Sending, Requested, Named, Owns, MayRelease, Shared, Changed, InFlight, Reserved, Early, Working, Ending, Waiting, Stopped, Locked
<1>5. Finalizing(a)'
  BY <1>1 DEF SettleFails, Downgrade, TypeOK, Goto, cluster, memory, disk, AttemptInv, Planned, Rows, Finalizing, Sending, Requested, Named, Owns, MayRelease, Shared, Changed, InFlight, Reserved, Early, Working, Ending, Waiting, Stopped, Locked
<1>6. Sending(a)'
  BY <1>1 DEF SettleFails, Downgrade, TypeOK, Goto, cluster, memory, disk, AttemptInv, Planned, Rows, Finalizing, Sending, Requested, Named, Owns, MayRelease, Shared, Changed, InFlight, Reserved, Early, Working, Ending, Waiting, Stopped, Locked
<1>7. Requested(a)' /\ Named(a)'
  BY <1>1 DEF SettleFails, Downgrade, TypeOK, Goto, cluster, memory, disk, AttemptInv, Planned, Rows, Finalizing, Sending, Requested, Named, Owns, MayRelease, Shared, Changed, InFlight, Reserved, Early, Working, Ending, Waiting, Stopped, Locked
<1>. QED
  BY <1>2, <1>3, <1>4, <1>5, <1>6, <1>7 DEF AttemptInv

\* The final result is persisted and the release is sent.
LEMMA PersistStep ==
  ASSUME IInv, NEW a \in Attempts, Persist(a)
  PROVE  TypeOK' /\ AttemptInv(a)'
<1>1. TypeOK /\ AttemptInv(a)
  BY DEF IInv
<1>. DEFINE next == Released(a)
            request == RecordWrite(a, next)
<1>a. /\ pc[a] = "persisting" /\ sent[a] = None
      /\ UNCHANGED <<cluster, mode, row, before, seen, proof, outcome, known, candidate, committed>>
  BY <1>1 DEF Persist, AttemptInv, Sending, Waiting
<1>b. MayRelease(a) =>
        /\ next \in ReleaseStates /\ next.op = None
        /\ mode[a] = "fresh" \/ Changed(a) => next.history # << >>
        /\ Owns(a) /\ late[a] = {} /\ proof[a] \in Pairs /\ Shared(a)
  <2>. HAVE MayRelease(a)
  <2>1. /\ seen[a] \in Snapshots /\ seen[a].state.pending # None
        /\ Owns(a) /\ late[a] = {} /\ proof[a] \in Pairs /\ Shared(a)
    BY <1>1, <1>a DEF TypeOK, AttemptInv, Planned, Rows, Finalizing, Owns, MayRelease, Shared
  <2>2. seen[a].state \in ReleaseStates
    BY <2>1 DEF Snapshots
  <2>3. seen[a].state.pending.objects \in Pairs
    BY <2>1, <2>2 DEF ReleaseStates, Revisions
  <2>4. \A objects \in Pairs, o \in {"completed", "partial"} :
          LET t == Terminal(seen[a].state, objects, o)
          IN  t \in ReleaseStates /\ t.op = None /\ t.history # << >>
    BY <2>1, <2>2, TerminalType
  <2>5. CASE mode[a] = "update" /\ ~Changed(a)
    <3>1. before[a] \in Snapshots /\ before[a].state.op = None
      BY <1>1, <2>5 DEF TypeOK, AttemptInv, Planned
    <3>2. next = before[a].state
      BY <2>5 DEF Released
    <3>. QED
      BY <2>1, <2>5, <3>1, <3>2 DEF Snapshots
  <2>6. CASE mode[a] = "update" /\ Changed(a)
    <3>. DEFINE o == IF result[a] = "ready" THEN "completed" ELSE "partial"
    <3>1. next = Terminal(seen[a].state, proof[a], o)
      BY <2>6 DEF Released
    <3>. QED
      BY <2>1, <2>4, <3>1
  <2>7. CASE mode[a] = "fresh"
    <3>1. next = Terminal(seen[a].state, seen[a].state.pending.objects, "completed")
      BY <2>7 DEF Released
    <3>. QED
      BY <2>1, <2>3, <2>4, <3>1
  <2>. QED
    BY <2>1, <2>5, <2>6, <2>7 DEF Shared
<1>c. MayRelease(a) =>
        /\ request \in Requests /\ request # None
        /\ request.target = "record" /\ request.from = seen[a]
        /\ request.to.state = next
        /\ seen[a] # None => request.to.uid = seen[a].uid
  <2>. HIDE DEF next
  <2>1. \A state \in ReleaseStates :
          /\ RecordWrite(a, state) \in Requests
          /\ RecordWrite(a, state) # None
          /\ RecordWrite(a, state).target = "record"
          /\ RecordWrite(a, state).from = seen[a]
          /\ RecordWrite(a, state).to.state = state
          /\ seen[a] # None => RecordWrite(a, state).to.uid = seen[a].uid
    BY <1>1, RecordWriteType
  <2>. QED
    BY <1>b, <2>1
<1>d. /\ pc' \in [Attempts -> Locations] /\ slots' \in [Attempts -> Nat]
      /\ result' \in [Attempts -> {"not-applied", "partial", "ready"}]
      /\ observed' \in [Attempts -> {"none", "unknown", "pending", "ready", "completed", "partial"}]
  <2>1. pc' \in [Attempts -> Locations]
    <3>1. \E l \in {"done", "releasing"} : pc' = [pc EXCEPT ![a] = l]
      BY DEF Persist, Goto
    <3>. QED
      BY <1>1, <3>1 DEF TypeOK, Locations, Locked, Stopped
  <2>2. slots' \in [Attempts -> Nat]
    BY <1>1 DEF Persist, TypeOK
  <2>3. result' \in [Attempts -> {"not-applied", "partial", "ready"}]
    BY <1>1 DEF Persist, Downgrade, TypeOK
  <2>4. observed' \in [Attempts -> {"none", "unknown", "pending", "ready", "completed", "partial"}]
    BY <1>1 DEF Persist, TypeOK
  <2>. QED
    BY <2>1, <2>2, <2>3, <2>4
<1>e. \/ pc'[a] = "done" /\ sent' = sent /\ result'[a] \in {result[a], "partial"}
      \/ /\ MayRelease(a) /\ pc'[a] = "releasing" /\ result'[a] = result[a]
         /\ sent' = [sent EXCEPT ![a] = request] /\ sent'[a] = request
  BY <1>1 DEF Persist, Downgrade, TypeOK, Goto, Send
<1>2. TypeOK'
  <2>. HIDE DEF next, request
  <2>1. sent' \in [Attempts -> Requests \cup {None}]
    BY <1>1, <1>c, <1>e DEF TypeOK
  <2>2. TypeOK
    BY <1>1
  <2>. QED
    BY <1>a, <1>d, <2>1, <2>2 DEF TypeOK, cluster, memory
<1>3. Planned(a)'
  <2>. HIDE DEF next, request
  <2>. QED
    BY <1>1, <1>a, <1>b, <1>c, <1>d, <1>e DEF cluster, memory, disk, Planned, Rows, Finalizing, Sending, Requested, Named, Owns, MayRelease, Shared, Changed, InFlight, Reserved, Early, Working, Ending, Waiting, Stopped, AttemptInv, Kinds, KindAt
<1>4. Rows(a)'
  <2>. HIDE DEF next, request
  <2>. QED
    BY <1>1, <1>a, <1>b, <1>c, <1>d, <1>e DEF cluster, memory, disk, Planned, Rows, Finalizing, Sending, Requested, Named, Owns, MayRelease, Shared, Changed, InFlight, Reserved, Early, Working, Ending, Waiting, Stopped, AttemptInv, Kinds, KindAt
<1>5. Finalizing(a)'
  <2>. HIDE DEF next, request
  <2>. QED
    BY <1>1, <1>a, <1>b, <1>c, <1>d, <1>e DEF cluster, memory, disk, Planned, Rows, Finalizing, Sending, Requested, Named, Owns, MayRelease, Shared, Changed, InFlight, Reserved, Early, Working, Ending, Waiting, Stopped, AttemptInv, Kinds, KindAt
<1>6. Sending(a)'
  <2>. HIDE DEF next, request
  <2>. QED
    BY <1>1, <1>a, <1>b, <1>c, <1>d, <1>e DEF cluster, memory, disk, Planned, Rows, Finalizing, Sending, Requested, Named, Owns, MayRelease, Shared, Changed, InFlight, Reserved, Early, Working, Ending, Waiting, Stopped, AttemptInv, Kinds, KindAt
<1>7. Requested(a)' /\ Named(a)'
  <2>. HIDE DEF next, request
  <2>1. Named(a)' /\ a # None
    BY <1>1, <1>a, <1>e, NoneAssumption DEF cluster, AttemptInv, Named, Reserved, Early, Shared
  <2>2. CASE pc'[a] = "done"
    BY <1>1, <1>a, <1>e, <2>1, <2>2 DEF cluster, AttemptInv, Requested, InFlight, Shared, Reserved, Stopped
  <2>3. CASE pc'[a] # "done"
    <3>1. InFlight(a)' = {request}
      BY <1>a, <1>b, <1>c, <1>e, <2>3 DEF InFlight, cluster
    <3>2. mode'[a] = mode[a] /\ Shared(a) /\ request.target \notin Kinds
      BY <1>a, <1>b, <1>c, <1>e, <2>3 DEF Kinds
    <3>3. seen[a] # None /\ seen[a].state.op = a
      BY <1>b, <1>e, <2>3 DEF Owns
    <3>. QED
      BY <1>b, <1>c, <1>e, <2>1, <2>3, <3>1, <3>2, <3>3 DEF Requested, Shared
  <2>. QED
    BY <2>2, <2>3
<1>. QED
  BY <1>2, <1>3, <1>4, <1>5, <1>6, <1>7 DEF AttemptInv

\* The final result cannot be persisted.
LEMMA PersistFailsStep ==
  ASSUME IInv, NEW a \in Attempts, PersistFails(a)
  PROVE  TypeOK' /\ AttemptInv(a)'
<1>1. TypeOK /\ AttemptInv(a)
  BY DEF IInv
<1>2. TypeOK'
  BY <1>1 DEF PersistFails, Downgrade, TypeOK, Locations, Locked, Stopped, Goto, cluster, memory, disk
<1>3. Planned(a)'
  BY <1>1 DEF PersistFails, Downgrade, TypeOK, Goto, cluster, memory, disk, AttemptInv, Planned, Rows, Finalizing, Sending, Requested, Named, Owns, MayRelease, Shared, Changed, InFlight, Reserved, Early, Working, Ending, Waiting, Stopped, Locked
<1>4. Rows(a)'
  BY <1>1 DEF PersistFails, Downgrade, TypeOK, Goto, cluster, memory, disk, AttemptInv, Planned, Rows, Finalizing, Sending, Requested, Named, Owns, MayRelease, Shared, Changed, InFlight, Reserved, Early, Working, Ending, Waiting, Stopped, Locked
<1>5. Finalizing(a)'
  BY <1>1 DEF PersistFails, Downgrade, TypeOK, Goto, cluster, memory, disk, AttemptInv, Planned, Rows, Finalizing, Sending, Requested, Named, Owns, MayRelease, Shared, Changed, InFlight, Reserved, Early, Working, Ending, Waiting, Stopped, Locked
<1>6. Sending(a)'
  BY <1>1 DEF PersistFails, Downgrade, TypeOK, Goto, cluster, memory, disk, AttemptInv, Planned, Rows, Finalizing, Sending, Requested, Named, Owns, MayRelease, Shared, Changed, InFlight, Reserved, Early, Working, Ending, Waiting, Stopped, Locked
<1>7. Requested(a)' /\ Named(a)'
  BY <1>1 DEF PersistFails, Downgrade, TypeOK, Goto, cluster, memory, disk, AttemptInv, Planned, Rows, Finalizing, Sending, Requested, Named, Owns, MayRelease, Shared, Changed, InFlight, Reserved, Early, Working, Ending, Waiting, Stopped, Locked
<1>. QED
  BY <1>2, <1>3, <1>4, <1>5, <1>6, <1>7 DEF AttemptInv

\* The acknowledgment is published.
LEMMA PublishCandidateStep ==
  ASSUME IInv, NEW a \in Attempts, PublishCandidate(a)
  PROVE  TypeOK' /\ AttemptInv(a)'
<1>1. TypeOK /\ AttemptInv(a)
  BY DEF IInv
<1>a. Acknowledgment(a) \in Acknowledgments
  <2>1. seen[a] \in Snapshots /\ proof[a] \in Pairs
    BY <1>1 DEF PublishCandidate, AttemptInv, Finalizing, TypeOK
  <2>2. result[a] \in {"ready", "partial", "not-applied"}
    BY <1>1 DEF TypeOK
  <2>. QED
    BY <2>1, <2>2 DEF Acknowledgment, Acknowledgments, Snapshots
<1>2. TypeOK'
  BY <1>1, <1>a DEF PublishCandidate, TypeOK, Locations, Locked, Stopped, Goto, cluster, memory, disk
<1>3. Planned(a)'
  BY <1>1, <1>a DEF PublishCandidate, TypeOK, Goto, cluster, memory, disk, AttemptInv, Planned, Rows, Finalizing, Sending, Requested, Named, Owns, MayRelease, Shared, Changed, InFlight, Reserved, Early, Working, Ending, Waiting, Stopped, Locked
<1>4. Rows(a)'
  BY <1>1, <1>a DEF PublishCandidate, TypeOK, Goto, cluster, memory, disk, AttemptInv, Planned, Rows, Finalizing, Sending, Requested, Named, Owns, MayRelease, Shared, Changed, InFlight, Reserved, Early, Working, Ending, Waiting, Stopped, Locked
<1>5. Finalizing(a)'
  BY <1>1, <1>a DEF PublishCandidate, TypeOK, Goto, cluster, memory, disk, AttemptInv, Planned, Rows, Finalizing, Sending, Requested, Named, Owns, MayRelease, Shared, Changed, InFlight, Reserved, Early, Working, Ending, Waiting, Stopped, Locked
<1>6. Sending(a)'
  BY <1>1, <1>a DEF PublishCandidate, TypeOK, Goto, cluster, memory, disk, AttemptInv, Planned, Rows, Finalizing, Sending, Requested, Named, Owns, MayRelease, Shared, Changed, InFlight, Reserved, Early, Working, Ending, Waiting, Stopped, Locked
<1>7. Requested(a)' /\ Named(a)'
  BY <1>1, <1>a DEF PublishCandidate, TypeOK, Goto, cluster, memory, disk, AttemptInv, Planned, Rows, Finalizing, Sending, Requested, Named, Owns, MayRelease, Shared, Changed, InFlight, Reserved, Early, Working, Ending, Waiting, Stopped, Locked
<1>. QED
  BY <1>2, <1>3, <1>4, <1>5, <1>6, <1>7 DEF AttemptInv

\* It is committed.
LEMMA CommitStep ==
  ASSUME IInv, NEW a \in Attempts, Commit(a)
  PROVE  TypeOK' /\ AttemptInv(a)'
<1>1. TypeOK /\ AttemptInv(a)
  BY DEF IInv
<1>a. Latest(seen[a].state).state \in {"pending", "completed", "partial"}
  <2>1. seen[a] \in Snapshots /\ seen[a].state.history # << >>
    BY <1>1 DEF Commit, AttemptInv, Finalizing, TypeOK
  <2>2. seen[a].state.history \in Seq(Revisions)
    BY <2>1 DEF Snapshots, ReleaseStates
  <2>3. Latest(seen[a].state) \in Revisions
    BY <2>1, <2>2, LenProperties, EmptySeq, ElementOfSeq DEF Latest
  <2>. QED
    BY <2>3 DEF Revisions
<1>2. TypeOK'
  BY <1>1, <1>a DEF Commit, TypeOK, Locations, Locked, Stopped, Goto, cluster, memory, disk
<1>3. Planned(a)'
  BY <1>1, <1>a DEF Commit, TypeOK, Goto, cluster, memory, disk, AttemptInv, Planned, Rows, Finalizing, Sending, Requested, Named, Owns, MayRelease, Shared, Changed, InFlight, Reserved, Early, Working, Ending, Waiting, Stopped, Locked
<1>4. Rows(a)'
  BY <1>1, <1>a DEF Commit, TypeOK, Goto, cluster, memory, disk, AttemptInv, Planned, Rows, Finalizing, Sending, Requested, Named, Owns, MayRelease, Shared, Changed, InFlight, Reserved, Early, Working, Ending, Waiting, Stopped, Locked
<1>5. Finalizing(a)'
  BY <1>1, <1>a DEF Commit, TypeOK, Goto, cluster, memory, disk, AttemptInv, Planned, Rows, Finalizing, Sending, Requested, Named, Owns, MayRelease, Shared, Changed, InFlight, Reserved, Early, Working, Ending, Waiting, Stopped, Locked
<1>6. Sending(a)'
  BY <1>1, <1>a DEF Commit, TypeOK, Goto, cluster, memory, disk, AttemptInv, Planned, Rows, Finalizing, Sending, Requested, Named, Owns, MayRelease, Shared, Changed, InFlight, Reserved, Early, Working, Ending, Waiting, Stopped, Locked
<1>7. Requested(a)' /\ Named(a)'
  BY <1>1, <1>a DEF Commit, TypeOK, Goto, cluster, memory, disk, AttemptInv, Planned, Rows, Finalizing, Sending, Requested, Named, Owns, MayRelease, Shared, Changed, InFlight, Reserved, Early, Working, Ending, Waiting, Stopped, Locked
<1>. QED
  BY <1>2, <1>3, <1>4, <1>5, <1>6, <1>7 DEF AttemptInv

\* It is not.
LEMMA AcknowledgeFailsStep ==
  ASSUME IInv, NEW a \in Attempts, AcknowledgeFails(a)
  PROVE  TypeOK' /\ AttemptInv(a)'
<1>1. TypeOK /\ AttemptInv(a)
  BY DEF IInv
<1>a. pc[a] = "acking" => Acknowledgment(a) \in Acknowledgments
  <2>1. pc[a] = "acking" => seen[a] \in Snapshots /\ proof[a] \in Pairs
    BY <1>1 DEF AttemptInv, Finalizing, TypeOK
  <2>2. result[a] \in {"ready", "partial", "not-applied"}
    BY <1>1 DEF TypeOK
  <2>. QED
    BY <2>1, <2>2 DEF Acknowledgment, Acknowledgments, Snapshots
<1>b. candidate' \in [Attempts -> Acknowledgments \cup {None}]
  BY <1>1, <1>a DEF AcknowledgeFails, TypeOK
<1>c. slots' \in [Attempts -> Nat]
  BY <1>1 DEF AcknowledgeFails, TypeOK
<1>d. committed' \in [Attempts -> BOOLEAN]
  <2>1. committed \in [Attempts -> BOOLEAN] /\ [committed EXCEPT ![a] = TRUE] \in [Attempts -> BOOLEAN]
    BY <1>1 DEF TypeOK
  <2>2. committed' = committed \/ committed' = [committed EXCEPT ![a] = TRUE]
    BY DEF AcknowledgeFails
  <2>. QED
    BY <2>1, <2>2
<1>2. TypeOK'
  BY <1>1, <1>b, <1>c, <1>d DEF AcknowledgeFails, Downgrade, TypeOK, Locations, Locked, Stopped, Goto, cluster, memory, disk
<1>3. Planned(a)'
  BY <1>1, <1>b, <1>c, <1>d DEF AcknowledgeFails, Downgrade, TypeOK, Goto, cluster, memory, disk, AttemptInv, Planned, Rows, Finalizing, Sending, Requested, Named, Owns, MayRelease, Shared, Changed, InFlight, Reserved, Early, Working, Ending, Waiting, Stopped, Locked
<1>4. Rows(a)'
  BY <1>1, <1>b, <1>c, <1>d DEF AcknowledgeFails, Downgrade, TypeOK, Goto, cluster, memory, disk, AttemptInv, Planned, Rows, Finalizing, Sending, Requested, Named, Owns, MayRelease, Shared, Changed, InFlight, Reserved, Early, Working, Ending, Waiting, Stopped, Locked
<1>5. Finalizing(a)'
  BY <1>1, <1>b, <1>c, <1>d DEF AcknowledgeFails, Downgrade, TypeOK, Goto, cluster, memory, disk, AttemptInv, Planned, Rows, Finalizing, Sending, Requested, Named, Owns, MayRelease, Shared, Changed, InFlight, Reserved, Early, Working, Ending, Waiting, Stopped, Locked
<1>6. Sending(a)'
  BY <1>1, <1>b, <1>c, <1>d DEF AcknowledgeFails, Downgrade, TypeOK, Goto, cluster, memory, disk, AttemptInv, Planned, Rows, Finalizing, Sending, Requested, Named, Owns, MayRelease, Shared, Changed, InFlight, Reserved, Early, Working, Ending, Waiting, Stopped, Locked
<1>7. Requested(a)' /\ Named(a)'
  BY <1>1, <1>b, <1>c, <1>d DEF AcknowledgeFails, Downgrade, TypeOK, Goto, cluster, memory, disk, AttemptInv, Planned, Rows, Finalizing, Sending, Requested, Named, Owns, MayRelease, Shared, Changed, InFlight, Reserved, Early, Working, Ending, Waiting, Stopped, Locked
<1>. QED
  BY <1>2, <1>3, <1>4, <1>5, <1>6, <1>7 DEF AttemptInv

-----------------------------------------------------------------------------
(* Answers *)

\* A request is applied, and its attempt learns so.
LEMMA AcceptedStep ==
  ASSUME IInv, NEW a \in Attempts, Answer(a), Accepts(sent[a])
  PROVE  TypeOK' /\ AttemptInv(a)'
<1>1. TypeOK /\ AttemptInv(a) /\ Answer(a)
  BY DEF IInv
<1>a. /\ pc[a] \in Waiting /\ sent[a] \in Requests /\ sent[a] # None /\ late[a] = {}
      /\ Serve(sent[a]) /\ OnAccept(a)
      /\ ~(known[a] /\ pc[a] # "releasing")
      /\ mode[a] = "fresh" /\ result[a] = "ready" => pc[a] = "releasing"
      /\ mode'[a] = mode[a] /\ row'[a] = row[a] /\ before'[a] = before[a]
      /\ known'[a] = known[a] /\ sent'[a] = None /\ late'[a] = {} /\ result'[a] = result[a]
  BY <1>1 DEF Answer, TypeOK, AttemptInv, Rows, Finalizing, Sending, Ending, Waiting, Stopped
<1>b. InFlight(a) = {sent[a]} /\ InFlight(a)' = {} /\ a # None
  BY <1>a, NoneAssumption DEF InFlight
<1>c. pc[a] \in {"reserving", "crediting", "releasing"} =>
        /\ record' = sent[a].to /\ sent[a].to \in Snapshots /\ sent[a].to # None
        /\ seen'[a] = sent[a].to /\ proof'[a] = proof[a] /\ outcome'[a] = outcome[a]
        /\ seen' = [seen EXCEPT ![a] = sent[a].to] /\ proof' = proof /\ outcome' = outcome
  <2>. HAVE pc[a] \in {"reserving", "crediting", "releasing"}
  <2>1. sent[a].target = "record"
    BY <1>1 DEF AttemptInv, Sending
  <2>2. record' = sent[a].to /\ sent[a].to \in Snapshots
    BY <1>a, <2>1 DEF Serve, Requests, Kinds
  <2>3. seen' = [seen EXCEPT ![a] = sent[a].to] /\ proof' = proof /\ outcome' = outcome
    BY <1>a DEF OnAccept
  <2>. QED
    BY <1>1, <2>2, <2>3, NoneAssumption DEF TypeOK
<1>. DEFINE k == KindAt(row[a])
            fp == releaseObjectFingerprint(sent[a].to)
<1>d. pc[a] = "writing" =>
        /\ k \in Kinds /\ sent[a].target = k /\ fp \in Fingerprints /\ fp # None
        /\ record' = record /\ seen' = seen
        /\ proof' = [proof EXCEPT ![a][k] = fp]
        /\ \E o \in {"created", "updated"} : outcome' = [outcome EXCEPT ![a][k] = o]
  <2>. HAVE pc[a] = "writing"
  <2>1. sent[a].target = k /\ k \in Kinds /\ "record" \notin Kinds
    BY <1>1 DEF AttemptInv, Sending, KindAt, Kinds
  <2>2. sent[a].to \in Objects
    BY <1>a, <2>1 DEF Requests
  <2>3. record' = record
    BY <1>a, <2>1 DEF Serve
  <2>4. seen' = seen /\ proof' = [proof EXCEPT ![a][k] = fp]
    BY <1>a DEF OnAccept
  <2>5. \E o \in {"created", "updated"} : outcome' = [outcome EXCEPT ![a][k] = o]
    BY <1>a DEF OnAccept
  <2>. QED
    BY <2>1, <2>2, <2>3, <2>4, <2>5, FingerprintType, NoneAssumption
<1>e. pc[a] = "writing" =>
        /\ proof'[a] = [proof[a] EXCEPT ![k] = fp] /\ proof'[a][k] # None
        /\ \A j \in Kinds : proof[a][j] # None => proof'[a][j] # None
        /\ proof[a] \in Pairs => proof'[a] \in Pairs
        /\ outcome'[a][k] # "unknown"
        /\ mode[a] \in {"fresh", "update", "mixed"}
  <2>. HAVE pc[a] = "writing"
  <2>. HIDE DEF k, fp
  <2>1. proof'[a] = [proof[a] EXCEPT ![k] = fp] /\ proof[a] \in [Kinds -> Fingerprints \cup {None}]
    BY <1>1, <1>d DEF TypeOK
  <2>2. proof[a] \in Pairs => proof'[a] \in Pairs
    BY <1>d, <2>1 DEF Pairs
  <2>3. outcome'[a][k] # "unknown"
    BY <1>1, <1>d DEF TypeOK
  <2>4. mode[a] \in {"fresh", "update", "mixed"}
    BY <1>1, <1>b, <1>d DEF AttemptInv, Requested
  <2>. QED
    BY <1>d, <2>1, <2>2, <2>3, <2>4
<1>f. /\ pc[a] = "reserving" => pc'[a] = "checking"
      /\ pc[a] = "writing" => pc'[a] = "recording"
      /\ pc[a] = "crediting" => pc'[a] = "waiting"
      /\ pc[a] = "releasing" => IF mode[a] = "update" /\ ~Changed(a) THEN pc'[a] = "done"
                                                                     ELSE pc'[a] = "acking"
      /\ pc' \in [Attempts -> Locations]
      /\ pc[a] \in {"writing", "crediting"} => observed' = observed
  <2>1. \E l \in {"checking", "recording", "waiting", "done", "acking"} : pc' = [pc EXCEPT ![a] = l]
    BY <1>a DEF OnAccept, Goto, Waiting
  <2>2. pc' \in [Attempts -> Locations]
    BY <1>1, <2>1 DEF TypeOK, Locations, Locked, Stopped
  <2>. QED
    BY <1>1, <1>a, <2>2 DEF OnAccept, Goto, TypeOK
<1>2. TypeOK'
  <2>. HIDE DEF k, fp
  <2>1. record' \in Snapshots \cup {None} /\ live' \in [Kinds -> Objects \cup {None}]
    BY <1>1, <1>a, ServeType
  <2>2. seen' \in [Attempts -> Snapshots \cup {None}]
    BY <1>1, <1>a, <1>c, <1>d DEF TypeOK, Waiting
  <2>3. proof' \in [Attempts -> [Kinds -> Fingerprints \cup {None}]]
    <3>1. \/ proof' = proof
          \/ k \in Kinds /\ fp \in Fingerprints /\ proof' = [proof EXCEPT ![a][k] = fp]
      BY <1>a, <1>c, <1>d DEF Waiting
    <3>2. proof \in [Attempts -> [Kinds -> Fingerprints \cup {None}]]
      BY <1>1 DEF TypeOK
    <3>. QED
      BY <3>1, <3>2
  <2>4. outcome' \in [Attempts -> [Kinds -> {"not-attempted", "unknown", "created", "updated", "reused"}]]
    <3>1. \/ outcome' = outcome
          \/ k \in Kinds /\ \E o \in {"created", "updated"} : outcome' = [outcome EXCEPT ![a][k] = o]
      BY <1>a, <1>c, <1>d DEF Waiting
    <3>2. outcome \in [Attempts -> [Kinds -> {"not-attempted", "unknown", "created", "updated", "reused"}]]
      BY <1>1 DEF TypeOK
    <3>. QED
      BY <3>1, <3>2
  <2>5. observed' \in [Attempts -> {"none", "unknown", "pending", "ready", "completed", "partial"}]
    <3>1. CASE pc[a] = "reserving"
      BY <1>1, <1>a, <3>1 DEF OnAccept, TypeOK
    <3>2. CASE pc[a] = "releasing"
      <4>1. \/ observed' = observed
            \/ /\ mode[a] = "update"
               /\ observed' = [observed EXCEPT ![a] = Latest(before[a].state).state]
        BY <1>a, <3>2 DEF OnAccept
      <4>2. mode[a] = "update" => Latest(before[a].state).state \in {"pending", "completed", "partial"}
        <5>. HAVE mode[a] = "update"
        <5>1. before[a] \in Snapshots /\ before[a].state.history # << >>
          BY <1>1 DEF TypeOK, AttemptInv, Planned
        <5>2. before[a].state.history \in Seq(Revisions)
          BY <5>1 DEF Snapshots, ReleaseStates
        <5>3. Latest(before[a].state) \in Revisions
          BY <5>1, <5>2, LenProperties, EmptySeq, ElementOfSeq DEF Latest
        <5>. QED
          BY <5>3 DEF Revisions
      <4>. QED
        BY <1>1, <4>1, <4>2 DEF TypeOK
    <3>. QED
      BY <1>1, <1>a, <1>f, <3>1, <3>2 DEF TypeOK, Waiting
  <2>. QED
    BY <1>1, <1>f, <2>1, <2>2, <2>3, <2>4, <2>5 DEF Answer, TypeOK, disk
<1>3. Planned(a)'
  <2>. HIDE DEF k, fp
  <2>1. CASE pc[a] = "reserving"
    BY <1>1, <1>a, <1>b, <1>c, <1>f, <2>1 DEF Planned, Rows, Finalizing, Sending, Requested, Named, Owns, MayRelease, Shared, Changed, InFlight, Reserved, Early, Working, Ending, Waiting, Stopped, AttemptInv, Kinds, KindAt
  <2>2. CASE pc[a] = "writing"
    BY <1>1, <1>a, <1>b, <1>d, <1>e, <1>f, <2>2 DEF Planned, Rows, Finalizing, Sending, Requested, Named, Owns, MayRelease, Shared, Changed, InFlight, Reserved, Early, Working, Ending, Waiting, Stopped, AttemptInv, Kinds, KindAt
  <2>3. CASE pc[a] = "crediting"
    BY <1>1, <1>a, <1>b, <1>c, <1>f, <2>3 DEF Planned, Rows, Finalizing, Sending, Requested, Named, Owns, MayRelease, Shared, Changed, InFlight, Reserved, Early, Working, Ending, Waiting, Stopped, AttemptInv, Kinds, KindAt
  <2>4. CASE pc[a] = "releasing"
    BY <1>1, <1>a, <1>b, <1>c, <1>f, <2>4 DEF Planned, Rows, Finalizing, Sending, Requested, Named, Owns, MayRelease, Shared, Changed, InFlight, Reserved, Early, Working, Ending, Waiting, Stopped, AttemptInv, Kinds, KindAt
  <2>. QED
    BY <1>a, <2>1, <2>2, <2>3, <2>4 DEF Waiting
<1>4. Rows(a)'
  <2>. HIDE DEF k, fp
  <2>1. CASE pc[a] = "reserving"
    BY <1>1, <1>a, <1>b, <1>c, <1>f, <2>1 DEF Planned, Rows, Finalizing, Sending, Requested, Named, Owns, MayRelease, Shared, Changed, InFlight, Reserved, Early, Working, Ending, Waiting, Stopped, AttemptInv, Kinds, KindAt
  <2>2. CASE pc[a] = "writing"
    BY <1>1, <1>a, <1>b, <1>d, <1>e, <1>f, <2>2 DEF Planned, Rows, Finalizing, Sending, Requested, Named, Owns, MayRelease, Shared, Changed, InFlight, Reserved, Early, Working, Ending, Waiting, Stopped, AttemptInv, Kinds, KindAt
  <2>3. CASE pc[a] = "crediting"
    BY <1>1, <1>a, <1>b, <1>c, <1>f, <2>3 DEF Planned, Rows, Finalizing, Sending, Requested, Named, Owns, MayRelease, Shared, Changed, InFlight, Reserved, Early, Working, Ending, Waiting, Stopped, AttemptInv, Kinds, KindAt
  <2>4. CASE pc[a] = "releasing"
    BY <1>1, <1>a, <1>b, <1>c, <1>f, <2>4 DEF Planned, Rows, Finalizing, Sending, Requested, Named, Owns, MayRelease, Shared, Changed, InFlight, Reserved, Early, Working, Ending, Waiting, Stopped, AttemptInv, Kinds, KindAt
  <2>. QED
    BY <1>a, <2>1, <2>2, <2>3, <2>4 DEF Waiting
<1>5. Finalizing(a)'
  <2>. HIDE DEF k, fp
  <2>1. CASE pc[a] = "reserving"
    BY <1>1, <1>a, <1>b, <1>c, <1>f, <2>1 DEF Planned, Rows, Finalizing, Sending, Requested, Named, Owns, MayRelease, Shared, Changed, InFlight, Reserved, Early, Working, Ending, Waiting, Stopped, AttemptInv, Kinds, KindAt
  <2>2. CASE pc[a] = "writing"
    BY <1>1, <1>a, <1>b, <1>d, <1>e, <1>f, <2>2 DEF Planned, Rows, Finalizing, Sending, Requested, Named, Owns, MayRelease, Shared, Changed, InFlight, Reserved, Early, Working, Ending, Waiting, Stopped, AttemptInv, Kinds, KindAt
  <2>3. CASE pc[a] = "crediting"
    BY <1>1, <1>a, <1>b, <1>c, <1>f, <2>3 DEF Planned, Rows, Finalizing, Sending, Requested, Named, Owns, MayRelease, Shared, Changed, InFlight, Reserved, Early, Working, Ending, Waiting, Stopped, AttemptInv, Kinds, KindAt
  <2>4. CASE pc[a] = "releasing"
    BY <1>1, <1>a, <1>b, <1>c, <1>f, <2>4 DEF Planned, Rows, Finalizing, Sending, Requested, Named, Owns, MayRelease, Shared, Changed, InFlight, Reserved, Early, Working, Ending, Waiting, Stopped, AttemptInv, Kinds, KindAt
  <2>. QED
    BY <1>a, <2>1, <2>2, <2>3, <2>4 DEF Waiting
<1>6. Sending(a)'
  <2>. HIDE DEF k, fp
  <2>1. CASE pc[a] = "reserving"
    BY <1>1, <1>a, <1>b, <1>c, <1>f, <2>1 DEF Planned, Rows, Finalizing, Sending, Requested, Named, Owns, MayRelease, Shared, Changed, InFlight, Reserved, Early, Working, Ending, Waiting, Stopped, AttemptInv, Kinds, KindAt
  <2>2. CASE pc[a] = "writing"
    BY <1>1, <1>a, <1>b, <1>d, <1>e, <1>f, <2>2 DEF Planned, Rows, Finalizing, Sending, Requested, Named, Owns, MayRelease, Shared, Changed, InFlight, Reserved, Early, Working, Ending, Waiting, Stopped, AttemptInv, Kinds, KindAt
  <2>3. CASE pc[a] = "crediting"
    BY <1>1, <1>a, <1>b, <1>c, <1>f, <2>3 DEF Planned, Rows, Finalizing, Sending, Requested, Named, Owns, MayRelease, Shared, Changed, InFlight, Reserved, Early, Working, Ending, Waiting, Stopped, AttemptInv, Kinds, KindAt
  <2>4. CASE pc[a] = "releasing"
    BY <1>1, <1>a, <1>b, <1>c, <1>f, <2>4 DEF Planned, Rows, Finalizing, Sending, Requested, Named, Owns, MayRelease, Shared, Changed, InFlight, Reserved, Early, Working, Ending, Waiting, Stopped, AttemptInv, Kinds, KindAt
  <2>. QED
    BY <1>a, <2>1, <2>2, <2>3, <2>4 DEF Waiting
<1>7. Requested(a)' /\ Named(a)'
  <2>1. Requested(a)'
    BY <1>b DEF Requested
  <2>2. Named(a)'
    BY <1>1, <1>a, <1>b, <1>c, <1>d, <1>f DEF AttemptInv, Named, Reserved, Shared, Early, Finalizing, Requested, Waiting, Kinds, KindAt
  <2>. QED
    BY <2>1, <2>2
<1>. QED
  BY <1>2, <1>3, <1>4, <1>5, <1>6, <1>7 DEF AttemptInv

\* A request is refused.
LEMMA UnansweredStep ==
  ASSUME IInv, NEW a \in Attempts, Answer(a), ~Accepts(sent[a])
  PROVE  TypeOK' /\ AttemptInv(a)'
<1>1. TypeOK /\ AttemptInv(a)
  BY DEF IInv
<1>a. /\ pc[a] \in Waiting /\ late[a] = {}
      /\ ~(known[a] /\ pc[a] # "releasing")
      /\ mode[a] = "fresh" /\ result[a] = "ready" => pc[a] = "releasing"
      /\ record' = record
      /\ mode'[a] = mode[a] /\ row'[a] = row[a] /\ before'[a] = before[a]
      /\ seen'[a] = seen[a] /\ proof'[a] = proof[a] /\ outcome'[a] = outcome[a]
      /\ known'[a] = known[a] /\ sent'[a] = None /\ late'[a] = {}
  BY <1>1 DEF Answer, TypeOK, AttemptInv, Rows, Finalizing, Sending, Ending, Waiting, Stopped
<1>b. \/ pc[a] \in {"reserving", "crediting"} /\ pc'[a] = "persisting" /\ result'[a] = result[a]
      \/ /\ pc[a] = "writing" /\ result'[a] = result[a]
         /\ pc'[a] = IF mode[a] = "update" THEN "persisting" ELSE "recording"
      \/ pc[a] = "releasing" /\ pc'[a] = "done" /\ result'[a] \in {result[a], "partial"}
  BY <1>1, <1>a DEF Answer, OnError, Downgrade, TypeOK, Goto, Waiting
<1>2. TypeOK'
  <2>1. \E l \in {"persisting", "recording", "done"} : pc' = [pc EXCEPT ![a] = l]
    BY <1>a DEF Answer, OnError, Goto, Waiting
  <2>2. pc' \in [Attempts -> Locations]
    BY <1>1, <2>1 DEF TypeOK, Locations, Locked, Stopped
  <2>3. result' \in [Attempts -> {"not-applied", "partial", "ready"}]
    <3>1. \/ result' = result
          \/ result' = [result EXCEPT ![a] = IF @ = "ready" THEN "partial" ELSE @]
      BY <1>a DEF Answer, OnError, Downgrade, Waiting
    <3>. QED
      BY <1>1, <3>1 DEF TypeOK
  <2>4. observed' \in [Attempts -> {"none", "unknown", "pending", "ready", "completed", "partial"}]
    <3>1. observed' = observed \/ observed' = [observed EXCEPT ![a] = "unknown"]
      BY <1>a DEF Answer, OnError, Waiting
    <3>. QED
      BY <1>1, <3>1 DEF TypeOK
  <2>5. sent' \in [Attempts -> Requests \cup {None}] /\ late' = late
    BY <1>1, <1>a DEF Answer, TypeOK
  <2>. QED
    BY <1>1, <2>2, <2>3, <2>4, <2>5 DEF Answer, TypeOK, disk
<1>3. Planned(a)'
  BY <1>1, <1>a, <1>b DEF Planned, Rows, Finalizing, Sending, Requested, Named, Owns, MayRelease, Shared, Changed, InFlight, Reserved, Early, Working, Ending, Waiting, Stopped, AttemptInv, Kinds, KindAt
<1>4. Rows(a)'
  BY <1>1, <1>a, <1>b DEF Planned, Rows, Finalizing, Sending, Requested, Named, Owns, MayRelease, Shared, Changed, InFlight, Reserved, Early, Working, Ending, Waiting, Stopped, AttemptInv, Kinds, KindAt
<1>5. Finalizing(a)'
  BY <1>1, <1>a, <1>b DEF Planned, Rows, Finalizing, Sending, Requested, Named, Owns, MayRelease, Shared, Changed, InFlight, Reserved, Early, Working, Ending, Waiting, Stopped, AttemptInv, Kinds, KindAt
<1>6. Sending(a)'
  BY <1>1, <1>a, <1>b DEF Planned, Rows, Finalizing, Sending, Requested, Named, Owns, MayRelease, Shared, Changed, InFlight, Reserved, Early, Working, Ending, Waiting, Stopped, AttemptInv, Kinds, KindAt
<1>7. Requested(a)' /\ Named(a)'
  <2>1. InFlight(a)' = {}
    BY <1>a DEF InFlight
  <2>2. Named(a)'
    BY <1>1, <1>a, <1>b DEF AttemptInv, Named, Reserved, Shared, Early
  <2>. QED
    BY <2>1, <2>2 DEF Requested
<1>. QED
  BY <1>2, <1>3, <1>4, <1>5, <1>6, <1>7 DEF AttemptInv

\* A request is given up and stays on its way.
LEMMA GiveUpStep ==
  ASSUME IInv, NEW a \in Attempts, GiveUp(a)
  PROVE  TypeOK' /\ AttemptInv(a)'
<1>1. TypeOK /\ AttemptInv(a)
  BY DEF IInv
<1>a. /\ pc[a] \in Waiting /\ sent[a] \in Requests /\ sent[a] # None /\ late[a] = {}
      /\ ~(known[a] /\ pc[a] # "releasing")
      /\ mode[a] = "fresh" /\ result[a] = "ready" => pc[a] = "releasing"
      /\ record' = record
      /\ mode'[a] = mode[a] /\ row'[a] = row[a] /\ before'[a] = before[a]
      /\ seen'[a] = seen[a] /\ proof'[a] = proof[a] /\ outcome'[a] = outcome[a]
      /\ known'[a] = known[a] /\ sent'[a] = None /\ late'[a] = {sent[a]}
  BY <1>1 DEF GiveUp, Abandon, TypeOK, AttemptInv, Rows, Finalizing, Sending, Ending, Waiting, Stopped
<1>b. \/ pc[a] \in {"reserving", "crediting"} /\ pc'[a] = "persisting" /\ result'[a] = result[a]
      \/ /\ pc[a] = "writing" /\ result'[a] = result[a]
         /\ pc'[a] = IF mode[a] = "update" THEN "persisting" ELSE "recording"
      \/ pc[a] = "releasing" /\ pc'[a] = "done" /\ result'[a] \in {result[a], "partial"}
  BY <1>1, <1>a DEF GiveUp, OnError, Downgrade, TypeOK, Goto, Waiting
<1>2. TypeOK'
  <2>1. \E l \in {"persisting", "recording", "done"} : pc' = [pc EXCEPT ![a] = l]
    BY <1>a DEF GiveUp, OnError, Goto, Waiting
  <2>2. pc' \in [Attempts -> Locations]
    BY <1>1, <2>1 DEF TypeOK, Locations, Locked, Stopped
  <2>3. result' \in [Attempts -> {"not-applied", "partial", "ready"}]
    <3>1. \/ result' = result
          \/ result' = [result EXCEPT ![a] = IF @ = "ready" THEN "partial" ELSE @]
      BY <1>a DEF GiveUp, OnError, Downgrade, Waiting
    <3>. QED
      BY <1>1, <3>1 DEF TypeOK
  <2>4. observed' \in [Attempts -> {"none", "unknown", "pending", "ready", "completed", "partial"}]
    <3>1. observed' = observed \/ observed' = [observed EXCEPT ![a] = "unknown"]
      BY <1>a DEF GiveUp, OnError, Waiting
    <3>. QED
      BY <1>1, <3>1 DEF TypeOK
  <2>5. late' \in [Attempts -> SUBSET Requests] /\ sent' \in [Attempts -> Requests \cup {None}]
    BY <1>1, <1>a DEF GiveUp, Abandon, TypeOK
  <2>. QED
    BY <1>1, <2>2, <2>3, <2>4, <2>5 DEF GiveUp, Abandon, TypeOK, disk
<1>3. Planned(a)'
  BY <1>1, <1>a, <1>b DEF Planned, Rows, Finalizing, Sending, Requested, Named, Owns, MayRelease, Shared, Changed, InFlight, Reserved, Early, Working, Ending, Waiting, Stopped, AttemptInv, Kinds, KindAt
<1>4. Rows(a)'
  BY <1>1, <1>a, <1>b DEF Planned, Rows, Finalizing, Sending, Requested, Named, Owns, MayRelease, Shared, Changed, InFlight, Reserved, Early, Working, Ending, Waiting, Stopped, AttemptInv, Kinds, KindAt
<1>5. Finalizing(a)'
  BY <1>1, <1>a, <1>b DEF Planned, Rows, Finalizing, Sending, Requested, Named, Owns, MayRelease, Shared, Changed, InFlight, Reserved, Early, Working, Ending, Waiting, Stopped, AttemptInv, Kinds, KindAt
<1>6. Sending(a)'
  BY <1>1, <1>a, <1>b DEF Planned, Rows, Finalizing, Sending, Requested, Named, Owns, MayRelease, Shared, Changed, InFlight, Reserved, Early, Working, Ending, Waiting, Stopped, AttemptInv, Kinds, KindAt
<1>7. Requested(a)' /\ Named(a)'
  <2>1. InFlight(a)' = InFlight(a) /\ InFlight(a) = {sent[a]}
    BY <1>a DEF InFlight
  <2>2. Named(a)'
    BY <1>1, <1>a, <1>b DEF AttemptInv, Named, Reserved, Shared, Early
  <2>. QED
    BY <1>1, <1>a, <1>b, <2>1, <2>2, NoneAssumption DEF AttemptInv, Requested, Sending, Shared, Reserved, Kinds, KindAt, Stopped
<1>. QED
  BY <1>2, <1>3, <1>4, <1>5, <1>6, <1>7 DEF AttemptInv

\* A request of an attempt cannot change whether the record names another one.
LEMMA ServeOwn ==
  ASSUME TypeOK, NEW a \in Attempts, AttemptInv(a), NEW r \in InFlight(a),
         Accepts(r), Serve(r), NEW b \in Attempts \ {a}
  PROVE  Reserved(b)' <=> Reserved(b)
<1>1. CASE r.target = "record"
  <2>1. record = r.from /\ record' = r.to
    BY <1>1 DEF Accepts, Serve
  <2>2. /\ record # None => record.state.op \in {None, a}
        /\ record'.state.op \in {None, a}
    BY <1>1, <2>1 DEF AttemptInv, Requested
  <2>. QED
    BY <2>2, NoneAssumption DEF Reserved
<1>2. CASE r.target # "record"
  BY <1>2 DEF Serve, Reserved
<1>. QED
  BY <1>1, <1>2

\* An abandoned request arrives after all.
LEMMA DeliverLateStep ==
  ASSUME IInv, NEW a \in Attempts, DeliverLate(a)
  PROVE  TypeOK' /\ AttemptInv(a)'
<1>1. TypeOK /\ AttemptInv(a)
  BY DEF IInv
<1>a. PICK r \in late[a] :
        /\ late' = [late EXCEPT ![a] = @ \ {r}]
        /\ IF Accepts(r) THEN Serve(r) ELSE UNCHANGED <<record, live>>
        /\ UNCHANGED <<foreign, pc, memory, sent, disk>>
  BY DEF DeliverLate
<1>b. /\ pc' = pc /\ mode' = mode /\ row' = row /\ before' = before /\ seen' = seen /\ proof' = proof
      /\ outcome' = outcome /\ result' = result /\ known' = known /\ sent' = sent
      /\ r \in Requests /\ r \in InFlight(a) /\ late'[a] \subseteq late[a] /\ InFlight(a)' \subseteq InFlight(a)
  BY <1>1, <1>a, RequestAssumption DEF TypeOK, memory, InFlight
<1>c. pc[a] \in {"recording", "persisting"} \cup Stopped /\ late[a] # {}
  BY <1>1, <1>a DEF AttemptInv, Sending
<1>d. \/ record' = record
      \/ record' = r.to /\ r.target = "record" /\ record' # None
  <2>1. r.target = "record" => r.to \in Snapshots
    BY <1>b DEF Requests, Kinds
  <2>. QED
    BY <1>a, <2>1, NoneAssumption DEF Serve
<1>2. TypeOK'
  <2>1. record' \in Snapshots \cup {None} /\ live' \in [Kinds -> Objects \cup {None}]
    <3>1. CASE Accepts(r)
      BY <1>1, <1>a, <1>b, <3>1, ServeType
    <3>2. CASE ~Accepts(r)
      BY <1>1, <1>a, <3>2 DEF TypeOK
    <3>. QED
      BY <3>1, <3>2
  <2>2. late' \in [Attempts -> SUBSET Requests]
    BY <1>1, <1>a DEF TypeOK
  <2>. QED
    BY <1>1, <1>a, <2>1, <2>2 DEF TypeOK, memory, disk
<1>3. Planned(a)'
  BY <1>1, <1>a, <1>b, <1>c, <1>d DEF Planned, Rows, Finalizing, Sending, Requested, Named, Owns, MayRelease, Shared, Changed, InFlight, Reserved, Early, Working, Ending, Waiting, Stopped, AttemptInv, Kinds, KindAt
<1>4. Rows(a)'
  BY <1>1, <1>a, <1>b, <1>c, <1>d DEF Planned, Rows, Finalizing, Sending, Requested, Named, Owns, MayRelease, Shared, Changed, InFlight, Reserved, Early, Working, Ending, Waiting, Stopped, AttemptInv, Kinds, KindAt
<1>5. Finalizing(a)'
  BY <1>1, <1>a, <1>b, <1>c, <1>d DEF Planned, Rows, Finalizing, Sending, Requested, Named, Owns, MayRelease, Shared, Changed, InFlight, Reserved, Early, Working, Ending, Waiting, Stopped, AttemptInv, Kinds, KindAt
<1>6. Sending(a)'
  BY <1>1, <1>a, <1>b, <1>c, <1>d DEF Planned, Rows, Finalizing, Sending, Requested, Named, Owns, MayRelease, Shared, Changed, InFlight, Reserved, Early, Working, Ending, Waiting, Stopped, AttemptInv, Kinds, KindAt
<1>7. Requested(a)' /\ Named(a)'
  <2>1. CASE record' = record
    BY <1>1, <1>b, <2>1 DEF AttemptInv, Requested, Named, Shared, Reserved
  <2>2. CASE record' # record
    <3>1. /\ record' = r.to /\ record' # None /\ Shared(a)
          /\ record'.state.op \in {None, a}
          /\ record'.state.op = None => \A q \in InFlight(a) : q.target = "record"
          /\ "record" \notin Kinds
      BY <1>1, <1>b, <1>d, <2>2 DEF AttemptInv, Requested, Kinds
    <3>2. Requested(a)'
      BY <1>1, <1>b, <3>1 DEF AttemptInv, Requested, Shared, Reserved
    <3>3. Named(a)'
      BY <1>1, <1>b, <1>c, <3>1 DEF Named, Shared, Early, Stopped
    <3>. QED
      BY <3>2, <3>3
  <2>. QED
    BY <2>1, <2>2
<1>. QED
  BY <1>2, <1>3, <1>4, <1>5, <1>6, <1>7 DEF AttemptInv

\* An attempt dies with whatever it has sent.
LEMMA CrashStep ==
  ASSUME IInv, NEW a \in Attempts, Crash(a)
  PROVE  TypeOK' /\ AttemptInv(a)'
<1>1. TypeOK /\ AttemptInv(a)
  BY DEF IInv
<1>2. TypeOK'
  BY <1>1 DEF Crash, Abandon, TypeOK, Locations, Locked, Stopped, Goto, cluster, memory, disk
<1>3. Planned(a)'
  BY <1>1 DEF Crash, Abandon, TypeOK, Goto, cluster, memory, disk, AttemptInv, Planned, Rows, Finalizing, Sending, Requested, Named, Owns, MayRelease, Shared, Changed, InFlight, Reserved, Early, Working, Ending, Waiting, Stopped, Locked
<1>4. Rows(a)'
  BY <1>1 DEF Crash, Abandon, TypeOK, Goto, cluster, memory, disk, AttemptInv, Planned, Rows, Finalizing, Sending, Requested, Named, Owns, MayRelease, Shared, Changed, InFlight, Reserved, Early, Working, Ending, Waiting, Stopped, Locked
<1>5. Finalizing(a)'
  BY <1>1 DEF Crash, Abandon, TypeOK, Goto, cluster, memory, disk, AttemptInv, Planned, Rows, Finalizing, Sending, Requested, Named, Owns, MayRelease, Shared, Changed, InFlight, Reserved, Early, Working, Ending, Waiting, Stopped, Locked
<1>6. Sending(a)'
  BY <1>1 DEF Crash, Abandon, TypeOK, Goto, cluster, memory, disk, AttemptInv, Planned, Rows, Finalizing, Sending, Requested, Named, Owns, MayRelease, Shared, Changed, InFlight, Reserved, Early, Working, Ending, Waiting, Stopped, Locked
<1>7. Requested(a)' /\ Named(a)'
  BY <1>1 DEF Crash, Abandon, TypeOK, Goto, cluster, memory, disk, AttemptInv, Planned, Rows, Finalizing, Sending, Requested, Named, Owns, MayRelease, Shared, Changed, InFlight, Reserved, Early, Working, Ending, Waiting, Stopped, Locked
<1>. QED
  BY <1>2, <1>3, <1>4, <1>5, <1>6, <1>7 DEF AttemptInv

\* A commit marker is lost.
LEMMA LoseMarkerStep ==
  ASSUME IInv, NEW a \in Attempts, LoseMarker(a)
  PROVE  TypeOK' /\ AttemptInv(a)'
<1>1. TypeOK /\ AttemptInv(a)
  BY DEF IInv
<1>2. TypeOK'
  BY <1>1 DEF LoseMarker, TypeOK, Locations, Locked, Stopped, Goto, cluster, memory, disk
<1>3. Planned(a)'
  BY <1>1 DEF LoseMarker, TypeOK, Goto, cluster, memory, disk, AttemptInv, Planned, Rows, Finalizing, Sending, Requested, Named, Owns, MayRelease, Shared, Changed, InFlight, Reserved, Early, Working, Ending, Waiting, Stopped, Locked
<1>4. Rows(a)'
  BY <1>1 DEF LoseMarker, TypeOK, Goto, cluster, memory, disk, AttemptInv, Planned, Rows, Finalizing, Sending, Requested, Named, Owns, MayRelease, Shared, Changed, InFlight, Reserved, Early, Working, Ending, Waiting, Stopped, Locked
<1>5. Finalizing(a)'
  BY <1>1 DEF LoseMarker, TypeOK, Goto, cluster, memory, disk, AttemptInv, Planned, Rows, Finalizing, Sending, Requested, Named, Owns, MayRelease, Shared, Changed, InFlight, Reserved, Early, Working, Ending, Waiting, Stopped, Locked
<1>6. Sending(a)'
  BY <1>1 DEF LoseMarker, TypeOK, Goto, cluster, memory, disk, AttemptInv, Planned, Rows, Finalizing, Sending, Requested, Named, Owns, MayRelease, Shared, Changed, InFlight, Reserved, Early, Working, Ending, Waiting, Stopped, Locked
<1>7. Requested(a)' /\ Named(a)'
  BY <1>1 DEF LoseMarker, TypeOK, Goto, cluster, memory, disk, AttemptInv, Planned, Rows, Finalizing, Sending, Requested, Named, Owns, MayRelease, Shared, Changed, InFlight, Reserved, Early, Working, Ending, Waiting, Stopped, Locked
<1>. QED
  BY <1>2, <1>3, <1>4, <1>5, <1>6, <1>7 DEF AttemptInv

-----------------------------------------------------------------------------
(* The other attempts *)

\* A step of one attempt touches no other one.
LEMMA OthersUntouched ==
  ASSUME IInv, NEW a \in Attempts, NEW b \in Attempts \ {a},
         Start(a) \/ Progress(a) \/ DeliverLate(a) \/ Crash(a) \/ LoseMarker(a)
  PROVE  Untouched(b) /\ (Reserved(b)' <=> Reserved(b))
<1>1. TypeOK /\ AttemptInv(a)
  BY DEF IInv
<1>2. CASE PlanLift(a)
  BY <1>1, <1>2 DEF PlanLift, Untouched, Reserved, TypeOK, Goto, cluster, memory, disk
<1>3. CASE PlanUpdate(a)
  BY <1>1, <1>3 DEF PlanUpdate, Untouched, Reserved, TypeOK, Goto, cluster, memory, disk
<1>4. CASE Confirm(a)
  BY <1>1, <1>4 DEF Confirm, Untouched, Reserved, TypeOK, Goto, cluster, memory, disk
<1>5. CASE VerifyNoop(a)
  BY <1>1, <1>5 DEF VerifyNoop, Untouched, Reserved, TypeOK, Goto, cluster, memory, disk
<1>6. CASE Prepare(a)
  BY <1>1, <1>6 DEF Prepare, Untouched, Reserved, TypeOK, Goto, cluster, memory, disk
<1>7. CASE Refuse(a)
  BY <1>1, <1>7 DEF Refuse, Untouched, Reserved, TypeOK, Goto, cluster, memory, disk
<1>8. CASE Reserve(a)
  BY <1>1, <1>8 DEF Reserve, Send, Untouched, Reserved, TypeOK, Goto, cluster, memory, disk
<1>9. CASE RefusePrepared(a)
  BY <1>1, <1>9 DEF RefusePrepared, Untouched, Reserved, TypeOK, Goto, cluster, memory, disk
<1>10. CASE CheckRow(a)
  BY <1>1, <1>10 DEF CheckRow, Send, Untouched, Reserved, TypeOK, Goto, cluster, memory, disk
<1>11. CASE Checkpoint(a)
  BY <1>1, <1>11 DEF Checkpoint, Send, Untouched, Reserved, TypeOK, Goto, cluster, memory, disk
<1>12. CASE CheckpointFails(a)
  BY <1>1, <1>12 DEF CheckpointFails, Untouched, Reserved, TypeOK, Goto, cluster, memory, disk
<1>13. CASE BecomeReady(a)
  BY <1>1, <1>13 DEF BecomeReady, Untouched, Reserved, TypeOK, Goto, cluster, memory, disk
<1>14. CASE LoopFails(a)
  BY <1>1, <1>14 DEF LoopFails, Leave, Untouched, Reserved, TypeOK, Goto, cluster, memory, disk
<1>15. CASE Finish(a)
  BY <1>1, <1>15 DEF Finish, Leave, Untouched, Reserved, TypeOK, Goto, cluster, memory, disk
<1>16. CASE Settle(a)
  BY <1>1, <1>16 DEF Settle, Untouched, Reserved, TypeOK, Goto, cluster, memory, disk
<1>17. CASE SettleFails(a)
  BY <1>1, <1>17 DEF SettleFails, Downgrade, Untouched, Reserved, TypeOK, Goto, cluster, memory, disk
<1>18. CASE Persist(a)
  BY <1>1, <1>18 DEF Persist, Downgrade, Send, Untouched, Reserved, TypeOK, Goto, cluster, memory, disk
<1>19. CASE PersistFails(a)
  BY <1>1, <1>19 DEF PersistFails, Downgrade, Untouched, Reserved, TypeOK, Goto, cluster, memory, disk
<1>20. CASE PublishCandidate(a)
  BY <1>1, <1>20 DEF PublishCandidate, Untouched, Reserved, TypeOK, Goto, cluster, memory, disk
<1>21. CASE Commit(a)
  BY <1>1, <1>21 DEF Commit, Untouched, Reserved, TypeOK, Goto, cluster, memory, disk
<1>22. CASE AcknowledgeFails(a)
  BY <1>1, <1>22 DEF AcknowledgeFails, Downgrade, Untouched, Reserved, TypeOK, Goto, cluster, memory, disk
<1>23. CASE GiveUp(a)
  BY <1>1, <1>23 DEF GiveUp, Abandon, OnError, Downgrade, Waiting, Untouched, Reserved, TypeOK, Goto, cluster, memory, disk
<1>24. CASE Crash(a)
  BY <1>1, <1>24 DEF Crash, Abandon, Untouched, Reserved, TypeOK, Goto, cluster, memory, disk
<1>25. CASE LoseMarker(a)
  BY <1>1, <1>25 DEF LoseMarker, Untouched, Reserved, TypeOK, Goto, cluster, memory, disk
<1>26. CASE Answer(a)
  <2>1. Untouched(b)
    BY <1>1, <1>26 DEF Answer, OnAccept, OnError, Downgrade, Waiting, Untouched, TypeOK, Goto
  <2>2. CASE Accepts(sent[a])
    <3>1. sent[a] \in InFlight(a) /\ Serve(sent[a])
      BY <1>1, <1>26, <2>2 DEF Answer, InFlight, AttemptInv, Sending
    <3>. QED
      BY <1>1, <2>1, <2>2, <3>1, ServeOwn
  <2>3. CASE ~Accepts(sent[a])
    BY <1>26, <2>1, <2>3 DEF Answer, Reserved
  <2>. QED
    BY <2>2, <2>3
<1>27. CASE DeliverLate(a)
  <2>1. PICK r \in late[a] :
          /\ late' = [late EXCEPT ![a] = @ \ {r}]
          /\ IF Accepts(r) THEN Serve(r) ELSE UNCHANGED <<record, live>>
          /\ UNCHANGED <<foreign, pc, memory, sent, disk>>
    BY <1>27 DEF DeliverLate
  <2>2. Untouched(b)
    BY <1>1, <2>1 DEF Untouched, TypeOK, memory
  <2>3. CASE Accepts(r)
    BY <1>1, <2>1, <2>2, <2>3, ServeOwn DEF InFlight
  <2>4. CASE ~Accepts(r)
    BY <2>1, <2>2, <2>4 DEF Reserved
  <2>. QED
    BY <2>3, <2>4
<1>. QED
  BY <1>2, <1>3, <1>4, <1>5, <1>6, <1>7, <1>8, <1>9, <1>10, <1>11, <1>12, <1>13, <1>14, <1>15, <1>16, <1>17, <1>18, <1>19, <1>20, <1>21, <1>22, <1>23, <1>24, <1>25, <1>26, <1>27 DEF Start, Progress

-----------------------------------------------------------------------------
(* The rest of the world *)

\* Status updates and foreign steps concern neither the record nor an attempt.
LEMMA EnvironmentStep ==
  ASSUME IInv, NEW k \in Kinds, StatusUpdate(k) \/ Interfere(k)
  PROVE  IInv'
<1>1. TypeOK
  BY DEF IInv
<1>2. live' \in [Kinds -> Objects \cup {None}]
  <2>1. live[k] # None => live[k] \in Objects /\ live[k].rv + 1 \in Nat /\ live[k].gen + 1 \in Nat
    BY <1>1 DEF TypeOK, Objects
  <2>2. \A o \in Objects, n, g \in Nat :
          /\ [o EXCEPT !.rv = n] \in Objects
          /\ [o EXCEPT !.gen = g, !.rv = n, !.spec = Foreign] \in Objects
          /\ [o EXCEPT !.rv = n, !.lift = Foreign] \in Objects
    BY DEF Objects, Authors
  <2>3. [uid |-> Foreign, gen |-> 1, rv |-> 1, spec |-> Foreign, lift |-> Foreign] \in Objects
    BY DEF Objects, Authors
  <2>4. live \in [Kinds -> Objects \cup {None}]
    BY <1>1 DEF TypeOK
  <2>5. \E o \in Objects \cup {None} : live' = [live EXCEPT ![k] = o]
    <3>1. CASE live[k] # None
      <4>. DEFINE n == live[k].rv + 1
                  g == live[k].gen + 1
      <4>1. \/ live' = [live EXCEPT ![k] = [live[k] EXCEPT !.rv = n]]
            \/ live' = [live EXCEPT ![k] = [live[k] EXCEPT !.gen = g, !.rv = n, !.spec = Foreign]]
            \/ live' = [live EXCEPT ![k] = [live[k] EXCEPT !.rv = n, !.lift = Foreign]]
            \/ live' = [live EXCEPT ![k] = None]
        BY <2>1, <2>4, <3>1 DEF StatusUpdate, Interfere, Missing, Objects
      <4>2. n \in Nat /\ g \in Nat /\ live[k] \in Objects
        BY <2>1, <3>1
      <4>. HIDE DEF n, g
      <4>. QED
        BY <2>2, <4>1, <4>2
    <3>2. CASE live[k] = None
      BY <2>3, <3>2 DEF StatusUpdate, Interfere, Missing
    <3>. QED
      BY <3>1, <3>2
  <2>. QED
    BY <2>4, <2>5
<1>3. foreign' \in Nat
  BY <1>1 DEF StatusUpdate, Interfere, TypeOK
<1>4. UNCHANGED <<record, late, pc, memory, sent, disk>>
  BY DEF StatusUpdate, Interfere
<1>5. TypeOK'
  BY <1>1, <1>2, <1>3, <1>4 DEF TypeOK, memory, disk
<1>6. ASSUME NEW b \in Attempts
      PROVE  AttemptInv(b)'
  <2>1. Untouched(b) /\ (Reserved(b)' <=> Reserved(b)) /\ AttemptInv(b)
    BY <1>4 DEF Untouched, Reserved, memory, IInv
  <2>. QED
    BY <2>1, Frame
<1>. QED
  BY <1>5, <1>6 DEF IInv

\* A teardown finds every attempt stopped and nothing on its way.
LEMMA TearDownStep ==
  ASSUME IInv, TearDown
  PROVE  IInv'
<1>1. TypeOK
  BY DEF IInv
<1>2. TypeOK'
  BY <1>1 DEF TearDown, TypeOK, memory, disk
<1>3. ASSUME NEW b \in Attempts
      PROVE  AttemptInv(b)'
  <2>1. AttemptInv(b) /\ pc[b] \in {"idle"} \cup Stopped /\ late[b] = {}
    BY DEF IInv, TearDown
  <2>2. Untouched(b) /\ record' = None
    BY DEF TearDown, Untouched, memory
  <2>3. sent[b] = None
    BY <2>1 DEF AttemptInv, Sending, Waiting, Stopped
  <2>4. Planned(b)' /\ Rows(b)'
    BY <2>1, <2>2 DEF AttemptInv, Planned, Rows, Untouched
  <2>5. Finalizing(b)' /\ Sending(b)'
    BY <2>1, <2>2, <2>3
       DEF AttemptInv, Finalizing, Sending, Untouched, Working, Ending, Waiting, Stopped, Shared
  <2>6. Requested(b)' /\ Named(b)'
    BY <2>1, <2>2, <2>3 DEF Requested, Named, InFlight, Untouched, Reserved
  <2>. QED
    BY <2>4, <2>5, <2>6 DEF AttemptInv
<1>. QED
  BY <1>2, <1>3 DEF IInv

-----------------------------------------------------------------------------
(* Theorems *)

LEMMA InitInv ==
  ASSUME Init
  PROVE  IInv
<1>1. TypeOK
  <2>1. \A k \in Kinds : EvaluatedObject(k) \in Objects
    BY EvaluatedAssumption DEF EvaluatedObject, Objects, Authors
  <2>. QED
    BY <2>1 DEF Init, TypeOK, Locations, Modes
<1>2. ASSUME NEW a \in Attempts
      PROVE  AttemptInv(a)
  BY DEF Init, AttemptInv, Planned, Rows, Finalizing, Sending, Requested, Named,
         Reserved, InFlight, Early, Working, Ending, Waiting, Stopped, Shared
<1>. QED
  BY <1>1, <1>2 DEF IInv

\* A step of an attempt keeps the invariant.
LEMMA AttemptStep ==
  ASSUME IInv, NEW a \in Attempts,
         Start(a) \/ Progress(a) \/ DeliverLate(a) \/ Crash(a) \/ LoseMarker(a)
  PROVE  IInv'
<1>1. TypeOK' /\ AttemptInv(a)'
  <2>1. CASE Start(a)
    BY <2>1, PlanLiftStep, PlanUpdateStep, ConfirmStep, VerifyNoopStep, PrepareStep, RefuseStep
       DEF Start
  <2>2. CASE Progress(a)
    BY <2>2, ReserveStep, RefusePreparedStep, CheckRowStep, CheckpointStep, CheckpointFailsStep,
       BecomeReadyStep, LoopFailsStep, FinishStep, SettleStep, SettleFailsStep, PersistStep,
       PersistFailsStep, PublishCandidateStep, CommitStep, AcknowledgeFailsStep,
       AcceptedStep, UnansweredStep, GiveUpStep
       DEF Progress
  <2>. QED
    BY <2>1, <2>2, DeliverLateStep, CrashStep, LoseMarkerStep
<1>2. ASSUME NEW b \in Attempts \ {a}
      PROVE  AttemptInv(b)'
  <2>1. Untouched(b) /\ (Reserved(b)' <=> Reserved(b))
    BY OthersUntouched
  <2>. QED
    BY <2>1, Frame DEF IInv
<1>. QED
  BY <1>1, <1>2 DEF IInv

LEMMA NextInv ==
  ASSUME IInv, [Next]_vars
  PROVE  IInv'
<1>1. CASE Next
  BY <1>1, AttemptStep, EnvironmentStep, TearDownStep DEF Next
<1>2. CASE UNCHANGED vars
  <2>1. TypeOK'
    BY <1>2 DEF IInv, TypeOK, vars
  <2>2. ASSUME NEW b \in Attempts
        PROVE  AttemptInv(b)'
    <3>1. Untouched(b) /\ (Reserved(b)' <=> Reserved(b)) /\ AttemptInv(b)
      BY <1>2 DEF Untouched, Reserved, vars, IInv
    <3>. QED
      BY <3>1, Frame
  <2>. QED
    BY <2>1, <2>2 DEF IInv
<1>. QED
  BY <1>1, <1>2

\* The invariant holds for every number of attempts, in every interleaving.
THEOREM Inductive == Spec => []IInv
<1>1. Init => IInv
  BY InitInv
<1>2. IInv /\ [Next]_vars => IInv'
  BY NextInv
<1>. QED
  BY <1>1, <1>2, PTL DEF Spec

\* Every value an attempt keeps, sends or stores has its type; in particular the
\* record is always one that decodeReleaseState could have produced.
THEOREM TypeCorrect == Spec => []TypeOK
<1>1. IInv => TypeOK
  BY DEF IInv
<1>. QED
  BY <1>1, Inductive, PTL

\* ApplyReleaseLift and applyReleaseUpdate write objects only under their own
\* reservation, whenever their requests arrive.
THEOREM WritesAreReserved == Spec => []WriteUnderReservation
<1>1. IInv => WriteUnderReservation
  <2>. SUFFICES ASSUME IInv, NEW a \in Attempts, NEW k \in Kinds, Shared(a), Writes(a, k)
                PROVE  record # None /\ record.state.op = a
    BY DEF WriteUnderReservation
  <2>1. PICK r \in InFlight(a) : r.target = k
    BY DEF Writes
  <2>. QED
    BY <2>1 DEF IInv, AttemptInv, Requested, Reserved
<1>. QED
  BY <1>1, Inductive, PTL

\* writeReleaseState never takes over or gives back a reservation of another
\* attempt, not even with a request that arrives late.
THEOREM ReservationsAreKept == Spec => NoTakeover
<1>. DEFINE Kept(a) ==
       (record # None /\ record.state.op = a /\ record' # None /\ record'.state.op # a)
         => /\ record'.uid = record.uid /\ record'.state.op = None
            /\ \E r \in InFlight(a) : record' = r.to
<1>1. ASSUME IInv, Next, NEW a \in Attempts,
             record # None, record.state.op = a, record' # None, record'.state.op # a
      PROVE  /\ record'.uid = record.uid /\ record'.state.op = None
             /\ \E r \in InFlight(a) : record' = r.to
  <2>1. \E b \in Attempts : \E r \in InFlight(b) : r.target = "record" /\ Accepts(r) /\ Serve(r)
    <3>1. ~TearDown /\ \A k \in Kinds : ~StatusUpdate(k) /\ ~Interfere(k)
      BY <1>1 DEF TearDown, StatusUpdate, Interfere
    <3>2. PICK b \in Attempts :
            Start(b) \/ Progress(b) \/ DeliverLate(b) \/ Crash(b) \/ LoseMarker(b)
      BY <1>1, <3>1 DEF Next
    <3>3. CASE Answer(b)
      <4>1. Accepts(sent[b]) /\ Serve(sent[b]) /\ sent[b] \in InFlight(b)
        BY <1>1, <3>3 DEF Answer, IInv, AttemptInv, Sending, InFlight
      <4>2. sent[b].target = "record"
        BY <1>1, <4>1 DEF Serve
      <4>. QED
        BY <4>1, <4>2
    <3>4. CASE DeliverLate(b)
      <4>1. PICK r \in late[b] : IF Accepts(r) THEN Serve(r) ELSE UNCHANGED <<record, live>>
        BY <3>4 DEF DeliverLate
      <4>2. Accepts(r) /\ Serve(r) /\ r.target = "record"
        BY <1>1, <4>1 DEF Serve
      <4>. QED
        BY <4>1, <4>2 DEF InFlight
    <3>5. CASE Start(b) \/ Crash(b) \/ LoseMarker(b)
      <4>1. record' = record
        BY <3>5 DEF Start, PlanLift, PlanUpdate, Confirm, VerifyNoop, Prepare, Refuse,
                    Crash, Abandon, LoseMarker, cluster
      <4>. QED
        BY <1>1, <4>1
    <3>6. CASE Progress(b) /\ ~Answer(b)
      <4>1. record' = record
        BY <3>6 DEF Progress, Reserve, RefusePrepared, CheckRow, Checkpoint, CheckpointFails,
                    BecomeReady, LoopFails, Finish, Settle, SettleFails, Persist, PersistFails,
                    PublishCandidate, Commit, AcknowledgeFails, GiveUp, Abandon, cluster
      <4>. QED
        BY <1>1, <4>1
    <3>. QED
      BY <3>2, <3>3, <3>4, <3>5, <3>6
  <2>2. PICK b \in Attempts : \E r \in InFlight(b) : r.target = "record" /\ Accepts(r) /\ Serve(r)
    BY <2>1
  <2>2a. PICK r \in InFlight(b) : r.target = "record" /\ Accepts(r) /\ Serve(r)
    BY <2>2
  <2>3. record = r.from /\ record' = r.to
    BY <2>2a DEF Accepts, Serve
  <2>4. b = a
    BY <1>1, <2>2a, <2>3, NoneAssumption DEF IInv, AttemptInv, Requested
  <2>5. r.to.uid = r.from.uid /\ r.to.state.op = None
    BY <1>1, <2>2a, <2>3, <2>4 DEF IInv, AttemptInv, Requested
  <2>. QED
    BY <2>2a, <2>3, <2>4, <2>5
<1>2. IInv /\ [Next]_vars => [\A a \in Attempts : Kept(a)]_vars
  BY <1>1
<1>. QED
  BY <1>2, Inductive, PTL DEF NoTakeover, Spec
==============================================================================
