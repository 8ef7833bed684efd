------------------------- MODULE SuiteCandidate_proofs -------------------------
(***************************************************************************)
(* What SuiteCandidate promises for any number of evaluations and operators, *)
(* any suite and any number of faults: an answer is the pair's own, a record   *)
(* is earned, and a cleanup deletes and reports what it says.                *)
(***************************************************************************)
EXTENDS SuiteCandidate, FunctionTheorems, FiniteSetTheorems, SequenceTheorems,
        WellFoundedInduction, TLAPS

-----------------------------------------------------------------------------
(* The order of the kinds *)

Pos(k) == CHOOSE i \in DOMAIN CreateOrder : CreateOrder[i] = k

RunSteps == {"idle", "proof", "linked", "over"} \cup Executing \cup Cleaning
Creating == {"create", "creating", "ready", "running"}
Closing == Cleaning \cup {"proof", "linked"}

-----------------------------------------------------------------------------
(* What may still come into being *)

Creates(r) == {q \in requests : q.verb = "create" /\ q.run = r}

\* The CREATE of kind k may still be sent by run r, or take effect.
Pending(r, k) ==
  \/ pc[r] \in {"idle", "admit"}
  \/ pc[r] = "create" /\ Pos(cur[r]) <= Pos(k)
  \/ pc[r] \in {"creating", "ready", "running"} /\ Pos(cur[r]) < Pos(k)
  \/ \E q \in Creates(r) : Pos(q.kind) <= Pos(k)

\* There has never been anything of kind k of run r.
Unborn(r, k) ==
  /\ ~Ours(r, k) /\ k \notin jobs[r] \cup pods[r]
  /\ k \in Tasks => answer[r][k] = "none"

World(r) ==
  /\ \A k \in Kinds : Pending(r, k) => Unborn(r, k)
  /\ \A t \in Tasks : answer[r][t] = "spoiled" => ~(PairIntact(r) /\ Intact(r, t))

-----------------------------------------------------------------------------
(* What a run knows *)

\* A run has the roots that it was acknowledged, and is unsure of one at most.
Placed(r) ==
  /\ of[r] = r
  /\ pc[r] \in {"idle", "admit"} => credited[r] = {} /\ ~unsure[r]
  /\ pc[r] \in Creating =>
       /\ cur[r] \in Kinds
       /\ pc[r] = "ready" => cur[r] \notin Tasks
       /\ pc[r] = "running" => cur[r] \in Tasks
       /\ \A k \in Kinds : Pos(k) < Pos(cur[r]) => k \in roots[r]
       /\ pc[r] \in {"ready", "running"} => cur[r] \in roots[r]
       /\ unsure[r] <=> pc[r] = "creating"

\* A run has one CREATE under way, and knows of it while it lives.
Requesting(r) ==
  /\ \A q \in Creates(r) :
       /\ q.waiter \in {r, None}
       /\ \A w \in Creates(r) : w = q
       /\ pc[r] \in Executing \cup {"idle"} =>
            pc[r] = "creating" /\ q.kind = cur[r] /\ reply[r] = "none"
       /\ pc[r] \in Closing => unsure[r]
  /\ \A q \in requests :
       q.verb = "delete" /\ q.waiter = r => pc[r] \notin Executing \cup {"idle"}

\* What a run that is sure does not have as a root does not exist.
Accounted(r) ==
  pc[r] \in Closing /\ ~unsure[r] => \A k \in Kinds \ roots[r] : Absent(r, {k})

\* The passes that a run counts are attributed, and enough for the cases that are over.
Counted(r) ==
  /\ \A t \in credited[r] :
       /\ ~Pending(r, t)
       /\ answer[r][t] = "good" \/ (answer[r][t] = "none" /\ ~Ours(r, t))
  /\ pc[r] \in Creating =>
       \A i \in DOMAIN Cases :
         Pos(Last(Cases[i].tasks)) < Pos(cur[r]) => Enough(i, credited[r])
  /\ pc[r] \in Closing /\ ~failed[r] => \A i \in DOMAIN Cases : Enough(i, credited[r])

\* What a run says, and the store of it, is settled.
Concluded(r) ==
  /\ pc[r] \in {"proof", "linked"} => ~failed[r] /\ ~unsure[r] /\ NothingLeft(r)
  /\ Recorded(r) =>
       /\ pc[r] \in {"linked", "over"} /\ ~failed[r] /\ NothingLeft(r)
       /\ \A i \in DOMAIN Cases : Enough(i, credited[r])
  /\ pc[r] = "linked" => Recorded(r)
  /\ report[r] # "none" => pc[r] = "over"
  /\ report[r] = "clean" => NothingLeft(r)
  /\ report[r] \in {"passed", "uncertain"} => Recorded(r)
  /\ report[r] \in {"clean", "incomplete"} => ~Recorded(r)

-----------------------------------------------------------------------------
(* What a cleanup knows *)

\* The roots that are left are some of those selected.
Selecting(a) ==
  /\ left[a] \subseteq roots[a]
  /\ pc[a] = "survey" => left[a] = roots[a]
  /\ pc[a] \in {"delete", "poll"} => left[a] # {}

\* An operator selects roots that have been there, and none of them comes back.
Operating(o) ==
  /\ pc[o] \in Cleaning \/ report[o] = "clean" =>
       of[o] \in Runs /\ \A k \in roots[o] : ~Pending(of[o], k)
  /\ report[o] = "clean" => pc[o] = "idle" /\ Absent(of[o], roots[o])

\* A DELETE that may take effect was sent for the object as it is.
Conditional ==
  \A q \in requests :
    q.verb = "delete" /\ q.current =>
      Ours(q.run, q.kind) /\ object[q.run][q.kind].edits = q.approved

Typed ==
  /\ TypeOK /\ pc \in [Actors -> RunSteps]
  /\ \A r \in Runs, k \in Kinds : object[r][k] # None => object[r][k].edits <= faults

Evaluating(r) == Placed(r) /\ Requesting(r) /\ World(r) /\ Accounted(r) /\ Counted(r) /\ Concluded(r)

IInv ==
  /\ Typed /\ Conditional
  /\ \A r \in Runs : Evaluating(r)
  /\ \A a \in Actors : Selecting(a)
  /\ \A o \in Operators : Operating(o)

-----------------------------------------------------------------------------
(* The constants *)

\* Every nonempty set of numbers has a smallest.
LEMMA Smallest ==
  ASSUME NEW T, T \subseteq Nat, T # {}
  PROVE  \E m \in T : \A j \in T : ~(j < m)
<1>1. \E m \in T : \A j \in T : ~(<<j, m>> \in OpToRel(<, Nat))
  BY NatLessThanWellFounded, WFMin
<1>. QED
  BY <1>1 DEF OpToRel

\* Induction up to n: a set with 0 that is closed under the successor holds 0 .. n.
LEMMA UpTo ==
  ASSUME NEW n \in Nat, NEW S, 0 \in S, \A i \in 0 .. n : i \in S /\ i # n => i + 1 \in S
  PROVE  n \in S
<1>. DEFINE T == {i \in 0 .. n : i \notin S}
<1>. SUFFICES ASSUME T # {} PROVE FALSE
  BY n \in 0 .. n
<1>1. T \subseteq Nat
  OBVIOUS
<1>. HIDE DEF T
<1>2. PICK i \in T : \A j \in T : ~(j < i)
  BY <1>1, Smallest
<1>3. i \in 0 .. n /\ i \notin S /\ i # 0
  BY DEF T
<1>4. i - 1 \in 0 .. n /\ i - 1 < i /\ i - 1 # n /\ (i - 1) + 1 = i
  BY <1>3
<1>5. i - 1 \in S
  <2>1. i - 1 \notin S => i - 1 \in T
    BY <1>4 DEF T
  <2>. QED
    BY <1>2, <1>4, <2>1
<1>. QED
  BY <1>3, <1>4, <1>5

\* The first i of the sequences of q, one after the other.
Flat(q, f, i) == IF i = 1 THEN q[i] ELSE f[i - 1] \o q[i]

LEMMA FlatExists ==
  ASSUME NEW q, NEW n \in Nat
  PROVE  \E f : f = [i \in 1 .. n |-> Flat(q, f, i)]
<1>. DEFINE P(m) == \E f : f = [i \in 1 .. m |-> Flat(q, f, i)]
            S == {m \in 0 .. n : P(m)}
<1>1. 0 \in S
  <2>. DEFINE f == [i \in 1 .. 0 |-> 0]
  <2>1. f = [i \in 1 .. 0 |-> Flat(q, f, i)]
    OBVIOUS
  <2>. HIDE DEF f
  <2>2. P(0)
    BY <2>1
  <2>. HIDE DEF P
  <2>. QED
    BY <2>2
<1>2. ASSUME NEW m \in 0 .. n, m \in S, m # n PROVE m + 1 \in S
  <2>1. PICK f : f = [i \in 1 .. m |-> Flat(q, f, i)]
    BY <1>2
  <2>. DEFINE g == [i \in 1 .. m + 1 |-> IF i = m + 1 THEN Flat(q, f, i) ELSE f[i]]
  <2>2. ASSUME NEW i \in 1 .. m + 1 PROVE g[i] = Flat(q, g, i)
    <3>1. i # 1 => i - 1 \in 1 .. m /\ g[i - 1] = f[i - 1]
      <4>1. i # 1 => i - 1 \in 1 .. m /\ i - 1 \in 1 .. m + 1 /\ i - 1 # m + 1
        BY <1>2
      <4>. QED
        BY <4>1
    <3>2. Flat(q, g, i) = Flat(q, f, i)
      <4>. HIDE DEF g
      <4>. QED
        BY <3>1 DEF Flat
    <3>3. i # m + 1 => i \in 1 .. m
      BY <1>2
    <3>4. i # m + 1 => f[i] = Flat(q, f, i)
      BY <2>1, <3>3
    <3>5. g[i] = IF i = m + 1 THEN Flat(q, f, i) ELSE f[i]
      OBVIOUS
    <3>. HIDE DEF g
    <3>. QED
      BY <3>2, <3>4, <3>5
  <2>3. g = [i \in 1 .. m + 1 |-> Flat(q, g, i)]
    <3>1. g = [i \in 1 .. m + 1 |-> g[i]]
      OBVIOUS
    <3>. HIDE DEF g
    <3>. QED
      BY <2>2, <3>1
  <2>4. m + 1 \in 0 .. n
    BY <1>2
  <2>. HIDE DEF g
  <2>5. P(m + 1)
    BY <2>3
  <2>. HIDE DEF P
  <2>. QED
    BY <2>4, <2>5
<1>3. n \in S
  <2>. HIDE DEF S
  <2>. QED
    BY <1>1, <1>2, UpTo
<1>. QED
  BY <1>3

\* Two sequences without repetitions that have nothing in common.
LEMMA Joined ==
  ASSUME NEW S, NEW s \in Seq(S), NEW t \in Seq(S), IsInjective(s), IsInjective(t),
         Range(s) \cap Range(t) = {}
  PROVE  /\ s \o t \in Seq(S) /\ IsInjective(s \o t)
         /\ Range(s \o t) = Range(s) \cup Range(t)
<1>. PICK m \in Nat, n \in Nat : m = Len(s) /\ n = Len(t)
  OBVIOUS
<1>. PICK u : u = s \o t
  OBVIOUS
<1>1. /\ u \in Seq(S) /\ DOMAIN s = 1 .. m /\ DOMAIN t = 1 .. n /\ DOMAIN u = 1 .. m + n
      /\ \A i \in 1 .. m + n : u[i] = IF i <= m THEN s[i] ELSE t[i - m]
  BY ConcatProperties
<1>2. ASSUME NEW i \in 1 .. m + n
      PROVE  \/ i \in DOMAIN s /\ u[i] = s[i]
             \/ i - m \in DOMAIN t /\ i > m /\ u[i] = t[i - m]
  BY <1>1
<1>3. ASSUME NEW i \in DOMAIN u, NEW j \in DOMAIN u, u[i] = u[j] PROVE i = j
  <2>1. \A a \in DOMAIN s, b \in DOMAIN t : s[a] # t[b]
    BY DEF Range
  <2>2. i \in 1 .. m + n /\ j \in 1 .. m + n
    BY <1>1
  <2>3. CASE i \in DOMAIN s /\ u[i] = s[i] /\ j \in DOMAIN s /\ u[j] = s[j]
    BY <1>3, <2>3 DEF IsInjective
  <2>4. CASE /\ i - m \in DOMAIN t /\ i > m /\ u[i] = t[i - m]
             /\ j - m \in DOMAIN t /\ j > m /\ u[j] = t[j - m]
    <3>1. i - m = j - m
      BY <1>3, <2>4 DEF IsInjective
    <3>. QED
      BY <2>2, <3>1
  <2>. QED
    BY <1>2, <1>3, <2>1, <2>2, <2>3, <2>4
<1>4. Range(u) \subseteq Range(s) \cup Range(t)
  BY <1>1, <1>2 DEF Range
<1>5. ASSUME NEW i \in DOMAIN s PROVE s[i] \in Range(u)
  <2>1. i \in 1 .. m + n /\ u[i] = s[i]
    BY <1>1
  <2>. QED
    BY <1>1, <2>1 DEF Range
<1>6. ASSUME NEW i \in DOMAIN t PROVE t[i] \in Range(u)
  <2>1. i + m \in 1 .. m + n /\ ~(i + m <= m) /\ (i + m) - m = i
    BY <1>1
  <2>2. u[i + m] = t[i]
    BY <1>1, <2>1
  <2>. QED
    BY <1>1, <2>1, <2>2 DEF Range
<1>7. Range(s) \cup Range(t) \subseteq Range(u)
  BY <1>5, <1>6 DEF Range
<1>. QED
  BY <1>1, <1>3, <1>4, <1>7 DEF IsInjective

\* Sequences without repetitions and with nothing in common, one after the other.
LEMMA FlattenSays ==
  ASSUME NEW S, NEW q \in Seq(Seq(S)), q # << >>,
         \A i \in DOMAIN q : /\ IsInjective(q[i])
                             /\ \A j \in DOMAIN q : j # i => Range(q[i]) \cap Range(q[j]) = {}
  PROVE  /\ FlattenSeq(q) \in Seq(S) /\ IsInjective(FlattenSeq(q))
         /\ \A i \in DOMAIN q : Range(q[i]) \subseteq Range(FlattenSeq(q))
         /\ \A x \in Range(FlattenSeq(q)) : \E i \in DOMAIN q : x \in Range(q[i])
<1>. PICK n \in Nat : n = Len(q)
  OBVIOUS
<1>1. DOMAIN q = 1 .. n /\ n # 0 /\ \A i \in 1 .. n : q[i] \in Seq(S)
  BY EmptySeq
<1>2. \E f : f = [i \in 1 .. n |-> Flat(q, f, i)]
  BY FlatExists
<1>. DEFINE f == CHOOSE f : f = [i \in 1 .. n |-> Flat(q, f, i)]
<1>3. FlattenSeq(q) = f[n]
  BY <1>1 DEF FlattenSeq, Flat
<1>4. f = [i \in 1 .. n |-> Flat(q, f, i)]
  BY <1>2
<1>. HIDE DEF f
<1>. DEFINE Good(i) == /\ f[i] \in Seq(S) /\ IsInjective(f[i])
                       /\ \A j \in 1 .. i : Range(q[j]) \subseteq Range(f[i])
                       /\ \A x \in Range(f[i]) : \E j \in 1 .. i : x \in Range(q[j])
            G == {i \in 0 .. n : i # 0 => Good(i)}
<1>5. 0 \in G
  OBVIOUS
<1>6. ASSUME NEW i \in 0 .. n, i \in G, i # n PROVE i + 1 \in G
  <2>1. i + 1 \in 1 .. n /\ i + 1 \in 0 .. n /\ (i + 1) - 1 = i /\ (i # 0 => i + 1 # 1)
    BY <1>6
  <2>2. f[i + 1] = Flat(q, f, i + 1)
    BY <1>4, <2>1
  <2>3. q[i + 1] \in Seq(S) /\ IsInjective(q[i + 1])
    BY <1>1, <2>1
  <2>4. CASE i = 0
    <3>1. f[1] = q[1] /\ 1 \in 1 .. n
      BY <2>1, <2>2, <2>4 DEF Flat
    <3>2. Good(1)
      BY <1>1, <3>1
    <3>. HIDE DEF Good
    <3>. QED
      BY <2>1, <2>4, <3>2
  <2>5. CASE i # 0
    <3>1. f[i + 1] = f[i] \o q[i + 1] /\ Good(i)
      BY <1>6, <2>1, <2>2, <2>5 DEF Flat
    <3>2. Range(f[i]) \cap Range(q[i + 1]) = {}
      <4>1. \A j \in 1 .. i : j \in DOMAIN q /\ j # i + 1
        BY <1>1, <1>6
      <4>. QED
        BY <1>1, <2>1, <3>1, <4>1
    <3>3. /\ f[i + 1] \in Seq(S) /\ IsInjective(f[i + 1])
          /\ Range(f[i + 1]) = Range(f[i]) \cup Range(q[i + 1])
      BY <2>3, <3>1, <3>2, Joined
    <3>4. \A j \in 1 .. i + 1 : j \in 1 .. i \/ j = i + 1
      BY <1>6
    <3>5. \A j \in 1 .. i : j \in 1 .. i + 1
      BY <1>6
    <3>6. i + 1 \in 1 .. i + 1
      BY <1>6
    <3>7. Good(i + 1)
      BY <3>1, <3>3, <3>4, <3>5, <3>6
    <3>. HIDE DEF Good
    <3>. QED
      BY <2>1, <3>7
  <2>. QED
    BY <2>4, <2>5
<1>7. n \in G
  <2>. HIDE DEF G
  <2>. QED
    BY <1>5, <1>6, UpTo
<1>8. Good(n)
  BY <1>1, <1>7
<1>. QED
  BY <1>1, <1>3, <1>8

\* The Tasks of the suite in order: those of one case after those of another.
LEMMA TasksInOrder ==
  /\ TaskOrder \in Seq(Tasks) /\ IsInjective(TaskOrder) /\ Tasks # {}
  /\ {"Provider", "Agent"} \cap Tasks = {}
  /\ \A i \in DOMAIN Cases :
       /\ Cases[i].tasks \in Seq(Tasks)
       /\ Cases[i].need \in 1 .. Len(Cases[i].tasks)
       /\ \A j \in DOMAIN Cases : j # i => Range(Cases[i].tasks) \cap Range(Cases[j].tasks) = {}
<1>. DEFINE q == [i \in DOMAIN Cases |-> Cases[i].tasks]
            S == UNION {Range(Cases[i].tasks) : i \in DOMAIN Cases}
<1>. PICK n \in Nat : n = Len(Cases)
  BY CasesAssumption
<1>1. DOMAIN Cases = 1 .. n /\ n # 0
  BY CasesAssumption, EmptySeq
<1>2. ASSUME NEW i \in DOMAIN Cases PROVE Cases[i].tasks \in Seq(S)
  <2>1. Range(Cases[i].tasks) \subseteq S
    OBVIOUS
  <2>. HIDE DEF S
  <2>. QED
    BY <2>1, CasesAssumption, SeqDef
<1>. HIDE DEF S
<1>3. q \in Seq(Seq(S)) /\ Len(q) = n /\ DOMAIN q = DOMAIN Cases
  BY <1>1, <1>2
<1>4. q # << >>
  BY <1>1, <1>3
<1>5. \A i \in DOMAIN q : q[i] = Cases[i].tasks
  OBVIOUS
<1>6. TaskOrder = FlattenSeq(q)
  BY DEF TaskOrder
<1>. HIDE DEF q
<1>7. \A i \in DOMAIN q : /\ IsInjective(q[i])
                          /\ \A j \in DOMAIN q : j # i => Range(q[i]) \cap Range(q[j]) = {}
  BY <1>3, <1>5, CasesAssumption
<1>8. /\ TaskOrder \in Seq(S) /\ IsInjective(TaskOrder)
      /\ \A i \in DOMAIN q : Range(q[i]) \subseteq Range(TaskOrder)
      /\ \A x \in Range(TaskOrder) : \E i \in DOMAIN q : x \in Range(q[i])
  BY <1>3, <1>4, <1>6, <1>7, FlattenSays
<1>9. Tasks = Range(TaskOrder)
  BY DEF Tasks, Range
<1>10. Tasks = S
  BY <1>3, <1>5, <1>8, <1>9 DEF S
<1>11. Tasks # {}
  <2>1. 1 \in DOMAIN Cases
    BY <1>1
  <2>2. Cases[1].tasks \in Seq(S) /\ 1 <= Len(Cases[1].tasks)
    BY <1>2, <2>1, CasesAssumption
  <2>3. Cases[1].tasks[1] \in S
    BY <2>2
  <2>. QED
    BY <1>10, <2>3
<1>12. {"Provider", "Agent"} \cap Tasks = {}
  <2>1. ASSUME NEW t \in Tasks PROVE t \notin {"Provider", "Agent"}
    <3>1. PICK i \in DOMAIN Cases : t \in Range(Cases[i].tasks)
      BY <1>10 DEF S
    <3>. QED
      BY <3>1, CasesAssumption
  <2>. QED
    BY <2>1
<1>. QED
  BY <1>2, <1>8, <1>10, <1>11, <1>12, CasesAssumption

\* The kinds, in the order in which they are created.
LEMMA Order ==
  /\ CreateOrder \in Seq(Kinds) /\ Len(CreateOrder) = Len(TaskOrder) + 2
  /\ CreateOrder[1] = "Provider" /\ CreateOrder[2] = "Agent"
  /\ \A i \in DOMAIN TaskOrder : CreateOrder[i + 2] = TaskOrder[i]
  /\ \A i, j \in DOMAIN CreateOrder : CreateOrder[i] = CreateOrder[j] => i = j
  /\ Len(TaskOrder) \in Nat \ {0}
  /\ Kinds = {"Provider", "Agent"} \cup Tasks
<1>. DEFINE pair == <<"Provider", "Agent">>
<1>1. TaskOrder \in Seq(Tasks) /\ IsInjective(TaskOrder) /\ Tasks # {}
  BY TasksInOrder
<1>. DEFINE S == {"Provider", "Agent"} \cup Tasks
<1>2. pair \in Seq(S) /\ TaskOrder \in Seq(S) /\ Len(pair) = 2
  <2>1. TaskOrder \in Seq(S)
    BY <1>1, SeqDef
  <2>. QED
    BY <2>1
<1>3. /\ CreateOrder \in Seq(S) /\ Len(CreateOrder) = 2 + Len(TaskOrder)
      /\ \A i \in 1 .. 2 + Len(TaskOrder) :
           CreateOrder[i] = IF i <= 2 THEN pair[i] ELSE TaskOrder[i - 2]
  BY <1>2, ConcatProperties DEF CreateOrder
<1>4. Len(TaskOrder) \in Nat /\ DOMAIN TaskOrder = 1 .. Len(TaskOrder)
  BY <1>1
<1>5. Len(TaskOrder) # 0
  BY <1>1, <1>4 DEF Tasks
<1>6. CreateOrder[1] = "Provider" /\ CreateOrder[2] = "Agent"
  BY <1>3, <1>4
<1>7. ASSUME NEW i \in DOMAIN TaskOrder PROVE CreateOrder[i + 2] = TaskOrder[i] /\ TaskOrder[i] \in Tasks
  BY <1>3, <1>4, <1>7 DEF Tasks
<1>8. DOMAIN CreateOrder = 1 .. Len(TaskOrder) + 2
  BY <1>3, <1>4
<1>9. Kinds = S
  <2>1. Kinds \subseteq S
    BY <1>3, <1>8 DEF Kinds
  <2>2. "Provider" \in Kinds /\ "Agent" \in Kinds
    BY <1>4, <1>6, <1>8 DEF Kinds
  <2>3. ASSUME NEW t \in Tasks PROVE t \in Kinds
    <3>1. PICK i \in DOMAIN TaskOrder : TaskOrder[i] = t
      BY DEF Tasks
    <3>2. i + 2 \in DOMAIN CreateOrder /\ CreateOrder[i + 2] = t
      BY <1>4, <1>7, <1>8, <3>1
    <3>. QED
      BY <3>2 DEF Kinds
  <2>. QED
    BY <2>1, <2>2, <2>3
<1>10. ASSUME NEW i \in DOMAIN CreateOrder, NEW j \in DOMAIN CreateOrder, CreateOrder[i] = CreateOrder[j]
       PROVE  i = j
  <2>1. \A n \in DOMAIN CreateOrder : n > 2 => n - 2 \in DOMAIN TaskOrder /\ CreateOrder[n] = TaskOrder[n - 2]
    BY <1>3, <1>4, <1>8
  <2>2. \A n \in DOMAIN CreateOrder : n > 2 => CreateOrder[n] \in Tasks
    BY <2>1 DEF Tasks
  <2>3. i \in 1 .. Len(TaskOrder) + 2 /\ j \in 1 .. Len(TaskOrder) + 2
    BY <1>8
  <2>4. CASE i > 2 /\ j > 2
    <3>1. i - 2 = j - 2
      BY <1>1, <1>10, <2>1, <2>4 DEF IsInjective
    <3>. QED
      BY <2>3, <3>1
  <2>5. CASE i <= 2 /\ j <= 2
    <3>1. i \in {1, 2} /\ j \in {1, 2}
      BY <1>4, <2>3, <2>5
    <3>. QED
      BY <1>6, <1>10, <3>1
  <2>6. CASE (i <= 2 /\ j > 2) \/ (i > 2 /\ j <= 2)
    <3>1. \A n \in 1 .. Len(TaskOrder) + 2 : n <= 2 => CreateOrder[n] \in {"Provider", "Agent"}
      <4>1. \A n \in 1 .. Len(TaskOrder) + 2 : n <= 2 => n \in {1, 2}
        BY <1>4
      <4>. QED
        BY <1>6, <4>1
    <3>. QED
      BY <1>8, <1>10, <2>2, <2>6, <3>1, TasksInOrder
  <2>. QED
    BY <1>4, <2>3, <2>4, <2>5, <2>6
<1>. QED
  BY <1>1, <1>3, <1>4, <1>5, <1>6, <1>7, <1>9, <1>10

\* Every kind has its place, the Provider the first and the Tasks the last.
LEMMA Positions ==
  /\ \A k \in Kinds : /\ Pos(k) \in 1 .. Len(CreateOrder) /\ CreateOrder[Pos(k)] = k
  /\ Pos("Provider") = 1 /\ Pos("Agent") = 2 /\ \A t \in Tasks : Pos(t) > 2
  /\ {"Provider", "Agent"} \subseteq Kinds /\ Tasks \subseteq Kinds
  /\ \A k, l \in Kinds : Pos(k) = Pos(l) => k = l
  /\ Len(CreateOrder) \in Nat /\ Len(CreateOrder) > 2
<1>1. \A k \in Kinds : Pos(k) \in DOMAIN CreateOrder /\ CreateOrder[Pos(k)] = k
  BY DEF Pos, Kinds
<1>2. DOMAIN CreateOrder = 1 .. Len(CreateOrder) /\ Len(CreateOrder) \in Nat /\ Len(CreateOrder) > 2
  BY Order
<1>3. {"Provider", "Agent"} \subseteq Kinds /\ Tasks \subseteq Kinds
  BY Order
<1>4. Pos("Provider") = 1 /\ Pos("Agent") = 2
  BY <1>1, <1>2, <1>3, Order
<1>5. ASSUME NEW t \in Tasks PROVE Pos(t) > 2
  <2>1. Pos(t) \in 1 .. Len(CreateOrder) /\ CreateOrder[Pos(t)] = t
    BY <1>1, <1>2, <1>3
  <2>2. t # "Provider" /\ t # "Agent"
    BY TasksInOrder
  <2>3. Pos(t) # 1 /\ Pos(t) # 2
    BY <2>1, <2>2, Order
  <2>. QED
    BY <1>2, <2>1, <2>3
<1>. QED
  BY <1>1, <1>2, <1>3, <1>4, <1>5

\* The kind created next.
LEMMA Following ==
  ASSUME NEW k \in Kinds, Pos(k) < Len(CreateOrder)
  PROVE  After(k) \in Kinds /\ Pos(After(k)) = Pos(k) + 1
<1>1. After(k) = CreateOrder[1 + Pos(k)]
  BY DEF After, Pos
<1>2. 1 + Pos(k) \in DOMAIN CreateOrder
  BY Positions, Order
<1>3. After(k) \in Kinds /\ CreateOrder[Pos(After(k))] = After(k) /\ Pos(After(k)) \in DOMAIN CreateOrder
  <2>1. After(k) \in Kinds
    BY <1>1, <1>2 DEF Kinds
  <2>2. DOMAIN CreateOrder = 1 .. Len(CreateOrder)
    BY Order
  <2>. QED
    BY <2>1, <2>2, Positions
<1>4. Pos(After(k)) = 1 + Pos(k)
  BY <1>1, <1>2, <1>3, Order
<1>. QED
  BY <1>3, <1>4, Positions

\* The last Task is the last of all.
LEMMA LastTask ==
  /\ Last(TaskOrder) \in Tasks /\ Pos(Last(TaskOrder)) = Len(CreateOrder)
  /\ \A k \in Kinds : Pos(k) = Len(CreateOrder) => k = Last(TaskOrder)
<1>. DEFINE n == Len(TaskOrder)
<1>1. n \in DOMAIN TaskOrder
  BY Order, TasksInOrder
<1>2. Last(TaskOrder) \in Tasks /\ CreateOrder[n + 2] = Last(TaskOrder)
  BY <1>1, Order DEF Last, Tasks
<1>3. Last(TaskOrder) \in Kinds
  BY <1>2, Order
<1>4. n + 2 \in DOMAIN CreateOrder /\ n + 2 = Len(CreateOrder)
  BY Order
<1>5. Pos(Last(TaskOrder)) = n + 2
  <2>1. DOMAIN CreateOrder = 1 .. Len(CreateOrder)
    BY Order
  <2>2. Pos(Last(TaskOrder)) \in DOMAIN CreateOrder /\ CreateOrder[Pos(Last(TaskOrder))] = Last(TaskOrder)
    BY <1>3, <2>1, Positions
  <2>. QED
    BY <1>2, <1>4, <2>2, Order
<1>. QED
  BY <1>2, <1>3, <1>4, <1>5, Positions

\* The kind deleted next is one of those left.
LEMMA NextIsLeft ==
  ASSUME NEW a, left[a] \subseteq Kinds, left[a] # {}
  PROVE  NextRoot(a) \in left[a]
<1>. DEFINE T == {i \in DOMAIN DeleteOrder : DeleteOrder[i] \in left[a]}
            pair == <<"Agent", "Provider">>
<1>1. /\ DOMAIN DeleteOrder = 1 .. Len(DeleteOrder) /\ Len(DeleteOrder) \in Nat
      /\ \A k \in Kinds : \E i \in DOMAIN DeleteOrder : DeleteOrder[i] = k
  <2>1. TaskOrder \in Seq(Kinds) /\ pair \in Seq(Kinds) /\ Len(pair) = 2
    <3>1. TaskOrder \in Seq(Kinds)
      BY TasksInOrder, SeqDef, Positions
    <3>. QED
      BY <3>1, Positions
  <2>2. /\ DeleteOrder \in Seq(Kinds) /\ Len(DeleteOrder) = Len(TaskOrder) + 2
        /\ \A i \in 1 .. Len(TaskOrder) + 2 :
             DeleteOrder[i] = IF i <= Len(TaskOrder) THEN TaskOrder[i] ELSE pair[i - Len(TaskOrder)]
    BY <2>1, ConcatProperties DEF DeleteOrder
  <2>3. Len(TaskOrder) \in Nat /\ DOMAIN TaskOrder = 1 .. Len(TaskOrder)
    BY <2>1
  <2>4. DOMAIN DeleteOrder = 1 .. Len(TaskOrder) + 2
    BY <2>2, <2>3
  <2>5. ASSUME NEW t \in Tasks PROVE \E i \in DOMAIN DeleteOrder : DeleteOrder[i] = t
    <3>1. PICK i \in DOMAIN TaskOrder : TaskOrder[i] = t
      BY DEF Tasks
    <3>. QED
      BY <2>2, <2>3, <2>4, <3>1
  <2>6. DeleteOrder[Len(TaskOrder) + 1] = "Agent" /\ DeleteOrder[Len(TaskOrder) + 2] = "Provider"
    BY <2>2, <2>3
  <2>7. Len(TaskOrder) + 1 \in DOMAIN DeleteOrder /\ Len(TaskOrder) + 2 \in DOMAIN DeleteOrder
    BY <2>3, <2>4
  <2>8. Kinds = {"Provider", "Agent"} \cup Tasks
    BY Order
  <2>. QED
    BY <2>2, <2>3, <2>4, <2>5, <2>6, <2>7, <2>8
<1>2. T \subseteq Nat /\ T # {}
  BY <1>1
<1>. HIDE DEF T
<1>3. PICK m \in T : \A j \in T : ~(j < m)
  BY <1>2, Smallest
<1>4. m \in DOMAIN DeleteOrder /\ DeleteOrder[m] \in left[a]
  BY DEF T
<1>5. ASSUME NEW j \in 1 .. m - 1 PROVE DeleteOrder[j] \notin left[a]
  BY <1>1, <1>3, <1>4 DEF T
<1>. QED
  BY <1>4, <1>5 DEF NextRoot

\* There are finitely many Tasks, and every case ends with one of its own.
LEMMA CasesEnd ==
  /\ IsFiniteSet(Tasks)
  /\ \A i \in DOMAIN Cases :
       /\ Last(Cases[i].tasks) \in Tasks /\ CaseOf(Last(Cases[i].tasks)) = i
       /\ Cases[i].need \in Nat
<1>1. IsFiniteSet(Tasks)
  <2>1. DOMAIN TaskOrder = 1 .. Len(TaskOrder) /\ Len(TaskOrder) \in Nat
    BY TasksInOrder
  <2>2. IsFiniteSet(DOMAIN TaskOrder)
    BY <2>1, FS_Interval
  <2>3. TaskOrder \in Surjection(DOMAIN TaskOrder, Tasks)
    BY <2>1, TasksInOrder DEF Surjection, Tasks
  <2>. QED
    BY <2>2, <2>3, FS_Surjection
<1>2. ASSUME NEW i \in DOMAIN Cases
      PROVE  /\ Last(Cases[i].tasks) \in Tasks /\ CaseOf(Last(Cases[i].tasks)) = i
             /\ Cases[i].need \in Nat
  <2>. DEFINE s == Cases[i].tasks
              t == Last(s)
  <2>1. s \in Seq(Tasks) /\ Cases[i].need \in 1 .. Len(s)
    BY TasksInOrder
  <2>2. Len(s) \in DOMAIN s /\ t \in Tasks /\ s[Len(s)] = t
    BY <2>1 DEF Last
  <2>3. \A j \in DOMAIN Cases : (\E n \in DOMAIN Cases[j].tasks : Cases[j].tasks[n] = t) => j = i
    <3>1. t \in Range(s)
      BY <2>2 DEF Range
    <3>2. \A j \in DOMAIN Cases : j # i => Range(s) \cap Range(Cases[j].tasks) = {}
      BY TasksInOrder
    <3>. QED
      BY <3>1, <3>2 DEF Range
  <2>4. \E n \in DOMAIN Cases[i].tasks : Cases[i].tasks[n] = t
    BY <2>2
  <2>. HIDE DEF t
  <2>5. CaseOf(t) = i
    BY <2>3, <2>4 DEF CaseOf
  <2>. QED
    BY <2>1, <2>2, <2>5 DEF t
<1>. QED
  BY <1>1, <1>2

\* More passes are enough where fewer are.
LEMMA EnoughGrows ==
  ASSUME NEW i \in DOMAIN Cases, NEW S, NEW T, S \subseteq T, T \subseteq Tasks, Enough(i, S)
  PROVE  Enough(i, T)
<1>. DEFINE A == S \cap TasksOf(i)
            B == T \cap TasksOf(i)
<1>1. IsFiniteSet(B)
  BY CasesEnd, FS_Subset
<1>2. A \subseteq B
  OBVIOUS
<1>. HIDE DEF A, B
<1>3. Cardinality(A) <= Cardinality(B) /\ Cardinality(A) \in Nat /\ Cardinality(B) \in Nat
  BY <1>1, <1>2, FS_Subset, FS_CardinalityType
<1>4. Cardinality(A) >= Cases[i].need /\ Cases[i].need \in Nat
  BY CasesEnd DEF Enough, A
<1>5. Cardinality(B) >= Cases[i].need
  BY <1>3, <1>4
<1>. QED
  BY <1>5 DEF Enough, B

-----------------------------------------------------------------------------
(* Types *)

OperatorSteps == {"idle"} \cup Cleaning
Locking == Executing \cup Cleaning \cup {"proof"}

Places ==
  /\ pc \in [Actors -> RunSteps]
  /\ \A r \in Runs : pc[r] \in RunSteps /\ (pc[r] \in Locking => lock = r /\ Len(store) < MaxRecords)
  /\ \A o \in Operators : pc[o] \in OperatorSteps
  /\ lock \in Runs \cup {None} /\ store \in Seq(Runs \cup {Earlier}) /\ Len(store) <= MaxRecords

Memories ==
  /\ of \in [Actors -> Runs \cup {None}]
  /\ cur \in [Runs -> Kinds \cup {None}]
  /\ roots \in [Actors -> SUBSET Kinds]
  /\ unsure \in [Runs -> BOOLEAN]
  /\ credited \in [Runs -> SUBSET Tasks]
  /\ failed \in [Runs -> BOOLEAN]
  /\ approved \in [Actors -> [Kinds -> 0 .. MaxFaults]]
  /\ known \in [Actors -> SUBSET Tasks]
  /\ left \in [Actors -> SUBSET Kinds]

Replies ==
  /\ reply \in [Actors -> {"none", "ok", "refused"}]
  /\ report \in [Actors -> {"none", "passed", "uncertain", "clean", "incomplete"}]

Things ==
  /\ object \in [Runs -> [Kinds -> Objects \cup {None}]]
  /\ jobs \in [Runs -> SUBSET Tasks]
  /\ pods \in [Runs -> SUBSET Tasks]
  /\ answer \in [Runs -> [Tasks -> {"none", "good", "spoiled", "bad"}]]
  /\ faults \in 0 .. MaxFaults
  /\ \A r \in Runs, k \in Kinds : object[r][k] # None => object[r][k].edits <= faults

\* The types, by the parts that steps leave alone together.
LEMMA Types == Typed <=> Places /\ Memories /\ Replies /\ Things /\ requests \subseteq Requests
BY DEF Typed, TypeOK, Places, Memories, Replies, Things, RunSteps, OperatorSteps, Locking

\* The same of the next state.
LEMMA TypesAfter == Typed' <=> Places' /\ Memories' /\ Replies' /\ Things' /\ (requests \subseteq Requests)'
BY DEF Typed, TypeOK, Places, Memories, Replies, Things, RunSteps, OperatorSteps, Locking

\* The actors are different, and none is None.
LEMMA Different ==
  /\ None \notin Actors /\ Foreign \notin Actors /\ Earlier \notin Actors
  /\ \A o \in Operators : o \notin Runs /\ o \in Actors
  /\ \A r \in Runs : r \notin Operators /\ r \in Actors
  /\ \A a \in Actors : a \notin Runs => a \in Operators
BY ActorsAssumption DEF Actors

\* What nobody touched keeps its type.
LEMMA ThingsKept ==
  ASSUME Things, UNCHANGED cluster, faults' = faults \/ (faults < MaxFaults /\ faults' = faults + 1)
  PROVE  Things'
<1>1. faults \in 0 .. MaxFaults /\ MaxFaults \in Nat
  BY BoundsAssumption DEF Things
<1>2. faults' \in 0 .. MaxFaults /\ faults <= faults'
  BY <1>1
<1>3. ASSUME NEW r \in Runs, NEW k \in Kinds, object[r][k] # None PROVE object[r][k].edits <= faults'
  <2>1. object[r][k] \in Objects /\ object[r][k].edits <= faults
    BY <1>3 DEF Things
  <2>2. object[r][k].edits \in 0 .. MaxFaults
    BY <2>1 DEF Objects
  <2>. QED
    BY <1>1, <1>2, <2>1, <2>2
<1>. QED
  BY <1>2, <1>3 DEF Things, cluster

\* An actor that moves on keeps the store's lock, and has it where it needs it.
LEMMA Moved ==
  ASSUME Places, NEW a \in Actors, NEW step, Go(a, step), UNCHANGED evidence,
         a \in Runs => step \in RunSteps, a \in Operators => step \in OperatorSteps,
         a \in Runs /\ step \in Locking => pc[a] \in Locking
  PROVE  Places' /\ pc'[a] = step /\ \A b \in Actors \ {a} : pc'[b] = pc[b]
<1>1. pc' = [pc EXCEPT ![a] = step] /\ lock' = lock /\ store' = store
  BY DEF Go, evidence
<1>2. pc'[a] = step /\ pc' \in [Actors -> RunSteps] /\ \A b \in Actors \ {a} : pc'[b] = pc[b]
  BY <1>1, Different DEF Places, RunSteps, OperatorSteps
<1>3. ASSUME NEW r \in Runs
      PROVE  pc'[r] \in RunSteps /\ (pc'[r] \in Locking => lock = r /\ Len(store) < MaxRecords)
  BY <1>2, Different DEF Places
<1>4. ASSUME NEW o \in Operators PROVE pc'[o] \in OperatorSteps
  BY <1>2, Different DEF Places
<1>. QED
  BY <1>1, <1>2, <1>3, <1>4 DEF Places

\* What is left on its way when nobody waits for it any more.
LEMMA AbandonedSays ==
  ASSUME requests \subseteq Requests, NEW a \in Actors, NEW q \in Abandoned(a)
  PROVE  /\ q \in Requests
         /\ \E w \in requests :
              /\ w.verb = q.verb /\ w.run = q.run /\ w.kind = q.kind
              /\ w.current = q.current /\ w.approved = q.approved
              /\ (w.waiter # a /\ q = w) \/ (w.waiter = a /\ q = [w EXCEPT !.waiter = None])
         /\ q.waiter # a
<1>1. PICK w \in requests : q = IF w.waiter = a THEN [w EXCEPT !.waiter = None] ELSE w
  BY DEF Abandoned
<1>2. w \in Requests
  OBVIOUS
<1>3. None # a
  BY Different
<1>4. CASE w.waiter # a
  BY <1>1, <1>2, <1>4
<1>5. ASSUME w.waiter = a
      PROVE  /\ q \in Requests /\ q.waiter = None /\ q = [w EXCEPT !.waiter = None]
             /\ w.verb = q.verb /\ w.run = q.run /\ w.kind = q.kind
             /\ w.current = q.current /\ w.approved = q.approved
  <2>1. q = [w EXCEPT !.waiter = None]
    BY <1>1, <1>5
  <2>. QED
    BY <1>2, <2>1 DEF Requests
<1>. QED
  BY <1>3, <1>4, <1>5

\* What an actor asks for is a request.
LEMMA Sent ==
  ASSUME Memories, requests \subseteq Requests, NEW a \in Actors, NEW verb \in {"create", "delete"},
         NEW r \in Runs, NEW k \in Kinds, Send(a, verb, r, k)
  PROVE  \E q \in Requests :
           /\ requests' = requests \cup {q} /\ requests' \subseteq Requests
           /\ q = [verb |-> verb, waiter |-> a, run |-> r, kind |-> k,
                   current |-> TRUE, approved |-> approved[a][k]]
<1>1. approved[a][k] \in 0 .. MaxFaults
  BY DEF Memories
<1>. DEFINE q == [verb |-> verb, waiter |-> a, run |-> r, kind |-> k,
                  current |-> TRUE, approved |-> approved[a][k]]
<1>2. q \in Requests
  BY <1>1 DEF Requests
<1>3. requests' = requests \cup {q}
  BY DEF Send
<1>. QED
  BY <1>2, <1>3

Said == {"none", "passed", "uncertain", "clean", "incomplete"}

\* The end of an actor keeps the types.
LEMMA EndTyped ==
  ASSUME Typed, NEW a \in Actors, NEW said \in Said, End(a, said), UNCHANGED <<cluster, store>>,
         faults' = faults \/ (faults < MaxFaults /\ faults' = faults + 1)
  PROVE  Typed'
<1>1. Places /\ Memories /\ Replies /\ Things /\ requests \subseteq Requests
  BY Types
<1>2. Things'
  BY <1>1, ThingsKept
<1>3. (requests \subseteq Requests)'
  BY <1>1, AbandonedSays DEF End
<1>4. Places'
  <2>1. /\ pc' = [pc EXCEPT ![a] = IF a \in Runs THEN "over" ELSE "idle"]
        /\ lock' = (IF lock = a THEN None ELSE lock) /\ store' = store
    BY DEF End, Go
  <2>2. ASSUME NEW r \in Runs
        PROVE  pc'[r] \in RunSteps /\ (pc'[r] \in Locking => lock' = r /\ Len(store) < MaxRecords)
    BY <1>1, <2>1, <2>2, Different DEF Places, RunSteps, Locking, Executing, Cleaning
  <2>3. ASSUME NEW o \in Operators PROVE pc'[o] \in OperatorSteps
    BY <1>1, <2>1, Different DEF Places, OperatorSteps
  <2>4. pc' \in [Actors -> RunSteps]
    BY <1>1, <2>1 DEF Places, RunSteps
  <2>5. lock' \in Runs \cup {None}
    BY <1>1, <2>1 DEF Places
  <2>. QED
    BY <1>1, <2>1, <2>2, <2>3, <2>4, <2>5 DEF Places
<1>5. Replies'
  <2>1. /\ reply' = [reply EXCEPT ![a] = "none"]
        /\ \E s \in Said : report' = [report EXCEPT ![a] = s]
    BY DEF End, Said
  <2>. QED
    BY <1>1, <2>1 DEF Replies, Said
<1>6. Memories'
  <2>1. of' \in [Actors -> Runs \cup {None}] /\ roots' \in [Actors -> SUBSET Kinds]
    BY <1>1 DEF End, Memories
  <2>2. approved' \in [Actors -> [Kinds -> 0 .. MaxFaults]]
    BY <1>1, BoundsAssumption DEF End, Memories
  <2>3. known' \in [Actors -> SUBSET Tasks] /\ left' \in [Actors -> SUBSET Kinds]
    BY <1>1 DEF End, Memories
  <2>4. cur' \in [Runs -> Kinds \cup {None}]
    BY <1>1 DEF End, Memories
  <2>5. unsure' \in [Runs -> BOOLEAN] /\ failed' \in [Runs -> BOOLEAN]
    BY <1>1 DEF End, Memories
  <2>6. credited' \in [Runs -> SUBSET Tasks]
    BY <1>1 DEF End, Memories
  <2>. QED
    BY <2>1, <2>2, <2>3, <2>4, <2>5, <2>6 DEF Memories
<1>. QED
  BY <1>2, <1>3, <1>4, <1>5, <1>6, TypesAfter

\* A kind that is being created has a place of its own.
LEMMA Current ==
  ASSUME IInv, NEW r \in Runs, pc[r] \in Creating
  PROVE  /\ cur[r] \in Kinds /\ Pos(cur[r]) \in 1 .. Len(CreateOrder)
         /\ pc[r] = "ready" => After(cur[r]) \in Kinds /\ Pos(After(cur[r])) = Pos(cur[r]) + 1
         /\ pc[r] = "running" => cur[r] \in Tasks
         /\ pc[r] = "running" /\ cur[r] # Last(TaskOrder) =>
              After(cur[r]) \in Kinds /\ Pos(After(cur[r])) = Pos(cur[r]) + 1
<1>1. Placed(r)
  BY DEF IInv, Evaluating
<1>2. cur[r] \in Kinds /\ Pos(cur[r]) \in 1 .. Len(CreateOrder)
  BY <1>1, Positions DEF Placed
<1>3. pc[r] = "ready" => Pos(cur[r]) < Len(CreateOrder)
  <2>1. pc[r] = "ready" => cur[r] \in {"Provider", "Agent"}
    BY <1>1, <1>2, Order DEF Placed
  <2>. QED
    BY <2>1, Positions
<1>4. cur[r] # Last(TaskOrder) => Pos(cur[r]) < Len(CreateOrder)
  BY <1>2, LastTask, Positions
<1>. QED
  BY <1>1, <1>2, <1>3, <1>4, Following DEF Placed

\* Placement and execution keep the types.
LEMMA EvaluateTyped ==
  ASSUME IInv, NEW r \in Runs,
         \/ Open(r) \/ Refuse(r) \/ Admit(r) \/ SendCreate(r) \/ Created(r) \/ BecomeReady(r)
         \/ Judge(r) \/ Stop(r) \/ Link(r)
  PROVE  Typed'
<1>1. Places /\ Memories /\ Replies /\ Things /\ requests \subseteq Requests /\ Typed
  BY Types DEF IInv
<1>2. Things'
  <2>1. UNCHANGED cluster /\ faults' = faults
    BY DEF Open, Refuse, Admit, SendCreate, Created, BecomeReady, Judge, Stop, Link
  <2>. QED
    BY <1>1, <2>1, ThingsKept
<1>3. r \in Actors /\ r \notin Operators /\ pc[r] \in RunSteps
  BY <1>1, Different DEF Places
<1>4. pc[r] = "create" => cur[r] \in Kinds
  BY Current DEF Creating
<1>5. CASE Open(r)
  <2>1. Places'
    <3>1. /\ pc' = [pc EXCEPT ![r] = "admit"] /\ lock = None /\ lock' = r /\ store' = store
          /\ Len(store) < MaxRecords
      BY <1>5 DEF Open, Go
    <3>2. ASSUME NEW s \in Runs
          PROVE  pc'[s] \in RunSteps /\ (pc'[s] \in Locking => lock' = s /\ Len(store) < MaxRecords)
      BY <1>1, <3>1, Different DEF Places, RunSteps, Executing, Cleaning
    <3>3. \A o \in Operators : pc'[o] \in OperatorSteps
      BY <1>1, <1>3, <3>1, Different DEF Places
    <3>. QED
      BY <1>1, <3>1, <3>2, <3>3 DEF Places
  <2>2. Memories' /\ Replies' /\ requests' = requests
    BY <1>1, <1>5 DEF Open, Memories, Replies, execution, judged, cleanup
  <2>. QED
    BY <1>1, <1>2, <2>1, <2>2, TypesAfter
<1>6. CASE Refuse(r)
  <2>1. Go(r, "over") /\ UNCHANGED evidence
    BY <1>6 DEF Refuse
  <2>2. Places'
    BY <1>1, <1>3, <2>1, Moved DEF RunSteps, Locking, Executing, Cleaning
  <2>3. Memories' /\ Replies' /\ requests' = requests
    BY <1>1, <1>6 DEF Refuse, Memories, Replies, execution, judged, cleanup
  <2>. QED
    BY <1>1, <1>2, <2>2, <2>3, TypesAfter
<1>7. CASE Admit(r)
  <2>1. Go(r, "create") /\ UNCHANGED evidence /\ pc[r] = "admit"
    BY <1>7 DEF Admit
  <2>2. Places'
    BY <1>1, <1>3, <2>1, Moved DEF RunSteps, Locking, Executing
  <2>3. Memories' /\ Replies' /\ requests' = requests
    <3>1. "Provider" \in Kinds
      BY Positions
    <3>. QED
      BY <1>1, <1>7, <3>1 DEF Admit, Memories, Replies, cleanup
  <2>. QED
    BY <1>1, <1>2, <2>2, <2>3, TypesAfter
<1>8. CASE SendCreate(r)
  <2>1. Go(r, "creating") /\ UNCHANGED evidence /\ pc[r] = "create" /\ Send(r, "create", r, cur[r])
    BY <1>8 DEF SendCreate
  <2>2. Places'
    BY <1>1, <1>3, <2>1, Moved DEF RunSteps, Locking, Executing
  <2>3. Memories'
    BY <1>1, <1>8 DEF SendCreate, Memories, cleanup
  <2>4. Replies'
    BY <1>1, <1>3, <1>8 DEF SendCreate, Send, Replies
  <2>5. (requests \subseteq Requests)'
    BY <1>1, <1>3, <1>4, <2>1, Sent
  <2>. QED
    BY <1>2, <2>2, <2>3, <2>4, <2>5, TypesAfter
<1>9. CASE Created(r)
  <2>1. UNCHANGED evidence /\ pc[r] = "creating" /\ Go(r, IF cur[r] \in Tasks THEN "running" ELSE "ready")
    BY <1>9 DEF Created
  <2>2. Places'
    BY <1>1, <1>3, <2>1, Moved DEF RunSteps, Locking, Executing
  <2>3. Memories'
    <3>1. cur[r] \in Kinds
      BY <2>1, Current DEF Creating
    <3>. QED
      BY <1>1, <1>3, <1>9, <3>1 DEF Created, Memories
  <2>4. Replies' /\ requests' = requests
    BY <1>1, <1>9 DEF Created, Replies
  <2>. QED
    BY <1>1, <1>2, <2>2, <2>3, <2>4, TypesAfter
<1>10. CASE BecomeReady(r)
  <2>1. UNCHANGED evidence /\ pc[r] = "ready" /\ Go(r, "create")
    BY <1>10 DEF BecomeReady
  <2>2. Places'
    BY <1>1, <1>3, <2>1, Moved DEF RunSteps, Locking, Executing
  <2>3. Memories'
    <3>1. After(cur[r]) \in Kinds
      BY <2>1, Current DEF Creating
    <3>. QED
      BY <1>1, <1>10, <3>1 DEF BecomeReady, Memories, cleanup
  <2>4. Replies' /\ requests' = requests
    BY <1>1, <1>10 DEF BecomeReady, Replies
  <2>. QED
    BY <1>1, <1>2, <2>2, <2>3, <2>4, TypesAfter
<1>11. CASE Judge(r)
  <2>1. /\ UNCHANGED evidence /\ pc[r] = "running"
        /\ \/ Go(r, "survey") /\ left' = [left EXCEPT ![r] = roots[r]] /\ cur' = [cur EXCEPT ![r] = None]
           \/ /\ Go(r, "create") /\ cur' = [cur EXCEPT ![r] = After(cur[r])] /\ UNCHANGED left
              /\ cur[r] # Last(TaskOrder)
        /\ \E passes \in {credited[r], credited[r] \cup {cur[r]}} : credited' = [credited EXCEPT ![r] = passes]
        /\ UNCHANGED <<unsure, failed, of, roots, approved, known, reply, report, requests>>
    BY <1>11 DEF Judge
  <2>2. Places'
    <3>1. CASE Go(r, "survey")
      BY <1>1, <1>3, <2>1, <3>1, Moved DEF RunSteps, Locking, Executing, Cleaning
    <3>2. CASE Go(r, "create")
      BY <1>1, <1>3, <2>1, <3>2, Moved DEF RunSteps, Locking, Executing
    <3>. QED
      BY <2>1, <3>1, <3>2
  <2>3. Memories'
    <3>1. cur[r] \in Tasks
      BY <2>1, Current DEF Creating
    <3>2. cur[r] # Last(TaskOrder) => After(cur[r]) \in Kinds
      BY <2>1, Current DEF Creating
    <3>3. cur' \in [Runs -> Kinds \cup {None}] /\ left' \in [Actors -> SUBSET Kinds]
      BY <1>1, <1>3, <2>1, <3>2 DEF Memories
    <3>4. credited' \in [Runs -> SUBSET Tasks]
      BY <1>1, <2>1, <3>1 DEF Memories
    <3>. QED
      BY <1>1, <2>1, <3>3, <3>4 DEF Memories
  <2>4. Replies'
    BY <1>1, <2>1 DEF Replies
  <2>. QED
    BY <1>1, <1>2, <2>1, <2>2, <2>3, <2>4, TypesAfter
<1>12. CASE Stop(r)
  <2>1. Go(r, "survey") /\ UNCHANGED evidence /\ pc[r] \in Executing
    BY <1>12 DEF Stop, Fail
  <2>2. Places'
    BY <1>1, <1>3, <2>1, Moved DEF RunSteps, Locking, Cleaning
  <2>3. Memories' /\ Replies'
    BY <1>1, <1>3, <1>12 DEF Stop, Fail, Memories, Replies
  <2>4. (requests \subseteq Requests)'
    BY <1>1, <1>3, <1>12, AbandonedSays DEF Stop, Fail
  <2>. QED
    BY <1>2, <2>2, <2>3, <2>4, TypesAfter
<1>13. CASE Link(r)
  <2>1. /\ pc' = [pc EXCEPT ![r] = "linked"] /\ pc[r] = "proof" /\ lock' = lock
        /\ store' = Append(store, r)
    BY <1>13 DEF Link, Go
  <2>2. /\ lock = r /\ store \in Seq(Runs \cup {Earlier}) /\ Len(store) < MaxRecords
    BY <1>1, <2>1 DEF Places, Locking
  <2>3. store' \in Seq(Runs \cup {Earlier}) /\ Len(store') <= MaxRecords
    BY <2>1, <2>2, BoundsAssumption
  <2>4. ASSUME NEW s \in Runs
        PROVE  pc'[s] \in RunSteps /\ pc'[s] \notin Locking
    <3>1. pc[s] \in RunSteps /\ (pc[s] \in Locking => s = r)
      BY <1>1, <2>2 DEF Places
    <3>2. pc'[s] = IF s = r THEN "linked" ELSE pc[s]
      BY <1>1, <2>1, <1>3, Different DEF Places
    <3>3. "linked" \in RunSteps /\ "linked" \notin Locking
      BY DEF RunSteps, Locking, Executing, Cleaning
    <3>. QED
      BY <3>1, <3>2, <3>3
  <2>5. \A o \in Operators : pc'[o] \in OperatorSteps
    BY <1>1, <1>3, <2>1, Different DEF Places
  <2>6. Places'
    BY <1>1, <2>1, <2>3, <2>4, <2>5 DEF Places
  <2>7. Memories' /\ Replies' /\ requests' = requests
    BY <1>1, <1>13 DEF Link, Memories, Replies, execution, judged, cleanup
  <2>. QED
    BY <1>1, <1>2, <2>6, <2>7, TypesAfter
<1>. QED
  BY <1>5, <1>6, <1>7, <1>8, <1>9, <1>10, <1>11, <1>12, <1>13

\* The kind that a cleanup deletes next.
LEMMA Chosen ==
  ASSUME IInv, NEW a \in Actors, pc[a] \in {"delete", "poll"}
  PROVE  NextRoot(a) \in left[a] /\ NextRoot(a) \in roots[a] /\ NextRoot(a) \in Kinds
<1>1. left[a] \subseteq roots[a] /\ left[a] # {} /\ roots[a] \subseteq Kinds
  BY DEF IInv, Selecting, Typed, TypeOK
<1>. QED
  BY <1>1, NextIsLeft

\* Who cleans up, cleans up for a run.
LEMMA CleansFor ==
  ASSUME IInv, NEW a \in Actors, pc[a] \in Cleaning
  PROVE  of[a] \in Runs /\ (a \in Runs => of[a] = a) /\ (a \in Operators => a \notin Runs)
<1>1. a \in Runs => of[a] = a
  BY DEF IInv, Evaluating, Placed
<1>2. a \in Operators => of[a] \in Runs
  BY DEF IInv, Operating
<1>. QED
  BY <1>1, <1>2, Different

\* The step of a cleanup that goes on.
Works(a) == Survey(a) \/ Skip(a) \/ SendDelete(a) \/ Poll(a) \/ Quiet(a)

\* What such a step changes.
LEMMA WorkSays ==
  ASSUME IInv, NEW a \in Actors, Works(a)
  PROVE  /\ pc[a] \in Cleaning
         /\ \E step \in Cleaning : pc' = [pc EXCEPT ![a] = step]
         /\ UNCHANGED <<cluster, evidence, execution, of, roots, approved, report, faults>>
         /\ \E S \in SUBSET Tasks : known' = [known EXCEPT ![a] = S]
         /\ \E S \in SUBSET left[a] : left' = [left EXCEPT ![a] = S]
         /\ pc'[a] # "survey" /\ (pc'[a] \in {"delete", "poll"} => left'[a] # {})
         /\ \E s \in {"none", "ok", reply[a]} : reply' = [reply EXCEPT ![a] = s]
         /\ \/ requests' = requests
            \/ /\ Send(a, "delete", of[a], NextRoot(a)) /\ pc[a] = "delete" /\ NextRoot(a) \in Kinds
               /\ Ours(of[a], NextRoot(a)) /\ ~Changed(a, NextRoot(a))
<1>1. Places /\ Memories /\ Replies /\ Things
  BY Types DEF IInv
<1>2. /\ pc \in [Actors -> RunSteps] /\ known \in [Actors -> SUBSET Tasks] /\ left \in [Actors -> SUBSET Kinds]
      /\ reply \in [Actors -> {"none", "ok", "refused"}] /\ left[a] \subseteq roots[a]
      /\ (pc[a] = "survey" => left[a] = roots[a]) /\ (pc[a] \in {"delete", "poll"} => left[a] # {})
  BY <1>1 DEF Places, Memories, Replies, IInv, Selecting
<1>3. pc[a] \in Cleaning => Found(a) \in SUBSET Tasks
  <2>1. pc[a] \in Cleaning => jobs[of[a]] \subseteq Tasks
    BY <1>1, CleansFor DEF Things
  <2>. QED
    BY <1>2, <2>1 DEF Found
<1>4. /\ known = [known EXCEPT ![a] = known[a]] /\ left = [left EXCEPT ![a] = left[a]]
      /\ reply = [reply EXCEPT ![a] = reply[a]] /\ pc = [pc EXCEPT ![a] = pc[a]]
  BY <1>2
<1>5. CASE Survey(a)
  <2>1. /\ pc[a] = "survey" /\ known' = [known EXCEPT ![a] = Found(a)]
        /\ pc' = [pc EXCEPT ![a] = IF roots[a] = {} THEN "final" ELSE "delete"]
        /\ UNCHANGED <<cluster, requests, evidence, execution, of, roots, approved, left, reply, report, faults>>
    BY <1>5 DEF Survey, Go
  <2>2. pc'[a] = IF roots[a] = {} THEN "final" ELSE "delete"
    BY <1>2, <2>1
  <2>. QED
    BY <1>2, <1>3, <1>4, <2>1, <2>2 DEF Cleaning
<1>6. ASSUME NEW k \in left[a], Advance(a, k)
      PROVE  /\ \E step \in {"quiet", "final", "delete"} : pc' = [pc EXCEPT ![a] = step] /\ pc'[a] = step
             /\ \E S \in SUBSET left[a] : left' = [left EXCEPT ![a] = S]
             /\ pc'[a] = "delete" => left'[a] # {}
             /\ reply' = [reply EXCEPT ![a] = "none"]
  <2>1. left' = [left EXCEPT ![a] = left[a] \ {k}] /\ left'[a] = left[a] \ {k}
    BY <1>2, <1>6 DEF Advance
  <2>2. PICK step \in {"quiet", "final", "delete"} :
           pc' = [pc EXCEPT ![a] = step] /\ (step = "delete" => left[a] # {k})
    BY <1>6 DEF Advance, Go
  <2>. QED
    BY <1>2, <1>6, <2>1, <2>2 DEF Advance
<1>7. CASE Skip(a)
  <2>1. /\ pc[a] = "delete" /\ Advance(a, NextRoot(a))
        /\ UNCHANGED <<cluster, requests, evidence, execution, of, roots, approved, known, report, faults>>
    BY <1>7 DEF Skip
  <2>2. NextRoot(a) \in left[a]
    BY <2>1, Chosen
  <2>. QED
    BY <1>2, <1>4, <1>6, <2>1, <2>2 DEF Cleaning
<1>8. CASE SendDelete(a)
  <2>1. /\ pc[a] = "delete" /\ pc' = [pc EXCEPT ![a] = "poll"] /\ pc'[a] = "poll"
        /\ Ours(of[a], NextRoot(a)) /\ ~Changed(a, NextRoot(a))
        /\ \/ reply' = [reply EXCEPT ![a] = "ok"] /\ UNCHANGED requests
           \/ Send(a, "delete", of[a], NextRoot(a))
        /\ UNCHANGED <<cluster, evidence, execution, cleanup, report, faults>>
    BY <1>2, <1>8 DEF SendDelete, Go
  <2>2. Send(a, "delete", of[a], NextRoot(a)) => reply' = [reply EXCEPT ![a] = "none"]
    BY DEF Send
  <2>3. NextRoot(a) \in Kinds
    BY <2>1, Chosen
  <2>. QED
    BY <1>2, <1>4, <2>1, <2>2, <2>3 DEF Cleaning, cleanup
<1>9. CASE Poll(a)
  <2>1. /\ pc[a] = "poll" /\ known' = [known EXCEPT ![a] = Found(a)]
        /\ Advance(a, NextRoot(a)) \/ UNCHANGED <<pc, left, reply>>
        /\ UNCHANGED <<cluster, requests, evidence, execution, of, roots, approved, report, faults>>
    BY <1>9 DEF Poll
  <2>2. NextRoot(a) \in left[a]
    BY <2>1, Chosen
  <2>3. CASE Advance(a, NextRoot(a))
    BY <1>2, <1>3, <1>6, <2>1, <2>2, <2>3 DEF Cleaning
  <2>4. CASE UNCHANGED <<pc, left, reply>>
    BY <1>2, <1>3, <1>4, <2>1, <2>4 DEF Cleaning
  <2>. QED
    BY <2>1, <2>3, <2>4
<1>10. CASE Quiet(a)
  <2>1. /\ pc[a] = "quiet" /\ known' = [known EXCEPT ![a] = Found(a)]
        /\ \/ pc' = [pc EXCEPT ![a] = IF left[a] = {} THEN "final" ELSE "delete"]
           \/ UNCHANGED pc
        /\ UNCHANGED <<cluster, requests, evidence, execution, of, roots, approved, left, reply, report, faults>>
    BY <1>10 DEF Quiet, Go
  <2>2. pc' = pc \/ pc'[a] = IF left[a] = {} THEN "final" ELSE "delete"
    BY <1>2, <2>1
  <2>. QED
    BY <1>2, <1>3, <1>4, <2>1, <2>2 DEF Cleaning
<1>. QED
  BY <1>5, <1>7, <1>8, <1>9, <1>10 DEF Works

\* A cleanup that goes on keeps the types.
LEMMA WorkTyped ==
  ASSUME IInv, NEW a \in Actors, Works(a)
  PROVE  Typed'
<1>1. Places /\ Memories /\ Replies /\ Things /\ requests \subseteq Requests
  BY Types DEF IInv
<1>2. /\ pc[a] \in Cleaning
      /\ \E step \in Cleaning : pc' = [pc EXCEPT ![a] = step]
      /\ UNCHANGED <<cluster, evidence, execution, of, roots, approved, report, faults>>
      /\ \E S \in SUBSET Tasks : known' = [known EXCEPT ![a] = S]
      /\ \E S \in SUBSET left[a] : left' = [left EXCEPT ![a] = S]
      /\ \E s \in {"none", "ok", reply[a]} : reply' = [reply EXCEPT ![a] = s]
      /\ \/ requests' = requests
         \/ Send(a, "delete", of[a], NextRoot(a)) /\ NextRoot(a) \in Kinds
  BY WorkSays
<1>3. Places'
  BY <1>1, <1>2, Moved DEF Go, RunSteps, OperatorSteps, Locking
<1>4. Things'
  BY <1>1, <1>2, ThingsKept
<1>5. Memories'
  BY <1>1, <1>2 DEF Memories, execution, judged
<1>6. Replies'
  BY <1>1, <1>2 DEF Replies
<1>7. (requests \subseteq Requests)'
  BY <1>1, <1>2, CleansFor, Sent
<1>. QED
  BY <1>3, <1>4, <1>5, <1>6, <1>7, TypesAfter

\* How an actor ends, and with which words.
Ends(a, said) ==
  /\ End(a, said) /\ UNCHANGED <<cluster, store>> /\ pc[a] \notin {"idle", "over"}
  /\ faults' = faults \/ (faults < MaxFaults /\ faults' = faults + 1)
  /\ said = "clean" =>
       \/ a \in Runs /\ pc[a] = "proof"
       \/ /\ pc[a] = "final" /\ ChildrenGone(a) /\ Certain(a)
          /\ \A k \in roots[a] : object[of[a]][k] = None
  /\ said \in {"passed", "uncertain"} => a \in Runs /\ pc[a] = "linked"
  /\ said = "incomplete" => pc[a] \in Cleaning

\* Every end is one of these.
LEMMA EndSays ==
  ASSUME NEW a \in Actors,
         \/ Die(a) \/ RefuseCleanup(a) \/ (a \in Runs /\ (Withhold(a) \/ Pass(a)))
         \/ Clean(a) /\ ~Go(a, "proof")
  PROVE  \E said \in Said : Ends(a, said)
<1>1. CASE Die(a)
  BY <1>1 DEF Die, Ends, Said
<1>2. CASE RefuseCleanup(a)
  <2>1. pc[a] \in Cleaning /\ End(a, "incomplete") /\ UNCHANGED <<cluster, store, faults>>
    BY <1>2 DEF RefuseCleanup, Refused, Incomplete, Cleaning
  <2>2. pc[a] \notin {"idle", "over"}
    BY <2>1 DEF Cleaning
  <2>. QED
    BY <2>1, <2>2 DEF Ends, Said
<1>3. CASE a \in Runs /\ Withhold(a)
  BY <1>3 DEF Withhold, Ends, Said
<1>4. CASE a \in Runs /\ Pass(a)
  BY <1>4 DEF Pass, Ends, Said
<1>5. CASE Clean(a) /\ ~Go(a, "proof")
  BY <1>5 DEF Clean, Ends, Said
<1>. QED
  BY <1>1, <1>2, <1>3, <1>4, <1>5

\* A run that is clean, and did not fail, goes on to its record.
Proves(r) == Clean(r) /\ Go(r, "proof")

\* What that step changes.
LEMMA ProveSays ==
  ASSUME IInv, NEW r \in Actors, Proves(r)
  PROVE  /\ r \in Runs /\ pc[r] = "final" /\ Go(r, "proof") /\ ~failed[r] /\ ~unsure[r]
         /\ ChildrenGone(r) /\ \A k \in roots[r] : object[of[r]][k] = None
         /\ UNCHANGED <<cluster, requests, evidence, reply, report, execution, cleanup, faults>>
<1>1. Clean(r) /\ Go(r, "proof") /\ pc' = [pc EXCEPT ![r] = "proof"]
  BY DEF Proves, Go
<1>2. ~End(r, "clean")
  <2>1. pc \in [Actors -> RunSteps]
    BY DEF IInv, Typed
  <2>2. ASSUME End(r, "clean") PROVE pc'[r] \in {"over", "idle"}
    BY <2>1, <2>2 DEF End, Go
  <2>. QED
    BY <1>1, <2>1, <2>2
<1>. QED
  BY <1>1, <1>2 DEF Clean, Certain, evidence

\* It keeps the types.
LEMMA ProveTyped ==
  ASSUME IInv, NEW r \in Actors, Proves(r)
  PROVE  Typed'
<1>1. Places /\ Memories /\ Replies /\ Things /\ requests \subseteq Requests
  BY Types DEF IInv
<1>2. /\ r \in Runs /\ pc[r] = "final" /\ Go(r, "proof")
      /\ UNCHANGED <<cluster, requests, evidence, reply, report, execution, cleanup, faults>>
  BY ProveSays
<1>3. Places'
  BY <1>1, <1>2, Moved, Different DEF RunSteps, Locking, Cleaning
<1>4. Things'
  BY <1>1, <1>2, ThingsKept
<1>5. Memories' /\ Replies'
  BY <1>1, <1>2 DEF Memories, Replies, execution, judged, cleanup
<1>. QED
  BY <1>1, <1>2, <1>3, <1>4, <1>5, TypesAfter

\* An operator's discovery keeps the types.
LEMMA DiscoverTyped ==
  ASSUME IInv, NEW o \in Operators, NEW r \in Runs, Discover(o, r)
  PROVE  Typed'
<1>1. Places /\ Memories /\ Replies /\ Things /\ requests \subseteq Requests
  BY Types DEF IInv
<1>. DEFINE found == {k \in Kinds : Ours(r, k)}
            listed == found \cap jobs[r]
<1>2. /\ Go(o, "survey") /\ UNCHANGED <<cluster, requests, evidence, execution, reply, faults>>
      /\ of' = [of EXCEPT ![o] = r] /\ roots' = [roots EXCEPT ![o] = found]
      /\ left' = [left EXCEPT ![o] = found] /\ known' = [known EXCEPT ![o] = listed]
      /\ approved' = [approved EXCEPT ![o] =
           [k \in Kinds |-> IF k \in found THEN object[r][k].edits ELSE 0]]
      /\ report' = [report EXCEPT ![o] = "none"]
  BY DEF Discover
<1>3. Places'
  BY <1>1, <1>2, Moved, Different DEF RunSteps, OperatorSteps, Cleaning
<1>4. Things'
  BY <1>1, <1>2, ThingsKept
<1>5. found \subseteq Kinds /\ listed \subseteq Tasks
  BY <1>1 DEF Things
<1>6. \A k \in found : object[r][k].edits \in 0 .. MaxFaults
  BY <1>1 DEF Ours, Things, Objects
<1>. HIDE DEF found
<1>7. [k \in Kinds |-> IF k \in found THEN object[r][k].edits ELSE 0] \in [Kinds -> 0 .. MaxFaults]
  BY <1>6, BoundsAssumption
<1>8. Memories'
  <2>1. of' \in [Actors -> Runs \cup {None}] /\ roots' \in [Actors -> SUBSET Kinds]
    BY <1>1, <1>2, <1>5 DEF Memories
  <2>2. left' \in [Actors -> SUBSET Kinds] /\ known' \in [Actors -> SUBSET Tasks]
    BY <1>1, <1>2, <1>5 DEF Memories
  <2>3. approved' \in [Actors -> [Kinds -> 0 .. MaxFaults]]
    BY <1>1, <1>2, <1>7 DEF Memories
  <2>. QED
    BY <1>1, <1>2, <2>1, <2>2, <2>3 DEF Memories, execution, judged
<1>9. Replies'
  BY <1>1, <1>2 DEF Replies
<1>. QED
  BY <1>1, <1>2, <1>3, <1>4, <1>8, <1>9, TypesAfter

-----------------------------------------------------------------------------
(* The cluster *)

\* A step that no actor takes.
ClusterStep ==
  \/ \E q \in requests : Deliver(q) \/ Lose(q)
  \/ Controllers
  \/ \E r \in Runs, k \in Kinds : Interfere(r, k)

\* The CREATE of kind k of run r takes effect.
Born(r, k) == \E q \in requests \ requests' : q.verb = "create" /\ q.run = r /\ q.kind = k

\* What becomes of requests when an object is written.
LEMMA OutdatedSays ==
  ASSUME NEW rest \in SUBSET Requests, NEW r \in Runs, NEW k \in Kinds
  PROVE  /\ Outdated(r, k, rest) \subseteq Requests
         /\ \A q \in Outdated(r, k, rest) :
              \/ q \in rest /\ ~(q.verb = "delete" /\ q.run = r /\ q.kind = k /\ q.current)
              \/ /\ q.verb = "delete" /\ ~q.current
                 /\ \E w \in rest : w.verb = "delete" /\ w.waiter = q.waiter
         /\ \A q \in rest : q.verb = "create" \/ ~q.current => q \in Outdated(r, k, rest)
<1>1. ASSUME NEW q \in Outdated(r, k, rest)
      PROVE  /\ q \in Requests
             /\ \/ q \in rest /\ ~(q.verb = "delete" /\ q.run = r /\ q.kind = k /\ q.current)
                \/ /\ q.verb = "delete" /\ ~q.current
                   /\ \E w \in rest : w.verb = "delete" /\ w.waiter = q.waiter
  <2>1. PICK w \in rest :
          q = IF w.verb = "delete" /\ w.run = r /\ w.kind = k THEN [w EXCEPT !.current = FALSE] ELSE w
    BY DEF Outdated
  <2>2. w \in Requests
    OBVIOUS
  <2>3. CASE ~(w.verb = "delete" /\ w.run = r /\ w.kind = k)
    BY <2>1, <2>2, <2>3
  <2>4. CASE w.verb = "delete" /\ w.run = r /\ w.kind = k
    <3>1. q = [w EXCEPT !.current = FALSE]
      BY <2>1, <2>4
    <3>2. q \in Requests /\ q.verb = "delete" /\ ~q.current /\ w.waiter = q.waiter
      BY <2>2, <2>4, <3>1 DEF Requests
    <3>. QED
      BY <2>4, <3>2
  <2>. QED
    BY <2>3, <2>4
<1>2. ASSUME NEW q \in rest, q.verb = "create" \/ ~q.current PROVE q \in Outdated(r, k, rest)
  <2>1. q \in Requests
    OBVIOUS
  <2>2. [q EXCEPT !.current = FALSE] = q \/ q.verb # "delete"
    BY <1>2, <2>1 DEF Requests
  <2>3. (IF q.verb = "delete" /\ q.run = r /\ q.kind = k THEN [q EXCEPT !.current = FALSE] ELSE q) = q
    BY <2>2
  <2>. QED
    BY <2>3 DEF Outdated
<1>. QED
  BY <1>1, <1>2

\* What a write to an object changes.
LEMMA PutSays ==
  ASSUME Things, NEW rest \in SUBSET Requests, NEW r \in Runs, NEW k \in Kinds,
         NEW o \in Objects \cup {None}, Put(r, k, o, rest)
  PROVE  /\ object' \in [Runs -> [Kinds -> Objects \cup {None}]]
         /\ object'[r][k] = o
         /\ \A s \in Runs, l \in Kinds : s # r \/ l # k => object'[s][l] = object[s][l]
         /\ answer' \in [Runs -> [Tasks -> {"none", "good", "spoiled", "bad"}]]
         /\ \A s \in Runs, t \in Tasks :
              \/ answer'[s][t] = answer[s][t]
              \/ s = r /\ t = k /\ o = None /\ answer'[s][t] = "none"
         /\ requests' = Outdated(r, k, rest)
<1>1. /\ object' = [object EXCEPT ![r][k] = o] /\ requests' = Outdated(r, k, rest)
      /\ answer' = [answer EXCEPT ![r] =
           [t \in Tasks |-> IF t = k /\ o = None THEN "none" ELSE answer[r][t]]]
  BY DEF Put
<1>2. object \in [Runs -> [Kinds -> Objects \cup {None}]]
      /\ answer \in [Runs -> [Tasks -> {"none", "good", "spoiled", "bad"}]]
  BY DEF Things
<1>3. object' \in [Runs -> [Kinds -> Objects \cup {None}]] /\ object'[r][k] = o
      /\ \A s \in Runs, l \in Kinds : s # r \/ l # k => object'[s][l] = object[s][l]
  BY <1>1, <1>2
<1>4. \A s \in Runs, t \in Tasks :
        answer'[s][t] = IF s = r /\ t = k /\ o = None THEN "none" ELSE answer[s][t]
  BY <1>1, <1>2
<1>5. answer' \in [Runs -> [Tasks -> {"none", "good", "spoiled", "bad"}]]
  <2>. DEFINE g == [t \in Tasks |-> IF t = k /\ o = None THEN "none" ELSE answer[r][t]]
  <2>1. g \in [Tasks -> {"none", "good", "spoiled", "bad"}]
    BY <1>2
  <2>. HIDE DEF g
  <2>. QED
    BY <1>1, <1>2, <2>1 DEF g
<1>. QED
  BY <1>1, <1>3, <1>4, <1>5

\* What comes into being, or back to what was acknowledged, is created in this step.
Comes ==
  \A r \in Runs, k \in Kinds :
    (Ours(r, k)' => Ours(r, k) \/ Born(r, k)) /\ (Intact(r, k)' => Intact(r, k) \/ Born(r, k))

\* An answer is given once, for an object that is there, and goes with it.
Answered ==
  \A r \in Runs, t \in Tasks :
    \/ answer'[r][t] = answer[r][t]
    \/ answer'[r][t] = "none" /\ ~Ours(r, t)'
    \/ /\ Ours(r, t) /\ answer[r][t] = "none" /\ object' = object
       /\ answer'[r][t] = "spoiled" => ~(PairIntact(r) /\ Intact(r, t))

\* Children come of what is there.
Children ==
  \A r \in Runs, t \in Tasks :
    (t \in jobs'[r] => t \in jobs[r] \/ Ours(r, t)) /\ (t \in pods'[r] => t \in pods[r] \cup jobs[r])

\* The cluster asks for nothing, and a write outdates the DELETEs of what it writes.
Fewer ==
  /\ \A q \in requests' :
       \/ q \in requests
       \/ /\ q.verb = "delete" /\ ~q.current
          /\ \E w \in requests : w.verb = "delete" /\ w.waiter = q.waiter
  /\ \A q \in requests' : q.verb = "delete" /\ q.current =>
       q \in requests /\ object'[q.run][q.kind] = object[q.run][q.kind]
  /\ \A q \in requests \ requests' : q.verb = "delete" /\ ~q.current => object' = object

\* Only who waits for a request is told.
Told == \A a \in Actors : reply'[a] = reply[a] \/ \E q \in requests \ requests' : q.waiter = a

\* The effect of one write.
LEMMA Written ==
  ASSUME IInv, NEW r \in Runs, NEW k \in Kinds, NEW o \in Objects \cup {None}, NEW rest \in SUBSET requests,
         Put(r, k, o, rest), UNCHANGED <<jobs, pods>>,
         faults' = faults \/ (faults < MaxFaults /\ faults' = faults + 1),
         o # None => o.edits <= faults',
         o # None /\ o.owner = r =>
           \/ Born(r, k)
           \/ /\ Ours(r, k) /\ (o.edits = 0 => object[r][k].edits = 0)
              /\ object[r][k].terminating => o.terminating,
         \A q \in requests \ rest : q.verb = "delete" => q.current
  PROVE  Things' /\ (requests \subseteq Requests)' /\ Comes /\ Answered /\ Children /\ Fewer
<1>1. Things /\ requests \subseteq Requests /\ rest \in SUBSET Requests
  BY Types DEF IInv
<1>2. /\ object' \in [Runs -> [Kinds -> Objects \cup {None}]]
      /\ object'[r][k] = o
      /\ \A s \in Runs, l \in Kinds : s # r \/ l # k => object'[s][l] = object[s][l]
      /\ answer' \in [Runs -> [Tasks -> {"none", "good", "spoiled", "bad"}]]
      /\ \A s \in Runs, t \in Tasks :
           \/ answer'[s][t] = answer[s][t]
           \/ s = r /\ t = k /\ o = None /\ answer'[s][t] = "none"
      /\ requests' = Outdated(r, k, rest)
  BY <1>1, PutSays
<1>3. Things'
  <2>1. faults \in 0 .. MaxFaults /\ MaxFaults \in Nat
    BY <1>1, BoundsAssumption DEF Things
  <2>2. faults' \in 0 .. MaxFaults /\ faults <= faults'
    BY <2>1
  <2>3. ASSUME NEW s \in Runs, NEW l \in Kinds, object'[s][l] # None PROVE object'[s][l].edits <= faults'
    <3>1. CASE s = r /\ l = k
      BY <1>2, <2>3, <3>1
    <3>2. CASE s # r \/ l # k
      <4>1. object[s][l] \in Objects /\ object[s][l].edits <= faults /\ object'[s][l] = object[s][l]
        BY <1>1, <1>2, <2>3, <3>2 DEF Things
      <4>2. object[s][l].edits \in 0 .. MaxFaults
        BY <4>1 DEF Objects
      <4>. QED
        BY <2>1, <2>2, <4>1, <4>2
    <3>. QED
      BY <3>1, <3>2
  <2>. QED
    BY <1>1, <1>2, <2>2, <2>3 DEF Things
<1>4. Comes
  <2>. SUFFICES ASSUME NEW s \in Runs, NEW l \in Kinds
                PROVE  /\ Ours(s, l)' => Ours(s, l) \/ Born(s, l)
                       /\ Intact(s, l)' => Intact(s, l) \/ Born(s, l)
    BY DEF Comes
  <2>1. CASE s = r /\ l = k
    BY <1>2, <2>1 DEF Ours, Intact
  <2>2. CASE s # r \/ l # k
    BY <1>2, <2>2 DEF Ours, Intact
  <2>. QED
    BY <2>1, <2>2
<1>5. Answered
  <2>1. o = None => ~Ours(r, k)'
    BY <1>2 DEF Ours
  <2>. QED
    BY <1>2, <2>1 DEF Answered
<1>6. Children
  BY DEF Children
<1>7. (requests \subseteq Requests)' /\ Fewer
  <2>1. /\ Outdated(r, k, rest) \subseteq Requests
        /\ \A q \in Outdated(r, k, rest) :
             \/ q \in rest /\ ~(q.verb = "delete" /\ q.run = r /\ q.kind = k /\ q.current)
             \/ /\ q.verb = "delete" /\ ~q.current
                /\ \E w \in rest : w.verb = "delete" /\ w.waiter = q.waiter
        /\ \A q \in rest : q.verb = "create" \/ ~q.current => q \in Outdated(r, k, rest)
    BY <1>1, OutdatedSays
  <2>2. ASSUME NEW q \in requests', q.verb = "delete", q.current
        PROVE  q \in requests /\ object'[q.run][q.kind] = object[q.run][q.kind]
    <3>1. q \in rest /\ ~(q.run = r /\ q.kind = k)
      BY <1>2, <2>1, <2>2
    <3>2. q.run \in Runs /\ q.kind \in Kinds
      BY <1>1, <3>1 DEF Requests
    <3>. QED
      BY <1>2, <3>1, <3>2
  <2>. QED
    BY <1>2, <2>1, <2>2 DEF Fewer
<1>. QED
  BY <1>3, <1>4, <1>5, <1>6, <1>7

\* What a step of the cluster changes.
Happens ==
  /\ UNCHANGED <<evidence, pc, execution, cleanup, report>>
  /\ Things' /\ Replies' /\ (requests \subseteq Requests)'
  /\ Comes /\ Answered /\ Children /\ Fewer /\ Told

\* A request is served, or refused.
LEMMA DeliverSays ==
  ASSUME IInv, NEW q \in requests, Deliver(q) \/ Lose(q)
  PROVE  Happens
<1>1. Things /\ Replies /\ requests \subseteq Requests /\ q \in Requests
  BY Types DEF IInv
<1>2. ASSUME NEW s \in {"ok", "refused"}, Answer(q, s), q \notin requests', report' = report
      PROVE  Replies' /\ Told
  <2>1. reply' = [a \in Actors |-> IF a = q.waiter THEN s ELSE reply[a]]
    BY <1>2 DEF Answer
  <2>2. Told
    BY <1>1, <1>2, <2>1 DEF Told, Replies
  <2>. QED
    BY <1>1, <1>2, <2>1, <2>2 DEF Replies
<1>3. ASSUME Reject(q), UNCHANGED <<jobs, pods, evidence, pc, execution, cleanup, report>>,
             faults' = faults \/ (faults < MaxFaults /\ faults' = faults + 1)
      PROVE  Happens
  <2>1. requests' = requests \ {q} /\ Answer(q, "refused") /\ UNCHANGED <<object, answer>>
    BY <1>3 DEF Reject
  <2>2. Replies' /\ Told
    BY <1>2, <1>3, <2>1
  <2>3. Things'
    BY <1>1, <1>3, <2>1, ThingsKept DEF cluster
  <2>4. Comes /\ Answered /\ Children
    BY <1>3, <2>1 DEF Comes, Answered, Children, Ours, Intact
  <2>5. Fewer
    BY <1>1, <2>1 DEF Fewer
  <2>. QED
    BY <1>1, <1>3, <2>1, <2>2, <2>3, <2>4, <2>5 DEF Happens
<1>4. CASE Lose(q)
  BY <1>3, <1>4 DEF Lose
<1>5. CASE Deliver(q)
  <2>1. UNCHANGED <<jobs, pods, evidence, pc, execution, cleanup, report, faults>>
    BY <1>5 DEF Deliver
  <2>. DEFINE r == q.run
              k == q.kind
              o == object[r][k]
              rest == requests \ {q}
              made == [owner |-> r, edits |-> 0, terminating |-> FALSE]
              dying == [o EXCEPT !.terminating = TRUE]
  <2>2. r \in Runs /\ k \in Kinds /\ rest \subseteq requests
    BY <1>1 DEF Requests
  <2>3. \/ Reject(q)
        \/ q.verb = "create" /\ Put(r, k, made, rest) /\ Answer(q, "ok")
        \/ /\ q.verb = "delete" /\ Ours(r, k) /\ q.current /\ Answer(q, "ok")
           /\ Put(r, k, None, rest) \/ Put(r, k, dying, rest)
    BY <1>5 DEF Deliver, CreatesObject, DeletesObject
  <2>4. CASE Reject(q)
    BY <1>3, <2>1, <2>4
  <2>5. ASSUME NEW p \in Objects \cup {None}, Put(r, k, p, rest), Answer(q, "ok"),
               q.verb = "delete" => q.current, q \notin Outdated(r, k, rest),
               p # None => p.edits <= faults,
               p # None /\ p.owner = r =>
                 \/ q.verb = "create"
                 \/ /\ Ours(r, k) /\ (p.edits = 0 => object[r][k].edits = 0)
                    /\ object[r][k].terminating => p.terminating
        PROVE  Happens
    <3>1. q \notin requests'
      BY <2>5 DEF Put
    <3>2. q.verb = "create" => Born(r, k)
      BY <3>1 DEF Born
    <3>3. Things' /\ (requests \subseteq Requests)' /\ Comes /\ Answered /\ Children /\ Fewer
      <4>1. faults' = faults /\ UNCHANGED <<jobs, pods>>
        BY <2>1
      <4>2. \A w \in requests \ rest : w.verb = "delete" => w.current
        BY <2>5
      <4>3. p # None /\ p.owner = r =>
              \/ Born(r, k)
              \/ /\ Ours(r, k) /\ (p.edits = 0 => object[r][k].edits = 0)
                 /\ object[r][k].terminating => p.terminating
        BY <2>5, <3>2
      <4>. HIDE DEF r, k, o, rest, made, dying
      <4>. QED
        BY <2>2, <2>5, <4>1, <4>2, <4>3, Written
    <3>4. Replies' /\ Told
      BY <1>2, <2>1, <2>5, <3>1
    <3>. QED
      BY <2>1, <3>3, <3>4 DEF Happens
  <2>6. q.verb = "create" \/ q.current => q \notin Outdated(r, k, rest)
    <3>1. \A w \in Outdated(r, k, rest) : w \in rest \/ (w.verb = "delete" /\ ~w.current)
      BY <1>1, <2>2, OutdatedSays
    <3>. QED
      BY <3>1
  <2>7. CASE q.verb = "create" /\ Put(r, k, made, rest) /\ Answer(q, "ok")
    <3>1. made \in Objects /\ made.edits = 0 /\ 0 <= faults
      BY <1>1, <2>2, BoundsAssumption DEF Objects, Things
    <3>. HIDE DEF made
    <3>. QED
      BY <2>5, <2>6, <2>7, <3>1
  <2>8. CASE /\ q.verb = "delete" /\ Ours(r, k) /\ q.current /\ Answer(q, "ok")
             /\ Put(r, k, None, rest) \/ Put(r, k, dying, rest)
    <3>1. o \in Objects /\ o # None /\ o.edits <= faults
      BY <1>1, <2>2, <2>8 DEF Ours, Things
    <3>2. dying \in Objects /\ dying.edits = o.edits /\ dying.terminating
      BY <3>1 DEF Objects
    <3>3. CASE Put(r, k, None, rest)
      BY <2>5, <2>6, <2>8, <3>3
    <3>4. CASE Put(r, k, dying, rest)
      <4>. HIDE DEF dying
      <4>. QED
        BY <2>5, <2>6, <2>8, <3>1, <3>2, <3>4
    <3>. QED
      BY <2>8, <3>3, <3>4
  <2>. QED
    BY <2>3, <2>4, <2>7, <2>8
<1>. QED
  BY <1>4, <1>5

\* The controllers write a status, remove an object, or start and collect children.
LEMMA ControllersSay ==
  ASSUME IInv, Controllers
  PROVE  Happens
<1>1. Things /\ Replies /\ requests \subseteq Requests
  BY Types DEF IInv
<1>2. ASSUME UNCHANGED <<requests, Local>> PROVE (requests \subseteq Requests)' /\ Replies' /\ Told
  BY <1>1, <1>2 DEF Local, Replies, Told
<1>3. ASSUME object' = object, answer' = answer, UNCHANGED <<requests, Local, faults>>, Children,
             jobs' \in [Runs -> SUBSET Tasks], pods' \in [Runs -> SUBSET Tasks]
      PROVE  Happens
  <2>1. Things'
    BY <1>1, <1>3 DEF Things
  <2>2. Comes /\ Answered
    BY <1>3 DEF Comes, Answered, Ours, Intact
  <2>3. Fewer
    BY <1>1, <1>3 DEF Fewer
  <2>. QED
    BY <1>2, <1>3, <2>1, <2>2, <2>3 DEF Happens, Local
<1>4. ASSUME NEW r \in Runs, NEW k \in Kinds, Finalize(r, k) PROVE Happens
  <2>1. Put(r, k, None, requests) /\ UNCHANGED <<jobs, pods, Local, faults>>
    BY <1>4 DEF Finalize
  <2>2. Things' /\ (requests \subseteq Requests)' /\ Comes /\ Answered /\ Children /\ Fewer
    BY <2>1, Written
  <2>3. Replies' /\ Told
    BY <1>1, <2>1 DEF Local, Replies, Told
  <2>. QED
    BY <2>1, <2>2, <2>3 DEF Happens, Local
<1>5. ASSUME NEW r \in Runs, NEW t \in Tasks,
             StartJob(r, t) \/ StartPod(r, t) \/ CollectJob(r, t) \/ CollectPod(r, t)
      PROVE  Happens
  <2>1. /\ object' = object /\ answer' = answer /\ UNCHANGED <<requests, Local, faults>>
        /\ \/ Ours(r, t) /\ jobs' = [jobs EXCEPT ![r] = jobs[r] \cup {t}] /\ pods' = pods
           \/ t \in jobs[r] /\ pods' = [pods EXCEPT ![r] = pods[r] \cup {t}] /\ jobs' = jobs
           \/ jobs' = [jobs EXCEPT ![r] = jobs[r] \ {t}] /\ pods' = pods
           \/ pods' = [pods EXCEPT ![r] = pods[r] \ {t}] /\ jobs' = jobs
    BY <1>5 DEF StartJob, StartPod, CollectJob, CollectPod
  <2>2. jobs' \in [Runs -> SUBSET Tasks] /\ pods' \in [Runs -> SUBSET Tasks]
    <3>1. jobs \in [Runs -> SUBSET Tasks] /\ pods \in [Runs -> SUBSET Tasks]
      BY <1>1 DEF Things
    <3>2. jobs[r] \cup {t} \in SUBSET Tasks /\ jobs[r] \ {t} \in SUBSET Tasks
      BY <3>1
    <3>3. pods[r] \cup {t} \in SUBSET Tasks /\ pods[r] \ {t} \in SUBSET Tasks
      BY <3>1
    <3>4. \A f \in [Runs -> SUBSET Tasks], S \in SUBSET Tasks : [f EXCEPT ![r] = S] \in [Runs -> SUBSET Tasks]
      OBVIOUS
    <3>. QED
      BY <2>1, <3>1, <3>2, <3>3, <3>4
  <2>3. Children
    BY <1>1, <2>1 DEF Children, Things
  <2>. QED
    BY <1>3, <2>1, <2>2, <2>3
<1>6. ASSUME NEW r \in Runs, NEW t \in Tasks, AnswerTask(r, t) PROVE Happens
  <2>1. PICK result \in {"good", "spoiled", "bad"} :
          /\ result = "spoiled" => ~(PairIntact(r) /\ Intact(r, t))
          /\ answer' = [answer EXCEPT ![r][t] = result]
    BY <1>6 DEF AnswerTask
  <2>2. /\ Ours(r, t) /\ answer[r][t] = "none" /\ requests' = Outdated(r, t, requests)
        /\ UNCHANGED <<object, jobs, pods, Local, faults>>
    BY <1>6 DEF AnswerTask
  <2>3. /\ answer' \in [Runs -> [Tasks -> {"none", "good", "spoiled", "bad"}]]
        /\ \A s \in Runs, u \in Tasks :
             answer'[s][u] = IF s = r /\ u = t THEN result ELSE answer[s][u]
    BY <1>1, <2>1 DEF Things
  <2>4. Things'
    BY <1>1, <2>2, <2>3 DEF Things
  <2>5. Comes /\ Children
    BY <2>2 DEF Comes, Children, Ours, Intact
  <2>6. Answered
    BY <2>1, <2>2, <2>3 DEF Answered
  <2>7. (requests \subseteq Requests)' /\ Fewer
    <3>1. t \in Kinds
      BY Positions
    <3>2. /\ Outdated(r, t, requests) \subseteq Requests
          /\ \A q \in Outdated(r, t, requests) :
               \/ q \in requests /\ ~(q.verb = "delete" /\ q.run = r /\ q.kind = t /\ q.current)
               \/ /\ q.verb = "delete" /\ ~q.current
                  /\ \E w \in requests : w.verb = "delete" /\ w.waiter = q.waiter
      BY <1>1, <3>1, OutdatedSays
    <3>. QED
      BY <2>2, <3>2 DEF Fewer
  <2>8. Replies' /\ Told
    BY <1>1, <2>2 DEF Local, Replies, Told
  <2>. QED
    BY <2>2, <2>4, <2>5, <2>6, <2>7, <2>8 DEF Happens, Local
<1>. QED
  BY <1>4, <1>5, <1>6 DEF Controllers

\* Somebody takes a free name, or deletes, writes to or edits an object.
LEMMA InterfereSays ==
  ASSUME IInv, NEW r \in Runs, NEW k \in Kinds, Interfere(r, k)
  PROVE  Happens
<1>1. Things /\ Replies /\ requests \subseteq Requests
  BY Types DEF IInv
<1>2. UNCHANGED <<jobs, pods, Local>> /\ faults < MaxFaults /\ faults' = faults + 1
  BY DEF Interfere
<1>3. faults \in Nat /\ MaxFaults \in Nat /\ faults' \in 0 .. MaxFaults
  BY <1>1, <1>2, BoundsAssumption DEF Things
<1>4. ASSUME NEW o \in Objects \cup {None}, Put(r, k, o, requests),
             o # None => o.edits <= faults',
             o # None /\ o.owner = r =>
               /\ Ours(r, k) /\ (o.edits = 0 => object[r][k].edits = 0)
               /\ object[r][k].terminating => o.terminating
      PROVE  Happens
  <2>1. Things' /\ (requests \subseteq Requests)' /\ Comes /\ Answered /\ Children /\ Fewer
    BY <1>2, <1>4, Written
  <2>2. Replies' /\ Told
    BY <1>1, <1>2 DEF Local, Replies, Told
  <2>. QED
    BY <1>2, <2>1, <2>2 DEF Happens, Local
<1>5. CASE Put(r, k, [owner |-> Foreign, edits |-> 0, terminating |-> FALSE], requests)
  <2>. DEFINE o == [owner |-> Foreign, edits |-> 0, terminating |-> FALSE]
  <2>1. o \in Objects /\ o.edits <= faults' /\ o.owner # r
    BY <1>3, Different, BoundsAssumption DEF Objects
  <2>. HIDE DEF o
  <2>. QED
    BY <1>4, <1>5, <2>1 DEF o
<1>6. CASE Put(r, k, None, requests)
  BY <1>4, <1>6
<1>7. ASSUME NEW edit \in {0, 1}, object[r][k] # None,
             Put(r, k, [object[r][k] EXCEPT !.edits = @ + edit], requests)
      PROVE  Happens
  <2>. DEFINE p == object[r][k]
              n == p.edits + edit
              o == [p EXCEPT !.edits = n]
  <2>1. p \in Objects /\ p.edits <= faults /\ p.edits \in Nat
    BY <1>1, <1>7, BoundsAssumption DEF Things, Objects
  <2>2. n \in 0 .. MaxFaults /\ n <= faults' /\ (n = 0 => p.edits = 0)
    BY <1>2, <1>3, <2>1
  <2>. HIDE DEF n
  <2>3. o \in Objects /\ o.edits = n /\ o.owner = p.owner /\ o.terminating = p.terminating
    BY <2>1, <2>2 DEF Objects
  <2>4. o # None /\ o.owner = r => Ours(r, k)
    BY <1>7, <2>3 DEF Ours
  <2>5. Put(r, k, o, requests)
    BY <1>7 DEF n
  <2>. HIDE DEF o
  <2>. QED
    BY <1>4, <2>2, <2>3, <2>4, <2>5
<1>. QED
  BY <1>5, <1>6, <1>7 DEF Interfere

\* Every step of the cluster is one of these.
LEMMA ClusterSays ==
  ASSUME IInv, ClusterStep
  PROVE  Happens /\ Typed'
<1>1. Happens
  BY DeliverSays, ControllersSay, InterfereSays DEF ClusterStep
<1>2. Places /\ Memories
  BY Types DEF IInv
<1>3. Places' /\ Memories'
  BY <1>1, <1>2 DEF Happens, Places, Memories, evidence, execution, judged, cleanup
<1>. QED
  BY <1>1, <1>3, TypesAfter DEF Happens

-----------------------------------------------------------------------------
(* The steps of an actor, for everyone else *)

\* The memory of actor b is as it was.
Still(b) ==
  /\ pc'[b] = pc[b] /\ of'[b] = of[b] /\ roots'[b] = roots[b] /\ left'[b] = left[b]
  /\ reply'[b] = reply[b] /\ report'[b] = report[b]
  /\ b \in Runs =>
       /\ cur'[b] = cur[b] /\ unsure'[b] = unsure[b]
       /\ credited'[b] = credited[b] /\ failed'[b] = failed[b]

\* What actor a does to the requests: it sends a conditional DELETE, a run a CREATE of its own.
Asks(a) ==
  /\ \A r \in Runs \ {a} : Creates(r)' = Creates(r)
  /\ \A q \in requests' : q.verb = "delete" /\ q.waiter # a /\ q.waiter # None => q \in requests
  /\ Conditional'

\* A step of actor a, as the others see it.
Acts(a) ==
  /\ UNCHANGED cluster /\ Asks(a)
  /\ \A b \in Actors \ {a} : Still(b)
  /\ \A r \in Runs \ {a} : Recorded(r)' <=> Recorded(r)

\* An evaluation goes on while another actor acts.
LEMMA Apart ==
  ASSUME IInv, NEW a \in Actors, Acts(a), NEW r \in Runs, r # a
  PROVE  /\ Evaluating(r)'
         /\ \A k \in Kinds : Pending(r, k)' <=> Pending(r, k)
<1>1. Evaluating(r)
  BY DEF IInv
<1>2. /\ Still(r) /\ Creates(r)' = Creates(r) /\ (Recorded(r)' <=> Recorded(r))
      /\ \A q \in requests' : q.verb = "delete" /\ q.waiter = r => q \in requests
      /\ UNCHANGED <<object, jobs, pods, answer>>
  BY Different DEF Acts, Asks, cluster
<1>3. \A k \in Kinds : Pending(r, k)' <=> Pending(r, k)
  BY <1>2 DEF Pending, Still
<1>4. \A k \in Kinds : (Unborn(r, k)' <=> Unborn(r, k)) /\ (Ours(r, k)' <=> Ours(r, k))
  BY <1>2 DEF Unborn, Ours
<1>5. PairIntact(r)' <=> PairIntact(r)
  BY <1>2 DEF PairIntact, Intact, Ours
<1>6. \A k \in Kinds : Intact(r, k)' <=> Intact(r, k)
  BY <1>2 DEF Intact, Ours
<1>7. \A S \in SUBSET Kinds : Absent(r, S)' <=> Absent(r, S)
  BY <1>2 DEF Absent, Ours
<1>8. NothingLeft(r)' <=> NothingLeft(r)
  <2>1. NothingLeft(r) <=> Absent(r, Kinds) /\ Creates(r) = {}
    BY DEF NothingLeft, Creates
  <2>2. NothingLeft(r)' <=> Absent(r, Kinds)' /\ Creates(r)' = {}
    BY DEF NothingLeft, Creates
  <2>. QED
    BY <1>2, <1>7, <2>1, <2>2
<1>9. Placed(r)'
  BY <1>1, <1>2 DEF Evaluating, Placed, Still
<1>10. Requesting(r)'
  <2>1. Requesting(r)
    BY <1>1 DEF Evaluating
  <2>. QED
    BY <1>2, <2>1 DEF Requesting, Still
<1>11. World(r)'
  BY <1>1, <1>2, <1>3, <1>4, <1>5, <1>6, Positions DEF Evaluating, World
<1>12. Accounted(r)'
  <2>1. Accounted(r)
    BY <1>1 DEF Evaluating
  <2>. QED
    BY <1>2, <1>7, <2>1 DEF Accounted, Still
<1>13. Counted(r)'
  <2>1. Counted(r) /\ credited[r] \subseteq Kinds
    BY <1>1, Positions DEF Evaluating, IInv, Typed, TypeOK
  <2>. QED
    BY <1>2, <1>3, <1>4, <2>1 DEF Counted, Still
<1>14. Concluded(r)'
  <2>1. Concluded(r)
    BY <1>1 DEF Evaluating
  <2>. QED
    BY <1>2, <1>8, <2>1 DEF Concluded, Still
<1>. QED
  BY <1>3, <1>9, <1>10, <1>11, <1>12, <1>13, <1>14 DEF Evaluating

\* Who asks for nothing.
LEMMA AsksNothing ==
  ASSUME IInv, NEW a, UNCHANGED cluster, requests' = requests
  PROVE  Asks(a) /\ \A r \in Runs : Creates(r)' = Creates(r)
<1>1. Conditional'
  BY DEF IInv, Conditional, Ours, cluster
<1>. QED
  BY <1>1 DEF Asks, Creates

\* Who no longer waits.
LEMMA AsksNoMore ==
  ASSUME IInv, NEW a \in Actors, UNCHANGED cluster, requests' = Abandoned(a)
  PROVE  /\ Asks(a)
         /\ a \in Runs =>
              /\ \A q \in Creates(a)' :
                   q.waiter = None /\ \E w \in Creates(a) : w.kind = q.kind
              /\ \A q, w \in Creates(a)' : w = q
         /\ \A q \in requests' : q.waiter # a
<1>1. requests \subseteq Requests
  BY DEF IInv, Typed, TypeOK
<1>2. \A q \in requests' :
        /\ q \in Requests
        /\ \E w \in requests :
             /\ w.verb = q.verb /\ w.run = q.run /\ w.kind = q.kind
             /\ w.current = q.current /\ w.approved = q.approved
             /\ (w.waiter # a /\ q = w) \/ (w.waiter = a /\ q = [w EXCEPT !.waiter = None])
        /\ q.waiter # a
  BY <1>1, AbandonedSays
<1>3. Conditional'
  <2>. SUFFICES ASSUME NEW q \in requests', q.verb = "delete", q.current
                PROVE  (Ours(q.run, q.kind) /\ object[q.run][q.kind].edits = q.approved)'
    BY DEF Conditional
  <2>1. PICK w \in requests : /\ w.verb = "delete" /\ w.run = q.run /\ w.kind = q.kind
                              /\ w.current /\ w.approved = q.approved
    BY <1>2
  <2>2. Ours(q.run, q.kind) /\ object[q.run][q.kind].edits = q.approved
    BY <2>1 DEF IInv, Conditional
  <2>. QED
    BY <2>2 DEF Ours, cluster
<1>4. ASSUME NEW r \in Runs, r # a PROVE Creates(r)' = Creates(r)
  <2>1. \A q \in Creates(r) : q.waiter # a
    BY <1>4, Different DEF IInv, Evaluating, Requesting
  <2>2. ASSUME NEW q \in Creates(r)' PROVE q \in Creates(r)
    <3>1. PICK w \in requests : /\ w.verb = q.verb /\ w.run = q.run
                                /\ (w.waiter # a /\ q = w) \/ (w.waiter = a /\ q = [w EXCEPT !.waiter = None])
      BY <1>2, <2>2 DEF Creates
    <3>2. w \in Creates(r)
      BY <2>2, <3>1 DEF Creates
    <3>. QED
      BY <2>1, <3>1, <3>2
  <2>3. ASSUME NEW q \in Creates(r) PROVE q \in Creates(r)'
    <3>1. q \in requests /\ q.waiter # a
      BY <2>1, <2>3 DEF Creates
    <3>2. q \in Abandoned(a)
      BY <3>1 DEF Abandoned
    <3>. QED
      BY <2>3, <3>2 DEF Creates
  <2>. QED
    BY <2>2, <2>3
<1>5. ASSUME NEW q \in requests', q.verb = "delete", q.waiter # None PROVE q \in requests
  <2>1. PICK w \in requests : (w.waiter # a /\ q = w) \/ (w.waiter = a /\ q = [w EXCEPT !.waiter = None])
    BY <1>2
  <2>2. w \in Requests
    BY <1>1
  <2>. QED
    BY <1>5, <2>1, <2>2 DEF Requests
<1>6. ASSUME a \in Runs, NEW q \in Creates(a)'
      PROVE  /\ q.waiter = None
             /\ \E w \in Creates(a) : w.kind = q.kind /\ (q = w \/ q = [w EXCEPT !.waiter = None])
  <2>1. PICK w \in requests : /\ w.verb = q.verb /\ w.run = q.run /\ w.kind = q.kind
                              /\ (w.waiter # a /\ q = w) \/ (w.waiter = a /\ q = [w EXCEPT !.waiter = None])
    BY <1>2, <1>6 DEF Creates
  <2>2. w \in Creates(a) /\ w \in Requests
    BY <1>1, <1>6, <2>1 DEF Creates
  <2>3. w.waiter \in {a, None}
    BY <1>6, <2>2 DEF IInv, Evaluating, Requesting
  <2>4. [w EXCEPT !.waiter = None].waiter = None
    BY <2>2 DEF Requests
  <2>. QED
    BY <2>1, <2>2, <2>3, <2>4
<1>7. ASSUME a \in Runs, NEW q \in Creates(a)', NEW p \in Creates(a)' PROVE p = q
  <2>1. \A v, w \in Creates(a) : v = w
    BY <1>7 DEF IInv, Evaluating, Requesting
  <2>2. PICK w \in Creates(a) : q = w \/ q = [w EXCEPT !.waiter = None]
    BY <1>6, <1>7
  <2>3. PICK v \in Creates(a) : p = v \/ p = [v EXCEPT !.waiter = None]
    BY <1>6, <1>7
  <2>4. v = w /\ w \in Requests
    BY <1>1, <2>1 DEF Creates
  <2>5. q.waiter = None /\ p.waiter = None
    BY <1>6, <1>7
  <2>6. w.waiter = None => [w EXCEPT !.waiter = None] = w
    BY <2>4 DEF Requests
  <2>. QED
    BY <2>2, <2>3, <2>4, <2>5, <2>6
<1>. QED
  BY <1>2, <1>3, <1>4, <1>5, <1>6, <1>7 DEF Asks

\* Who asks for the deletion of a root as approved.
LEMMA AsksDelete ==
  ASSUME IInv, NEW a \in Actors, UNCHANGED cluster, NEW r \in Runs, NEW k \in Kinds, r = of[a],
         Send(a, "delete", r, k), Ours(r, k), ~Changed(a, k)
  PROVE  Asks(a) /\ \A s \in Runs : Creates(s)' = Creates(s)
<1>1. requests \subseteq Requests /\ Memories
  BY Types DEF IInv
<1>2. PICK q \in Requests :
        /\ requests' = requests \cup {q}
        /\ q = [verb |-> "delete", waiter |-> a, run |-> r, kind |-> k,
                current |-> TRUE, approved |-> approved[a][k]]
  BY <1>1, Sent
<1>3. \A s \in Runs : Creates(s)' = Creates(s)
  BY <1>2 DEF Creates
<1>4. object[r][k].edits = approved[a][k]
  BY DEF Changed
<1>5. Conditional'
  <2>. SUFFICES ASSUME NEW w \in requests', w.verb = "delete", w.current
                PROVE  (Ours(w.run, w.kind) /\ object[w.run][w.kind].edits = w.approved)'
    BY DEF Conditional
  <2>1. Ours(w.run, w.kind) /\ object[w.run][w.kind].edits = w.approved
    <3>1. CASE w \in requests
      BY <3>1 DEF IInv, Conditional
    <3>2. CASE w = q
      BY <1>2, <1>4, <3>2
    <3>. QED
      BY <1>2, <3>1, <3>2
  <2>. QED
    BY <2>1 DEF Ours, cluster
<1>. QED
  BY <1>2, <1>3, <1>5 DEF Asks

\* A run asks for its next root.
LEMMA AsksCreate ==
  ASSUME IInv, NEW r \in Runs, NEW k \in Kinds, UNCHANGED cluster, Send(r, "create", r, k)
  PROVE  /\ Asks(r)
         /\ \E q \in Requests :
              Creates(r)' = Creates(r) \cup {q} /\ q.waiter = r /\ q.kind = k
         /\ \A q \in requests' : q.verb = "delete" => q \in requests
<1>1. requests \subseteq Requests /\ Memories /\ r \in Actors
  BY Types, Different DEF IInv
<1>2. PICK q \in Requests :
        /\ requests' = requests \cup {q}
        /\ q = [verb |-> "create", waiter |-> r, run |-> r, kind |-> k,
                current |-> TRUE, approved |-> approved[r][k]]
  BY <1>1, Sent
<1>3. /\ \A s \in Runs \ {r} : Creates(s)' = Creates(s)
      /\ Creates(r)' = Creates(r) \cup {q} /\ q.waiter = r /\ q.kind = k
  BY <1>2 DEF Creates
<1>4. \A w \in requests' : w.verb = "delete" => w \in requests
  BY <1>2
<1>5. Conditional'
  BY <1>4 DEF IInv, Conditional, Ours, cluster
<1>. QED
  BY <1>3, <1>4, <1>5 DEF Asks

-----------------------------------------------------------------------------
(* The steps of a run, for itself *)

\* How the creation of roots moves on, as far as what is still to come is concerned.
Proceeds(r) ==
  /\ UNCHANGED cluster /\ of'[r] = of[r]
  /\ \A q \in Creates(r)' :
       (\E w \in Creates(r) : w.kind = q.kind) \/ (pc[r] = "create" /\ q.kind = cur[r])
  /\ \/ pc[r] \in {"idle", "admit"}
     \/ pc'[r] \in Closing \cup {"over"}
     \/ pc[r] = "create" /\ pc'[r] = "creating" /\ cur'[r] = cur[r]
     \/ pc[r] = "creating" /\ pc'[r] \in {"ready", "running"} /\ cur'[r] = cur[r]
     \/ /\ pc[r] \in {"ready", "running"} /\ pc'[r] = "create"
        /\ cur'[r] \in Kinds /\ Pos(cur'[r]) = Pos(cur[r]) + 1

\* Nothing comes to be expected that was not, and the world of the run is as it was.
LEMMA Shrinks ==
  ASSUME IInv, NEW r \in Runs, Proceeds(r)
  PROVE  World(r)' /\ \A k \in Kinds : Pending(r, k)' => Pending(r, k)
<1>1. pc[r] \in Creating => cur[r] \in Kinds /\ Pos(cur[r]) \in Nat
  BY Current
<1>2. ASSUME NEW k \in Kinds, Pending(r, k)' PROVE Pending(r, k)
  <2>1. Pos(k) \in Nat
    BY Positions
  <2>2. CASE pc[r] \in {"idle", "admit"}
    BY <2>2 DEF Pending
  <2>3. ASSUME NEW q \in Creates(r)', Pos(q.kind) <= Pos(k) PROVE Pending(r, k)
    BY <2>3 DEF Proceeds, Pending
  <2>4. ASSUME pc'[r] \notin {"idle", "admit"}, ~\E q \in Creates(r)' : Pos(q.kind) <= Pos(k)
        PROVE  \/ pc'[r] = "create" /\ Pos(cur'[r]) <= Pos(k)
               \/ pc'[r] \in {"creating", "ready", "running"} /\ Pos(cur'[r]) < Pos(k)
    BY <1>2, <2>4 DEF Pending, Pos
  <2>5. CASE /\ pc[r] \notin {"idle", "admit"} /\ ~\E q \in Creates(r)' : Pos(q.kind) <= Pos(k)
    <3>1. pc'[r] \notin {"idle", "admit"}
      BY <2>5 DEF Proceeds, Closing, Cleaning
    <3>2. pc'[r] \in {"create", "creating", "ready", "running"} => pc'[r] \notin Closing \cup {"over"}
      BY DEF Closing, Cleaning
    <3>3. CASE pc[r] = "create" /\ pc'[r] = "creating" /\ cur'[r] = cur[r]
      <4>1. Pos(cur[r]) < Pos(k)
        BY <2>4, <2>5, <3>1, <3>3
      <4>. QED
        BY <1>1, <2>1, <3>3, <4>1 DEF Pending, Creating
    <3>4. CASE pc[r] = "creating" /\ pc'[r] \in {"ready", "running"} /\ cur'[r] = cur[r]
      BY <2>4, <2>5, <3>1, <3>4 DEF Pending
    <3>5. CASE /\ pc[r] \in {"ready", "running"} /\ pc'[r] = "create"
               /\ cur'[r] \in Kinds /\ Pos(cur'[r]) = Pos(cur[r]) + 1
      <4>1. Pos(cur[r]) + 1 <= Pos(k)
        BY <2>4, <2>5, <3>1, <3>5
      <4>2. Pos(cur[r]) < Pos(k)
        BY <1>1, <2>1, <3>5, <4>1 DEF Creating
      <4>. QED
        BY <3>5, <4>2 DEF Pending
    <3>. QED
      BY <2>4, <2>5, <3>1, <3>2, <3>3, <3>4, <3>5 DEF Proceeds
  <2>. QED
    BY <2>2, <2>3, <2>5
<1>3. World(r)'
  <2>1. World(r)
    BY DEF IInv, Evaluating
  <2>2. UNCHANGED <<object, jobs, pods, answer>>
    BY DEF Proceeds, cluster
  <2>3. \A k \in Kinds : Unborn(r, k)' <=> Unborn(r, k)
    BY <2>2 DEF Unborn, Ours
  <2>4. \A k \in Kinds : Intact(r, k)' <=> Intact(r, k)
    BY <2>2 DEF Intact, Ours
  <2>5. PairIntact(r)' <=> PairIntact(r)
    BY <2>2 DEF PairIntact, Intact, Ours
  <2>. QED
    BY <1>2, <2>1, <2>2, <2>3, <2>4, <2>5, Positions DEF World
<1>. QED
  BY <1>2, <1>3

\* Before its cleanup a run has said and recorded nothing.
LEMMA Unconcluded ==
  ASSUME IInv, NEW r \in Runs, pc[r] \notin {"linked", "over"}
  PROVE  ~Recorded(r) /\ report[r] = "none"
BY DEF IInv, Evaluating, Concluded

\* Nor has it after a step that says and records nothing.
LEMMA StillUnconcluded ==
  ASSUME IInv, NEW r \in Runs, pc[r] \notin {"linked", "over"}, store' = store, report' = report,
         pc'[r] \notin {"proof", "linked"}
  PROVE  Concluded(r)'
<1>1. ~Recorded(r)' /\ report'[r] = "none"
  BY Unconcluded DEF Recorded
<1>. QED
  BY <1>1 DEF Concluded

\* A run that is not sending a CREATE has none on its way before its cleanup.
LEMMA NothingAsked ==
  ASSUME IInv, NEW r \in Runs
  PROVE  /\ pc[r] \in {"idle", "admit", "create", "ready", "running"} => Creates(r) = {}
         /\ pc[r] \in Closing /\ ~unsure[r] => Creates(r) = {}
BY DEF IInv, Evaluating, Requesting, Executing

\* Passes count as before while no fewer are credited.
LEMMA CountedBefore ==
  ASSUME IInv, NEW r \in Runs, Proceeds(r), credited'[r] = credited[r]
  PROVE  \A t \in credited'[r] :
           /\ ~Pending(r, t)'
           /\ (answer[r][t] = "good" \/ (answer[r][t] = "none" /\ ~Ours(r, t)))'
<1>1. credited[r] \subseteq Kinds
  BY Positions DEF IInv, Typed, TypeOK
<1>2. Counted(r)
  BY DEF IInv, Evaluating
<1>. QED
  BY <1>1, <1>2, Shrinks DEF Counted, Proceeds, cluster, Ours

\* The store is opened, or is not.
LEMMA OpenKeeps ==
  ASSUME IInv, NEW r \in Runs, Open(r) \/ Refuse(r)
  PROVE  Evaluating(r)' /\ Proceeds(r)
<1>1. /\ pc[r] = "idle" /\ (pc'[r] = "admit" \/ pc'[r] = "over") /\ requests' = requests
      /\ store' = store
      /\ UNCHANGED <<cluster, execution, cleanup, reply, report>>
  <2>1. r \in Actors /\ pc \in [Actors -> RunSteps]
    BY Different DEF IInv, Typed
  <2>. QED
    BY <2>1 DEF Open, Refuse, Go, evidence
<1>2. Evaluating(r)
  BY DEF IInv
<1>3. Creates(r) = {} /\ Creates(r)' = {}
  BY <1>1, NothingAsked DEF Creates
<1>4. World(r)' /\ Proceeds(r)
  <2>1. Proceeds(r)
    BY <1>1, <1>3 DEF Proceeds, cleanup
  <2>. QED
    BY <2>1, Shrinks
<1>5. credited[r] = {} /\ credited'[r] = {} /\ ~unsure'[r] /\ of'[r] = r
  BY <1>1, <1>2 DEF Evaluating, Placed, execution, judged, cleanup
<1>6. Placed(r)'
  BY <1>1, <1>5 DEF Placed, Creating
<1>7. Requesting(r)'
  <2>1. \A q \in requests : q.verb = "delete" => q.waiter # r
    BY <1>1, <1>2 DEF Evaluating, Requesting
  <2>. QED
    BY <1>1, <1>3, <2>1 DEF Requesting
<1>8. Accounted(r)'
  BY <1>1 DEF Accounted, Closing, Cleaning
<1>9. Counted(r)'
  BY <1>1, <1>5 DEF Counted, Creating, Closing, Cleaning
<1>10. Concluded(r)'
  BY <1>1, StillUnconcluded
<1>. QED
  BY <1>4, <1>6, <1>7, <1>8, <1>9, <1>10 DEF Evaluating

\* The pair's names are admitted.
LEMMA AdmitKeeps ==
  ASSUME IInv, NEW r \in Runs, Admit(r)
  PROVE  Evaluating(r)' /\ Proceeds(r)
<1>1. /\ pc[r] = "admit" /\ pc'[r] = "create" /\ cur'[r] = "Provider" /\ requests' = requests
      /\ store' = store
      /\ UNCHANGED <<cluster, unsure, credited, failed, cleanup, reply, report>>
  <2>1. r \in Actors /\ pc \in [Actors -> RunSteps] /\ cur \in [Runs -> Kinds \cup {None}]
    BY Different DEF IInv, Typed, TypeOK
  <2>. QED
    BY <2>1 DEF Admit, Go, evidence
<1>2. Evaluating(r)
  BY DEF IInv
<1>3. Creates(r) = {} /\ Creates(r)' = {}
  BY <1>1, NothingAsked DEF Creates
<1>4. World(r)' /\ Proceeds(r)
  <2>1. Proceeds(r)
    BY <1>1, <1>3 DEF Proceeds, cleanup
  <2>. QED
    BY <2>1, Shrinks
<1>5. credited[r] = {} /\ ~unsure[r] /\ of[r] = r
  BY <1>1, <1>2 DEF Evaluating, Placed
<1>6. /\ "Provider" \in Kinds /\ "Provider" \notin Tasks
      /\ \A k \in Kinds : ~(Pos(k) < Pos("Provider"))
  BY Positions, TasksInOrder
<1>7. Placed(r)'
  BY <1>1, <1>5, <1>6 DEF Placed, cleanup, Pos
<1>8. Requesting(r)'
  <2>1. \A q \in requests : q.verb = "delete" => q.waiter # r
    BY <1>1, <1>2 DEF Evaluating, Requesting, Executing
  <2>. QED
    BY <1>1, <1>3, <2>1 DEF Requesting
<1>9. Accounted(r)'
  BY <1>1 DEF Accounted, Closing, Cleaning
<1>10. Counted(r)'
  <2>1. \A i \in DOMAIN Cases : Last(Cases[i].tasks) \in Kinds
    BY CasesEnd, Positions
  <2>. QED
    BY <1>1, <1>5, <1>6, <2>1 DEF Counted, Closing, Cleaning, Pos
<1>11. Concluded(r)'
  BY <1>1, StillUnconcluded
<1>. QED
  BY <1>4, <1>7, <1>8, <1>9, <1>10, <1>11 DEF Evaluating

\* The one CREATE of a kind is sent.
LEMMA SendCreateKeeps ==
  ASSUME IInv, NEW r \in Runs, SendCreate(r)
  PROVE  Evaluating(r)' /\ Proceeds(r) /\ Asks(r)
<1>1. /\ pc[r] = "create" /\ pc'[r] = "creating" /\ unsure'[r] = TRUE /\ reply'[r] = "none"
      /\ Send(r, "create", r, cur[r]) /\ store' = store
      /\ UNCHANGED <<cluster, cur, credited, failed, cleanup, report>>
  <2>1. /\ r \in Actors /\ pc \in [Actors -> RunSteps] /\ unsure \in [Runs -> BOOLEAN]
        /\ reply \in [Actors -> {"none", "ok", "refused"}]
    BY Different DEF IInv, Typed, TypeOK
  <2>. QED
    BY <2>1 DEF SendCreate, Go, Send, evidence
<1>2. Evaluating(r)
  BY DEF IInv
<1>3. cur[r] \in Kinds
  BY <1>1, Current DEF Creating
<1>4. Creates(r) = {}
  BY <1>1, NothingAsked
<1>5. /\ Asks(r) /\ \A q \in requests' : q.verb = "delete" => q \in requests
      /\ \E q \in Requests : Creates(r)' = Creates(r) \cup {q} /\ q.waiter = r /\ q.kind = cur[r]
  BY <1>1, <1>3, AsksCreate
<1>6. World(r)' /\ Proceeds(r)
  <2>1. Proceeds(r)
    BY <1>1, <1>4, <1>5 DEF Proceeds, cleanup
  <2>. QED
    BY <2>1, Shrinks
<1>7. Placed(r)'
  BY <1>1, <1>2 DEF Evaluating, Placed, Creating, cleanup, Pos
<1>8. Requesting(r)'
  <2>1. \A q \in requests : q.verb = "delete" => q.waiter # r
    BY <1>1, <1>2 DEF Evaluating, Requesting, Executing
  <2>2. \A q \in Creates(r)' : /\ q.waiter = r /\ q.kind = cur[r] /\ \A w \in Creates(r)' : w = q
    BY <1>4, <1>5
  <2>. QED
    BY <1>1, <1>5, <2>1, <2>2 DEF Requesting, Closing, Cleaning
<1>9. Accounted(r)'
  BY <1>1 DEF Accounted, Closing, Cleaning
<1>10. Counted(r)'
  <2>1. Counted(r)
    BY <1>2 DEF Evaluating
  <2>2. pc'[r] \notin Closing /\ pc[r] \in Creating
    BY <1>1 DEF Closing, Cleaning, Creating
  <2>3. \A t \in credited'[r] :
           /\ ~Pending(r, t)'
           /\ (answer[r][t] = "good" \/ (answer[r][t] = "none" /\ ~Ours(r, t)))'
    BY <1>1, <1>6, CountedBefore
  <2>. QED
    BY <1>1, <2>1, <2>2, <2>3 DEF Counted, Pos, Enough
<1>11. Concluded(r)'
  BY <1>1, StillUnconcluded
<1>. QED
  BY <1>5, <1>6, <1>7, <1>8, <1>9, <1>10, <1>11 DEF Evaluating

\* The root is acknowledged.
LEMMA CreatedKeeps ==
  ASSUME IInv, NEW r \in Runs, Created(r)
  PROVE  Evaluating(r)' /\ Proceeds(r)
<1>1. /\ pc[r] = "creating" /\ pc'[r] \in {"ready", "running"} /\ (pc'[r] = "running" <=> cur[r] \in Tasks)
      /\ unsure'[r] = FALSE /\ roots'[r] = roots[r] \cup {cur[r]} /\ reply[r] = "ok"
      /\ requests' = requests /\ store' = store
      /\ UNCHANGED <<cluster, cur, credited, failed, of, report>>
  <2>1. /\ r \in Actors /\ pc \in [Actors -> RunSteps] /\ unsure \in [Runs -> BOOLEAN]
        /\ roots \in [Actors -> SUBSET Kinds]
    BY Different DEF IInv, Typed, TypeOK
  <2>. QED
    BY <2>1 DEF Created, Go, evidence
<1>2. Evaluating(r)
  BY DEF IInv
<1>3. Creates(r) = {} /\ Creates(r)' = {}
  <2>1. Creates(r) = {}
    BY <1>1, <1>2 DEF Evaluating, Requesting, Executing
  <2>. QED
    BY <1>1, <2>1 DEF Creates
<1>4. World(r)' /\ Proceeds(r)
  <2>1. Proceeds(r)
    BY <1>1, <1>3 DEF Proceeds
  <2>. QED
    BY <2>1, Shrinks
<1>5. Placed(r)'
  BY <1>1, <1>2 DEF Evaluating, Placed, Creating, Pos
<1>6. Requesting(r)'
  <2>1. \A q \in requests : q.verb = "delete" => q.waiter # r
    BY <1>1, <1>2 DEF Evaluating, Requesting, Executing
  <2>. QED
    BY <1>1, <1>3, <2>1 DEF Requesting
<1>7. Accounted(r)'
  BY <1>1 DEF Accounted, Closing, Cleaning
<1>8. Counted(r)'
  <2>1. Counted(r)
    BY <1>2 DEF Evaluating
  <2>2. pc'[r] \notin Closing /\ pc[r] \in Creating
    BY <1>1 DEF Closing, Cleaning, Creating
  <2>3. \A t \in credited'[r] :
           /\ ~Pending(r, t)'
           /\ (answer[r][t] = "good" \/ (answer[r][t] = "none" /\ ~Ours(r, t)))'
    BY <1>1, <1>4, CountedBefore
  <2>. QED
    BY <1>1, <2>1, <2>2, <2>3 DEF Counted, Pos, Enough
<1>9. Concluded(r)'
  BY <1>1, StillUnconcluded
<1>. QED
  BY <1>4, <1>5, <1>6, <1>7, <1>8, <1>9 DEF Evaluating

\* The kinds up to the next one.
LEMMA UpToNext ==
  ASSUME NEW c \in Kinds, NEW d \in Kinds, Pos(d) = Pos(c) + 1, NEW k \in Kinds
  PROVE  Pos(k) < Pos(d) <=> (Pos(k) < Pos(c) \/ k = c)
<1>1. Pos(k) \in Nat /\ Pos(c) \in Nat /\ (Pos(k) = Pos(c) => k = c)
  BY Positions
<1>. QED
  BY <1>1

\* A part of the pair is ready.
LEMMA BecomeReadyKeeps ==
  ASSUME IInv, NEW r \in Runs, BecomeReady(r)
  PROVE  Evaluating(r)' /\ Proceeds(r)
<1>1. /\ pc[r] = "ready" /\ pc'[r] = "create" /\ cur'[r] = After(cur[r])
      /\ requests' = requests /\ store' = store
      /\ UNCHANGED <<cluster, unsure, credited, failed, cleanup, reply, report>>
  <2>1. /\ r \in Actors /\ pc \in [Actors -> RunSteps] /\ cur \in [Runs -> Kinds \cup {None}]
    BY Different DEF IInv, Typed, TypeOK
  <2>. QED
    BY <2>1 DEF BecomeReady, Go, evidence
<1>2. Evaluating(r)
  BY DEF IInv
<1>3. cur[r] \in Kinds /\ cur'[r] \in Kinds /\ Pos(cur'[r]) = Pos(cur[r]) + 1 /\ cur[r] \notin Tasks
  <2>1. cur[r] \notin Tasks
    BY <1>1, <1>2 DEF Evaluating, Placed, Creating
  <2>. QED
    BY <1>1, <2>1, Current DEF Creating
<1>4. Creates(r) = {} /\ Creates(r)' = {}
  BY <1>1, NothingAsked DEF Creates
<1>5. World(r)' /\ Proceeds(r)
  <2>1. Proceeds(r)
    BY <1>1, <1>3, <1>4 DEF Proceeds, cleanup
  <2>. QED
    BY <2>1, Shrinks
<1>6. Placed(r)'
  <2>1. /\ of[r] = r /\ ~unsure[r] /\ cur[r] \in roots[r]
        /\ \A k \in Kinds : Pos(k) < Pos(cur[r]) => k \in roots[r]
    BY <1>1, <1>2 DEF Evaluating, Placed, Creating
  <2>2. \A k \in Kinds : Pos(k) < Pos(cur'[r]) => k \in roots[r]
    BY <1>3, <2>1, UpToNext
  <2>. QED
    BY <1>1, <1>3, <2>1, <2>2 DEF Placed, cleanup, Pos
<1>7. Requesting(r)'
  <2>1. \A q \in requests : q.verb = "delete" => q.waiter # r
    BY <1>1, <1>2 DEF Evaluating, Requesting, Executing
  <2>. QED
    BY <1>1, <1>4, <2>1 DEF Requesting
<1>8. Accounted(r)'
  BY <1>1 DEF Accounted, Closing, Cleaning
<1>9. Counted(r)'
  <2>1. Counted(r) /\ pc[r] \in Creating
    BY <1>1, <1>2 DEF Evaluating, Creating
  <2>2. pc'[r] \notin Closing
    BY <1>1 DEF Closing, Cleaning
  <2>3. \A t \in credited'[r] :
           /\ ~Pending(r, t)'
           /\ (answer[r][t] = "good" \/ (answer[r][t] = "none" /\ ~Ours(r, t)))'
    BY <1>1, <1>5, CountedBefore
  <2>4. ASSUME NEW i \in DOMAIN Cases, Pos(Last(Cases[i].tasks)) < Pos(cur'[r])
        PROVE  Enough(i, credited[r])
    <3>1. Last(Cases[i].tasks) \in Kinds /\ Last(Cases[i].tasks) \in Tasks
      BY CasesEnd, Positions
    <3>2. Pos(Last(Cases[i].tasks)) < Pos(cur[r])
      BY <1>3, <2>4, <3>1, UpToNext
    <3>. QED
      BY <2>1, <3>2 DEF Counted
  <2>. QED
    BY <1>1, <2>2, <2>3, <2>4 DEF Counted, Pos, Enough
<1>10. Concluded(r)'
  BY <1>1, StillUnconcluded
<1>. QED
  BY <1>5, <1>6, <1>7, <1>8, <1>9, <1>10 DEF Evaluating

\* What a run does not have as a root, while it knows of all, does not exist yet.
LEMMA Unplaced ==
  ASSUME IInv, NEW r \in Runs, pc[r] \in Executing, ~unsure[r], NEW k \in Kinds, k \notin roots[r]
  PROVE  Absent(r, {k})
<1>1. Placed(r) /\ World(r)
  BY DEF IInv, Evaluating
<1>2. Pending(r, k)
  <2>1. CASE pc[r] = "admit"
    BY <2>1 DEF Pending
  <2>2. CASE pc[r] \in Creating
    <3>1. /\ cur[r] \in Kinds /\ ~(Pos(k) < Pos(cur[r])) /\ pc[r] # "creating"
          /\ pc[r] \in {"ready", "running"} => k # cur[r]
      BY <1>1, <2>2 DEF Placed
    <3>2. Pos(cur[r]) \in Nat /\ Pos(k) \in Nat /\ (Pos(k) = Pos(cur[r]) => k = cur[r])
      BY <3>1, Positions
    <3>3. Pos(cur[r]) <= Pos(k) /\ (k # cur[r] => Pos(cur[r]) < Pos(k))
      BY <3>1, <3>2
    <3>. QED
      BY <2>2, <3>1, <3>3 DEF Pending, Creating
  <2>. QED
    BY <2>1, <2>2 DEF Executing, Creating
<1>. QED
  BY <1>1, <1>2 DEF World, Unborn, Absent

\* Placement or execution is stopped.
LEMMA StopKeeps ==
  ASSUME IInv, NEW r \in Runs, Stop(r)
  PROVE  Evaluating(r)' /\ Proceeds(r) /\ Asks(r)
<1>1. /\ pc[r] \in Executing /\ pc'[r] = "survey" /\ credited'[r] = {} /\ failed'[r] = TRUE
      /\ requests' = Abandoned(r) /\ store' = store
      /\ UNCHANGED <<cluster, unsure, of, roots, report>>
  <2>1. /\ r \in Actors /\ pc \in [Actors -> RunSteps] /\ credited \in [Runs -> SUBSET Tasks]
        /\ failed \in [Runs -> BOOLEAN]
    BY Different DEF IInv, Typed, TypeOK
  <2>. QED
    BY <2>1 DEF Stop, Fail, Go, evidence
<1>2. Evaluating(r) /\ r \in Actors
  BY Different DEF IInv
<1>3. /\ Asks(r) /\ \A q \in requests' : q.waiter # r
      /\ \A q \in Creates(r)' : q.waiter = None /\ \E w \in Creates(r) : w.kind = q.kind
      /\ \A q, w \in Creates(r)' : w = q
  BY <1>1, <1>2, AsksNoMore
<1>4. World(r)' /\ Proceeds(r)
  <2>1. Proceeds(r)
    BY <1>1, <1>3 DEF Proceeds, Closing, Cleaning
  <2>. QED
    BY <2>1, Shrinks
<1>5. Placed(r)'
  BY <1>1, <1>2 DEF Evaluating, Placed, Creating
<1>6. Requesting(r)'
  <2>1. ASSUME NEW q \in Creates(r)' PROVE unsure[r]
    <3>1. Creates(r) # {}
      BY <1>3
    <3>2. pc[r] = "creating"
      BY <1>1, <3>1, NothingAsked DEF Executing
    <3>. QED
      BY <1>2, <3>2 DEF Evaluating, Placed, Creating
  <2>. QED
    BY <1>1, <1>3, <2>1 DEF Requesting, Executing
<1>7. Accounted(r)'
  <2>. SUFFICES ASSUME ~unsure[r], NEW k \in Kinds, k \notin roots[r] PROVE Absent(r, {k})'
    BY <1>1 DEF Accounted
  <2>1. Absent(r, {k})
    BY <1>1, Unplaced
  <2>. QED
    BY <1>1, <2>1 DEF Absent, Ours, cluster
<1>8. Counted(r)'
  BY <1>1 DEF Counted, Creating
<1>9. Concluded(r)'
  <2>1. pc[r] \notin {"linked", "over"} /\ pc'[r] \notin {"proof", "linked"}
    BY <1>1 DEF Executing
  <2>. QED
    BY <1>1, <2>1, StillUnconcluded
<1>. QED
  BY <1>3, <1>4, <1>5, <1>6, <1>7, <1>8, <1>9 DEF Evaluating

\* An answer is judged.
LEMMA JudgeKeeps ==
  ASSUME IInv, NEW r \in Runs, Judge(r)
  PROVE  Evaluating(r)' /\ Proceeds(r)
<1>. DEFINE t == cur[r]
<1>1. /\ pc[r] = "running" /\ requests' = requests /\ store' = store
      /\ answer[r][t] # "none" /\ Verified(r)
      /\ UNCHANGED <<cluster, unsure, failed, of, roots, reply, report>>
      /\ credited'[r] = IF answer[r][t] # "bad" THEN credited[r] \cup {t} ELSE credited[r]
      /\ t = Last(Cases[CaseOf(t)].tasks) => Enough(CaseOf(t), credited'[r])
      /\ \/ t = Last(TaskOrder) /\ pc'[r] = "survey"
         \/ t # Last(TaskOrder) /\ pc'[r] = "create" /\ cur'[r] = After(t)
  <2>1. /\ r \in Actors /\ pc \in [Actors -> RunSteps] /\ credited \in [Runs -> SUBSET Tasks]
        /\ cur \in [Runs -> Kinds \cup {None}]
    BY Different DEF IInv, Typed, TypeOK
  <2>2. credited'[r] = IF answer[r][t] # "bad" THEN credited[r] \cup {t} ELSE credited[r]
    BY <2>1 DEF Judge
  <2>3. t = Last(Cases[CaseOf(t)].tasks) => Enough(CaseOf(t), credited'[r])
    BY <2>2 DEF Judge
  <2>. QED
    BY <2>1, <2>2, <2>3 DEF Judge, Go, evidence
<1>2. Evaluating(r) /\ credited[r] \subseteq Tasks /\ t \in Tasks /\ t \in Kinds
  <2>1. t \in Tasks /\ t \in Kinds
    BY <1>1, Current, Positions DEF Creating
  <2>. QED
    BY <2>1 DEF IInv, Typed, TypeOK
<1>3. pc'[r] = "create" => cur'[r] \in Kinds /\ Pos(cur'[r]) = Pos(t) + 1
  BY <1>1, Current DEF Creating
<1>. HIDE DEF t
<1>4. Creates(r) = {} /\ Creates(r)' = {}
  BY <1>1, NothingAsked DEF Creates
<1>5. World(r)' /\ Proceeds(r) /\ \A k \in Kinds : Pending(r, k)' => Pending(r, k)
  <2>1. Proceeds(r)
    BY <1>1, <1>3, <1>4 DEF Proceeds, Closing, Cleaning, t
  <2>. QED
    BY <2>1, Shrinks
<1>6. /\ of[r] = r /\ ~unsure[r] /\ t \in roots[r]
      /\ \A k \in Kinds : Pos(k) < Pos(t) => k \in roots[r]
  BY <1>1, <1>2 DEF Evaluating, Placed, Creating, t
<1>7. Placed(r)'
  <2>1. pc'[r] = "create" => \A k \in Kinds : Pos(k) < Pos(cur'[r]) => k \in roots[r]
    BY <1>2, <1>3, <1>6, UpToNext
  <2>. QED
    BY <1>1, <1>3, <1>6, <2>1 DEF Placed, Pos, Creating
<1>8. Requesting(r)'
  <2>1. \A q \in requests : q.verb = "delete" => q.waiter # r
    BY <1>1, <1>2 DEF Evaluating, Requesting, Executing
  <2>. QED
    BY <1>1, <1>4, <2>1 DEF Requesting
<1>9. Accounted(r)'
  <2>. SUFFICES ASSUME pc'[r] \in Closing, NEW k \in Kinds PROVE k \in roots[r]
    BY <1>1 DEF Accounted
  <2>1. t = Last(TaskOrder)
    BY <1>1 DEF Closing, Cleaning
  <2>2. Pos(k) \in 1 .. Len(CreateOrder) /\ Pos(t) = Len(CreateOrder) /\ Len(CreateOrder) \in Nat
        /\ (Pos(k) = Pos(t) => k = t)
    BY <1>2, <2>1, LastTask, Positions
  <2>3. Pos(k) < Pos(t) \/ k = t
    BY <2>2
  <2>. QED
    BY <1>6, <2>3
<1>10. ASSUME NEW u \in credited'[r]
       PROVE  /\ ~Pending(r, u)'
              /\ (answer[r][u] = "good" \/ (answer[r][u] = "none" /\ ~Ours(r, u)))'
  <2>1. CASE u \in credited[r]
    <3>1. ~Pending(r, u) /\ (answer[r][u] = "good" \/ (answer[r][u] = "none" /\ ~Ours(r, u)))
      BY <1>2, <2>1 DEF Evaluating, Counted
    <3>2. u \in Kinds
      BY <1>2, <2>1, Positions
    <3>. QED
      BY <1>1, <1>5, <3>1, <3>2 DEF cluster, Ours
  <2>2. CASE u = t /\ answer[r][t] # "bad"
    <3>1. Verified(r) => PairIntact(r) /\ Intact(r, t)
      BY DEF Verified, t
    <3>2. answer[r][t] \in {"none", "good", "spoiled", "bad"}
      BY <1>2 DEF IInv, Typed, TypeOK
    <3>3. answer[r][t] = "good"
      BY <1>1, <1>2, <2>2, <3>1, <3>2 DEF Evaluating, World
    <3>4. ~Pending(r, t)
      <4>1. ~(Pos(t) < Pos(t))
        BY <1>2, Positions
      <4>. QED
        BY <1>1, <1>4, <4>1 DEF Pending, t
    <3>. QED
      BY <1>1, <1>2, <1>5, <2>2, <3>3, <3>4 DEF cluster
  <2>. QED
    BY <1>1, <2>1, <2>2
<1>11. ASSUME NEW i \in DOMAIN Cases, Pos(Last(Cases[i].tasks)) <= Pos(t)
       PROVE  Enough(i, credited'[r])
  <2>1. /\ Last(Cases[i].tasks) \in Tasks /\ Last(Cases[i].tasks) \in Kinds
        /\ CaseOf(Last(Cases[i].tasks)) = i
    BY CasesEnd, Positions
  <2>2. CASE Last(Cases[i].tasks) = t
    BY <1>1, <2>1, <2>2
  <2>3. CASE Pos(Last(Cases[i].tasks)) < Pos(t)
    <3>1. Enough(i, credited[r])
      BY <1>1, <1>2, <2>3 DEF Evaluating, Counted, Creating, t
    <3>2. credited[r] \subseteq credited'[r] /\ credited'[r] \subseteq Tasks
      BY <1>1, <1>2
    <3>. QED
      BY <3>1, <3>2, EnoughGrows
  <2>. QED
    BY <1>2, <1>11, <2>1, <2>2, <2>3, Positions
<1>12. Counted(r)'
  <2>1. ASSUME pc'[r] = "create", NEW i \in DOMAIN Cases, Pos(Last(Cases[i].tasks)) < Pos(cur'[r])
        PROVE  Enough(i, credited'[r])
    <3>1. Last(Cases[i].tasks) \in Kinds
      BY CasesEnd, Positions
    <3>2. Pos(Last(Cases[i].tasks)) <= Pos(t)
      BY <1>2, <1>3, <2>1, <3>1, Positions
    <3>. QED
      BY <1>11, <3>2
  <2>2. ASSUME pc'[r] = "survey", NEW i \in DOMAIN Cases PROVE Enough(i, credited'[r])
    <3>1. t = Last(TaskOrder) /\ Last(Cases[i].tasks) \in Kinds
      BY <1>1, <2>2, CasesEnd, Positions
    <3>2. Pos(Last(Cases[i].tasks)) <= Pos(t)
      BY <3>1, LastTask, Positions
    <3>. QED
      BY <1>11, <3>2
  <2>. QED
    BY <1>1, <1>10, <2>1, <2>2 DEF Counted, Creating, Closing, Cleaning, Pos, Enough
<1>13. Concluded(r)'
  BY <1>1, StillUnconcluded
<1>. QED
  BY <1>5, <1>7, <1>8, <1>9, <1>12, <1>13 DEF Evaluating

\* What is left of a run depends on the cluster and its own requests.
LEMMA LeavesTheSame ==
  ASSUME UNCHANGED cluster, NEW r \in Runs, Creates(r)' = {}
  PROVE  NothingLeft(r) => NothingLeft(r)'
BY DEF NothingLeft, Creates, Absent, Ours, cluster

\* A run that found its roots and their children absent left nothing.
LEMMA FinalLeavesNothing ==
  ASSUME IInv, NEW r \in Runs, pc[r] = "final", ~unsure[r], ChildrenGone(r),
         \A k \in roots[r] : object[of[r]][k] = None
  PROVE  NothingLeft(r)
<1>1. pc[r] \in Closing /\ of[r] = r /\ Accounted(r)
  BY DEF IInv, Evaluating, Placed, Closing, Cleaning
<1>2. Creates(r) = {}
  BY <1>1, NothingAsked
<1>3. ASSUME NEW k \in Kinds PROVE Absent(r, {k})
  <2>1. CASE k \in roots[r]
    BY <1>1, <2>1 DEF Absent, Ours, ChildrenGone
  <2>2. CASE k \notin roots[r]
    BY <1>1, <2>2 DEF Accounted
  <2>. QED
    BY <2>1, <2>2
<1>4. Absent(r, Kinds)
  BY <1>3 DEF Absent
<1>. QED
  BY <1>2, <1>4 DEF NothingLeft, Creates

\* The cleanup and the record of a run, except for what it says.
LEMMA CloseKeeps ==
  ASSUME IInv, NEW r \in Runs, UNCHANGED cluster, pc[r] \in Closing, pc'[r] \in Closing,
         of'[r] = of[r], roots'[r] = roots[r], unsure'[r] = unsure[r],
         credited'[r] = credited[r], failed'[r] = failed[r], Creates(r)' = Creates(r)
  PROVE  /\ Placed(r)' /\ Requesting(r)' /\ World(r)' /\ Accounted(r)' /\ Counted(r)'
         /\ Proceeds(r)
<1>1. Evaluating(r)
  BY DEF IInv
<1>2. pc'[r] \notin Executing \cup {"idle"} \cup Creating
  BY DEF Closing, Cleaning, Executing, Creating
<1>3. Proceeds(r)
  BY DEF Proceeds
<1>4. World(r)'
  BY <1>3, Shrinks
<1>5. Placed(r)'
  BY <1>1, <1>2 DEF Evaluating, Placed, Executing
<1>6. Requesting(r)'
  BY <1>1, <1>2 DEF Evaluating, Requesting
<1>7. Accounted(r)'
  BY <1>1 DEF Evaluating, Accounted, Absent, Ours, cluster
<1>8. Counted(r)'
  BY <1>1, <1>2, <1>3, CountedBefore DEF Evaluating, Counted, Enough
<1>. QED
  BY <1>3, <1>4, <1>5, <1>6, <1>7, <1>8

\* A cleanup that goes on, for the run itself.
LEMMA WorkKeeps ==
  ASSUME IInv, NEW a \in Actors, Works(a)
  PROVE  Asks(a) /\ (a \in Runs => Evaluating(a)' /\ Proceeds(a))
<1>1. /\ pc[a] \in Cleaning
      /\ \E step \in Cleaning : pc' = [pc EXCEPT ![a] = step]
      /\ UNCHANGED <<cluster, evidence, execution, of, roots, approved, report, faults>>
      /\ \/ requests' = requests
         \/ /\ Send(a, "delete", of[a], NextRoot(a)) /\ NextRoot(a) \in Kinds
            /\ Ours(of[a], NextRoot(a)) /\ ~Changed(a, NextRoot(a))
  BY WorkSays
<1>2. Asks(a) /\ \A r \in Runs : Creates(r)' = Creates(r)
  <2>1. of[a] \in Runs
    BY <1>1, CleansFor
  <2>. QED
    BY <1>1, <2>1, AsksNothing, AsksDelete
<1>3. ASSUME a \in Runs PROVE Evaluating(a)' /\ Proceeds(a)
  <2>1. pc'[a] \in Cleaning /\ pc \in [Actors -> RunSteps]
    BY <1>1 DEF IInv, Typed
  <2>2. pc[a] \in Closing /\ pc'[a] \in Closing
    BY <1>1, <2>1 DEF Closing
  <2>3. /\ Placed(a)' /\ Requesting(a)' /\ World(a)' /\ Accounted(a)' /\ Counted(a)'
        /\ Proceeds(a)
    BY <1>1, <1>2, <1>3, <2>2, CloseKeeps DEF execution, judged
  <2>4. pc[a] \notin {"linked", "over"} /\ pc'[a] \notin {"proof", "linked"}
    BY <1>1, <2>1 DEF Cleaning
  <2>5. Concluded(a)'
    BY <1>1, <1>3, <2>4, StillUnconcluded DEF evidence
  <2>. QED
    BY <2>3, <2>5 DEF Evaluating
<1>. QED
  BY <1>2, <1>3

\* A run that did not fail goes on to its record, having left nothing.
LEMMA ProveKeeps ==
  ASSUME IInv, NEW r \in Actors, Proves(r)
  PROVE  Evaluating(r)' /\ Proceeds(r) /\ Asks(r)
<1>1. /\ r \in Runs /\ pc[r] = "final" /\ Go(r, "proof") /\ ~failed[r] /\ ~unsure[r]
      /\ ChildrenGone(r) /\ \A k \in roots[r] : object[of[r]][k] = None
      /\ UNCHANGED <<cluster, requests, evidence, reply, report, execution, cleanup, faults>>
  BY ProveSays
<1>2. pc'[r] = "proof"
  BY <1>1 DEF Go, IInv, Typed
<1>3. Asks(r) /\ Creates(r)' = Creates(r)
  BY <1>1, AsksNothing
<1>4. /\ Placed(r)' /\ Requesting(r)' /\ World(r)' /\ Accounted(r)' /\ Counted(r)'
      /\ Proceeds(r)
  BY <1>1, <1>2, <1>3, CloseKeeps DEF Closing, Cleaning, execution, judged, cleanup
<1>5. Concluded(r)'
  <2>1. NothingLeft(r)
    BY <1>1, FinalLeavesNothing
  <2>2. Creates(r)' = {}
    BY <1>1, <1>3, NothingAsked DEF Closing, Cleaning
  <2>3. NothingLeft(r)'
    BY <1>1, <2>1, <2>2, LeavesTheSame
  <2>4. ~Recorded(r)' /\ report'[r] = "none"
    BY <1>1, Unconcluded DEF Recorded, evidence
  <2>. QED
    BY <1>1, <1>2, <2>3, <2>4 DEF Concluded, execution, judged
<1>. QED
  BY <1>3, <1>4, <1>5 DEF Evaluating

\* The record is linked.
LEMMA LinkKeeps ==
  ASSUME IInv, NEW r \in Runs, Link(r)
  PROVE  /\ Evaluating(r)' /\ Proceeds(r) /\ Asks(r)
         /\ \A s \in Runs \ {r} : Recorded(s)' <=> Recorded(s)
<1>1. /\ pc[r] = "proof" /\ pc' = [pc EXCEPT ![r] = "linked"] /\ store' = Append(store, r)
      /\ UNCHANGED <<cluster, requests, execution, cleanup, reply, report>>
  BY DEF Link, Go
<1>2. pc'[r] = "linked" /\ store \in Seq(Runs \cup {Earlier})
  BY <1>1, Different DEF IInv, Typed, TypeOK
<1>3. \A s : Recorded(s)' <=> (Recorded(s) \/ s = r)
  <2>1. /\ store' = Append(store, r) /\ DOMAIN store = 1 .. Len(store) /\ Len(store) \in Nat
        /\ DOMAIN store' = 1 .. Len(store) + 1
        /\ store'[Len(store) + 1] = r
        /\ \A i \in 1 .. Len(store) : store'[i] = store[i]
    BY <1>1, <1>2
  <2>2. ASSUME NEW s, NEW i \in DOMAIN store, store[i] = s PROVE i \in DOMAIN store' /\ store'[i] = s
    BY <2>1, <2>2
  <2>3. ASSUME NEW s, NEW i \in DOMAIN store', store'[i] = s
        PROVE  s = r \/ \E j \in DOMAIN store : store[j] = s
    <3>1. i = Len(store) + 1 \/ i \in 1 .. Len(store)
      BY <2>1
    <3>. QED
      BY <2>1, <2>3, <3>1
  <2>4. Len(store) + 1 \in DOMAIN store'
    BY <2>1
  <2>. QED
    BY <2>1, <2>2, <2>3, <2>4 DEF Recorded, Range
<1>4. Asks(r) /\ Creates(r)' = Creates(r)
  BY <1>1, AsksNothing
<1>5. /\ Placed(r)' /\ Requesting(r)' /\ World(r)' /\ Accounted(r)' /\ Counted(r)'
      /\ Proceeds(r)
  BY <1>1, <1>2, <1>4, CloseKeeps DEF Closing, execution, judged, cleanup
<1>6. Concluded(r)'
  <2>1. Evaluating(r)
    BY DEF IInv
  <2>2. NothingLeft(r) /\ ~failed[r] /\ ~unsure[r]
    BY <1>1, <2>1 DEF Evaluating, Concluded
  <2>3. Creates(r)' = {}
    BY <1>1, <1>4, <2>2, NothingAsked DEF Closing
  <2>4. NothingLeft(r)'
    BY <1>1, <2>2, <2>3, LeavesTheSame
  <2>5. \A i \in DOMAIN Cases : Enough(i, credited[r])
    BY <1>1, <2>1, <2>2 DEF Evaluating, Counted, Closing
  <2>6. report'[r] = "none"
    BY <1>1, Unconcluded
  <2>7. Recorded(r)'
    BY <1>3
  <2>. QED
    BY <1>1, <1>2, <2>2, <2>4, <2>5, <2>6, <2>7 DEF Concluded, execution, judged, Enough
<1>. QED
  BY <1>3, <1>4, <1>5, <1>6 DEF Evaluating

\* The end of a run.
LEMMA EndKeeps ==
  ASSUME IInv, NEW r \in Runs, NEW said \in Said, Ends(r, said)
  PROVE  Evaluating(r)' /\ Proceeds(r)
<1>1. /\ pc'[r] = "over" /\ requests' = Abandoned(r) /\ store' = store
      /\ of'[r] = of[r] /\ report'[r] = said /\ ~unsure'[r]
      /\ pc[r] # "linked" => credited'[r] = {}
      /\ pc[r] = "linked" => credited'[r] = credited[r] /\ (failed'[r] <=> failed[r])
      /\ UNCHANGED cluster
  <2>1. /\ r \in Actors /\ r \notin Operators /\ pc \in [Actors -> RunSteps]
        /\ of \in [Actors -> Runs \cup {None}]
        /\ report \in [Actors -> {"none", "passed", "uncertain", "clean", "incomplete"}]
    BY Different DEF IInv, Typed, TypeOK
  <2>2. pc' = [pc EXCEPT ![r] = "over"] /\ requests' = Abandoned(r) /\ store' = store /\ UNCHANGED cluster
    BY DEF Ends, End, Go
  <2>3. of'[r] = of[r] /\ report'[r] = said
    BY <2>1 DEF Ends, End
  <2>4. /\ unsure' = [s \in Runs |-> unsure[s] /\ s # r]
        /\ credited' = [s \in Runs |-> IF s = r /\ pc[s] # "linked" THEN {} ELSE credited[s]]
        /\ failed' = [s \in Runs |-> failed[s] /\ ~(s = r /\ pc[s] # "linked")]
    BY DEF Ends, End
  <2>. QED
    BY <2>1, <2>2, <2>3, <2>4
<1>2. Evaluating(r) /\ r \in Actors
  BY Different DEF IInv
<1>3. /\ \A q \in requests' : q.waiter # r
      /\ \A q \in Creates(r)' : q.waiter = None /\ \E w \in Creates(r) : w.kind = q.kind
      /\ \A q, w \in Creates(r)' : w = q
  BY <1>1, <1>2, AsksNoMore
<1>4. Proceeds(r)
  BY <1>1, <1>3 DEF Proceeds
<1>5. World(r)'
  BY <1>4, Shrinks
<1>6. Placed(r)'
  BY <1>1, <1>2 DEF Evaluating, Placed, Creating
<1>7. Requesting(r)'
  BY <1>1, <1>3 DEF Requesting, Executing, Closing, Cleaning
<1>8. Accounted(r)'
  BY <1>1 DEF Accounted, Closing, Cleaning
<1>9. Counted(r)'
  <2>1. CASE pc[r] # "linked"
    BY <1>1, <2>1 DEF Counted, Creating, Closing, Cleaning
  <2>2. CASE pc[r] = "linked"
    BY <1>1, <1>4, <2>2, CountedBefore DEF Counted, Creating, Closing, Cleaning
  <2>. QED
    BY <2>1, <2>2
<1>10. Concluded(r)'
  <2>1. pc[r] \notin {"idle", "over"} /\ Concluded(r)
    BY <1>2 DEF Ends, Evaluating
  <2>2. Recorded(r)' <=> Recorded(r)
    BY <1>1 DEF Recorded
  <2>3. ASSUME NothingLeft(r) PROVE NothingLeft(r)'
    <3>1. Creates(r) = {}
      BY <2>3 DEF NothingLeft, Creates
    <3>2. Creates(r)' = {}
      BY <1>3, <3>1
    <3>. QED
      BY <1>1, <2>3, <3>2, LeavesTheSame
  <2>4. ASSUME Recorded(r)
        PROVE  /\ pc[r] = "linked" /\ ~failed'[r] /\ NothingLeft(r)'
               /\ \A i \in DOMAIN Cases : Enough(i, credited'[r])
    <3>1. /\ pc[r] = "linked" /\ ~failed[r] /\ NothingLeft(r)
          /\ \A i \in DOMAIN Cases : Enough(i, credited[r])
      BY <2>1, <2>4 DEF Concluded
    <3>. QED
      BY <1>1, <2>3, <3>1
  <2>5. ASSUME said = "clean" PROVE NothingLeft(r)' /\ ~Recorded(r)
    <3>1. CASE pc[r] = "proof"
      BY <2>1, <2>3, <3>1 DEF Concluded
    <3>2. CASE pc[r] = "final" /\ ChildrenGone(r) /\ Certain(r) /\ \A k \in roots[r] : object[of[r]][k] = None
      <4>1. NothingLeft(r)
        BY <3>2, FinalLeavesNothing DEF Certain
      <4>. QED
        BY <2>1, <2>3, <3>2, <4>1 DEF Concluded
    <3>. QED
      BY <2>5, <3>1, <3>2 DEF Ends
  <2>6. said \in {"passed", "uncertain"} => Recorded(r)
    BY <2>1 DEF Ends, Concluded
  <2>7. said = "incomplete" => ~Recorded(r)
    BY <2>1 DEF Ends, Concluded, Cleaning
  <2>8. \A i \in DOMAIN Cases : Enough(i, credited[r])' <=> Enough(i, credited'[r])
    BY DEF Enough
  <2>. QED
    BY <1>1, <2>2, <2>4, <2>5, <2>6, <2>7, <2>8 DEF Concluded
<1>. QED
  BY <1>4, <1>5, <1>6, <1>7, <1>8, <1>9, <1>10 DEF Evaluating

-----------------------------------------------------------------------------
(* The steps of an operator, for itself *)

\* What an operator knows holds while nothing new is expected.
LEMMA OperatingKept ==
  ASSUME IInv, NEW o \in Operators, UNCHANGED cluster, of'[o] = of[o], roots'[o] = roots[o],
         \A r \in Runs, k \in Kinds : Pending(r, k)' => Pending(r, k),
         \/ pc'[o] = pc[o] /\ report'[o] = report[o]
         \/ pc[o] \in Cleaning /\ pc'[o] \in Cleaning /\ report'[o] = report[o]
         \/ /\ pc[o] \in Cleaning /\ pc'[o] = "idle"
            /\ report'[o] = "clean" => Absent(of[o], roots[o])
  PROVE  Operating(o)'
<1>1. Operating(o) /\ roots[o] \subseteq Kinds
  BY Different DEF IInv, Typed, TypeOK
<1>2. "idle" \notin Cleaning
  BY DEF Cleaning
<1>3. Absent(of[o], roots[o]) => Absent(of[o], roots[o])'
  BY DEF Absent, Ours, cluster
<1>. QED
  BY <1>1, <1>2, <1>3 DEF Operating, Absent

\* An operator starts on what is there.
LEMMA DiscoverKeeps ==
  ASSUME IInv, NEW o \in Operators, NEW r \in Runs, Discover(o, r)
  PROVE  Operating(o)' /\ Selecting(o)' /\ Acts(o)
<1>. DEFINE found == {k \in Kinds : Ours(r, k)}
<1>1. /\ pc' = [pc EXCEPT ![o] = "survey"]
      /\ UNCHANGED <<cluster, requests, evidence, execution, reply, faults>>
      /\ of' = [of EXCEPT ![o] = r] /\ roots' = [roots EXCEPT ![o] = found]
      /\ left' = [left EXCEPT ![o] = found]
      /\ report' = [report EXCEPT ![o] = "none"]
  BY DEF Discover, Go
<1>2. /\ o \in Actors /\ o \notin Runs
      /\ pc \in [Actors -> RunSteps] /\ of \in [Actors -> Runs \cup {None}]
      /\ roots \in [Actors -> SUBSET Kinds] /\ left \in [Actors -> SUBSET Kinds]
      /\ report \in [Actors -> {"none", "passed", "uncertain", "clean", "incomplete"}]
      /\ reply \in [Actors -> {"none", "ok", "refused"}]
  BY Different DEF IInv, Typed, TypeOK
<1>. HIDE DEF found
<1>3. /\ pc'[o] = "survey" /\ of'[o] = r /\ roots'[o] = found /\ left'[o] = found /\ report'[o] = "none"
      /\ \A b \in Actors \ {o} : Still(b)
  BY <1>1, <1>2 DEF Still, execution, judged
<1>4. Acts(o)
  <2>1. Asks(o)
    BY <1>1, AsksNothing
  <2>2. \A s \in Runs : Recorded(s)' <=> Recorded(s)
    BY <1>1 DEF Recorded, evidence
  <2>. QED
    BY <1>1, <1>3, <2>1, <2>2 DEF Acts
<1>5. \A k \in found : ~Pending(r, k)'
  <2>1. \A k \in found : k \in Kinds /\ ~Pending(r, k)
    BY DEF found, IInv, Evaluating, World, Unborn
  <2>2. r # o
    BY <1>2
  <2>. QED
    BY <1>2, <1>4, <2>1, <2>2, Apart
<1>6. Operating(o)'
  BY <1>3, <1>5 DEF Operating, Pending
<1>7. Selecting(o)'
  BY <1>3 DEF Selecting
<1>. QED
  BY <1>4, <1>6, <1>7

-----------------------------------------------------------------------------
(* The steps of the actors *)

\* A step of an actor that keeps its own part keeps the whole.
LEMMA ActorKeeps ==
  ASSUME IInv, NEW a \in Actors, Acts(a), Typed', Selecting(a)',
         a \in Runs => Evaluating(a)' /\ Proceeds(a),
         a \in Operators => Operating(a)'
  PROVE  IInv'
<1>1. Conditional'
  BY DEF Acts, Asks
<1>2. \A r \in Runs : Evaluating(r)' /\ \A k \in Kinds : Pending(r, k)' => Pending(r, k)
  BY Apart, Shrinks
<1>3. ASSUME NEW b \in Actors, b # a PROVE Selecting(b)'
  <2>1. Selecting(b)
    BY DEF IInv
  <2>. QED
    BY <1>3, <2>1 DEF Selecting, Acts, Still
<1>4. ASSUME NEW o \in Operators, o # a PROVE Operating(o)'
  <2>1. Still(o) /\ UNCHANGED cluster
    BY <1>4, Different DEF Acts
  <2>. QED
    BY <1>2, <2>1, OperatingKept DEF Still
<1>. QED
  BY <1>1, <1>2, <1>3, <1>4 DEF IInv

\* What every step relies on of the memory's shape.
LEMMA Shapes ==
  ASSUME IInv
  PROVE  /\ pc \in [Actors -> RunSteps] /\ of \in [Actors -> Runs \cup {None}]
         /\ roots \in [Actors -> SUBSET Kinds] /\ left \in [Actors -> SUBSET Kinds]
         /\ report \in [Actors -> {"none", "passed", "uncertain", "clean", "incomplete"}]
         /\ reply \in [Actors -> {"none", "ok", "refused"}]
         /\ cur \in [Runs -> Kinds \cup {None}] /\ unsure \in [Runs -> BOOLEAN]
         /\ credited \in [Runs -> SUBSET Tasks] /\ failed \in [Runs -> BOOLEAN]
BY DEF IInv, Typed, TypeOK

\* The others see a run's placement and execution so.
LEMMA EvaluateActs ==
  ASSUME IInv, NEW r \in Runs,
         \/ Open(r) \/ Refuse(r) \/ Admit(r) \/ SendCreate(r) \/ Created(r) \/ BecomeReady(r)
         \/ Judge(r) \/ Stop(r) \/ Link(r)
  PROVE  Acts(r) /\ Selecting(r)'
<1>1. r \in Actors /\ Selecting(r)
  BY Different DEF IInv
<1>2. UNCHANGED cluster
  BY DEF Open, Refuse, Admit, SendCreate, Created, BecomeReady, Judge, Stop, Link
<1>3. Asks(r)
  <2>1. requests' = requests \/ SendCreate(r) \/ Stop(r)
    BY DEF Open, Refuse, Admit, Created, BecomeReady, Judge, Link
  <2>. QED
    BY <1>2, <2>1, AsksNothing, SendCreateKeeps, StopKeeps
<1>4. \A s \in Runs \ {r} : Recorded(s)' <=> Recorded(s)
  <2>1. store' = store \/ Link(r)
    BY DEF Open, Refuse, Admit, SendCreate, Created, BecomeReady, Judge, Stop, evidence
  <2>2. store' = store => \A s \in Runs : Recorded(s)' <=> Recorded(s)
    BY DEF Recorded
  <2>. QED
    BY <2>1, <2>2, LinkKeeps
<1>5. CASE Open(r) \/ Refuse(r) \/ Link(r)
  <2>1. \E step \in {"admit", "over", "linked"} : pc' = [pc EXCEPT ![r] = step]
    BY <1>5 DEF Open, Refuse, Link, Go
  <2>2. UNCHANGED <<execution, cleanup, reply, report>>
    BY <1>5 DEF Open, Refuse, Link
  <2>3. \A b \in Actors \ {r} : Still(b)
    BY <2>1, <2>2, Shapes DEF Still, execution, judged, cleanup
  <2>4. Selecting(r)'
    BY <1>1, <2>1, <2>2, Shapes DEF Selecting, cleanup
  <2>. QED
    BY <1>2, <1>3, <1>4, <2>3, <2>4 DEF Acts
<1>6. CASE Admit(r) \/ SendCreate(r) \/ Created(r) \/ BecomeReady(r)
  <2>1. \E step \in Creating : pc' = [pc EXCEPT ![r] = step]
    BY <1>6 DEF Admit, SendCreate, Created, BecomeReady, Go, Creating
  <2>2. /\ UNCHANGED <<credited, failed, of, left, report>>
        /\ \E k : cur' = [cur EXCEPT ![r] = k]
        /\ \E S : roots' = [roots EXCEPT ![r] = roots[r] \cup S]
        /\ \E u : unsure' = [unsure EXCEPT ![r] = u]
        /\ \E s : reply' = [reply EXCEPT ![r] = s]
    <3>1. /\ cur = [cur EXCEPT ![r] = cur[r]] /\ roots = [roots EXCEPT ![r] = roots[r] \cup {}]
          /\ unsure = [unsure EXCEPT ![r] = unsure[r]] /\ reply = [reply EXCEPT ![r] = reply[r]]
      BY <1>1, Shapes
    <3>2. CASE Admit(r)
      BY <3>1, <3>2 DEF Admit, cleanup
    <3>3. CASE SendCreate(r)
      BY <3>1, <3>3 DEF SendCreate, Send, cleanup
    <3>4. CASE Created(r)
      BY <3>1, <3>4 DEF Created
    <3>5. CASE BecomeReady(r)
      BY <3>1, <3>5 DEF BecomeReady, cleanup
    <3>. QED
      BY <1>6, <3>2, <3>3, <3>4, <3>5
  <2>3. \A b \in Actors \ {r} : Still(b)
    BY <2>1, <2>2, Shapes DEF Still
  <2>4. Selecting(r)'
    <3>1. pc'[r] \notin {"survey", "delete", "poll"} /\ left'[r] = left[r] /\ roots[r] \subseteq roots'[r]
      BY <1>1, <2>1, <2>2, Shapes DEF Creating
    <3>. QED
      BY <1>1, <3>1 DEF Selecting
  <2>. QED
    BY <1>2, <1>3, <1>4, <2>3, <2>4 DEF Acts
<1>7. CASE Judge(r) \/ Stop(r)
  <2>1. /\ UNCHANGED <<unsure, of, roots, report>>
        /\ \E k : cur' = [cur EXCEPT ![r] = k]
        /\ \E S : credited' = [credited EXCEPT ![r] = S]
        /\ \E f : failed' = [failed EXCEPT ![r] = f]
        /\ \E s : reply' = [reply EXCEPT ![r] = s]
        /\ \/ pc' = [pc EXCEPT ![r] = "survey"] /\ left' = [left EXCEPT ![r] = roots[r]]
           \/ pc' = [pc EXCEPT ![r] = "create"] /\ left' = left
    <3>1. failed = [failed EXCEPT ![r] = failed[r]] /\ reply = [reply EXCEPT ![r] = reply[r]]
      BY <1>1, Shapes
    <3>2. CASE Judge(r)
      BY <3>1, <3>2 DEF Judge, Go
    <3>3. CASE Stop(r)
      BY <3>1, <3>3 DEF Stop, Fail, Go
    <3>. QED
      BY <1>7, <3>2, <3>3
  <2>2. \A b \in Actors \ {r} : Still(b)
    BY <2>1, Shapes DEF Still
  <2>3. Selecting(r)'
    BY <1>1, <2>1, Shapes DEF Selecting
  <2>. QED
    BY <1>2, <1>3, <1>4, <2>2, <2>3 DEF Acts
<1>. QED
  BY <1>5, <1>6, <1>7

\* The others see a cleanup that goes on so.
LEMMA WorkActs ==
  ASSUME IInv, NEW a \in Actors, Works(a)
  PROVE  Acts(a) /\ Selecting(a)' /\ (a \in Operators => Operating(a)')
<1>1. /\ pc[a] \in Cleaning
      /\ \E step \in Cleaning : pc' = [pc EXCEPT ![a] = step]
      /\ UNCHANGED <<cluster, evidence, execution, of, roots, approved, report, faults>>
      /\ \E S \in SUBSET left[a] : left' = [left EXCEPT ![a] = S]
      /\ pc'[a] # "survey" /\ (pc'[a] \in {"delete", "poll"} => left'[a] # {})
      /\ \E s \in {"none", "ok", reply[a]} : reply' = [reply EXCEPT ![a] = s]
  BY WorkSays
<1>2. Acts(a)
  <2>1. \A b \in Actors \ {a} : Still(b)
    BY <1>1, Shapes DEF Still, execution, judged
  <2>2. \A s \in Runs : Recorded(s)' <=> Recorded(s)
    BY <1>1 DEF Recorded, evidence
  <2>. QED
    BY <1>1, <2>1, <2>2, WorkKeeps DEF Acts
<1>3. Selecting(a)'
  <2>1. Selecting(a) /\ left'[a] \subseteq left[a]
    BY <1>1, Shapes DEF IInv
  <2>. QED
    BY <1>1, <2>1 DEF Selecting
<1>4. ASSUME a \in Operators PROVE Operating(a)'
  <2>1. pc'[a] \in Cleaning
    BY <1>1, Shapes
  <2>2. \A r \in Runs, k \in Kinds : Pending(r, k)' => Pending(r, k)
    BY <1>2, <1>4, Apart, Different
  <2>. QED
    BY <1>1, <1>4, <2>1, <2>2, OperatingKept
<1>. QED
  BY <1>2, <1>3, <1>4

\* The others see the end of an actor so.
LEMMA EndActs ==
  ASSUME IInv, NEW a \in Actors, NEW said \in Said, Ends(a, said)
  PROVE  Acts(a) /\ Selecting(a)' /\ (a \in Operators => Operating(a)')
<1>1. /\ pc' = [pc EXCEPT ![a] = IF a \in Runs THEN "over" ELSE "idle"]
      /\ requests' = Abandoned(a) /\ UNCHANGED <<cluster, store>>
      /\ reply' = [reply EXCEPT ![a] = "none"]
      /\ report' = [report EXCEPT ![a] =
           IF a \in Operators /\ said = "incomplete" THEN "none" ELSE said]
      /\ roots' = [roots EXCEPT ![a] = IF said = "clean" THEN roots[a] ELSE {}]
      /\ of' = [of EXCEPT ![a] = IF a \in Runs \/ said = "clean" THEN of[a] ELSE None]
      /\ left' = [left EXCEPT ![a] = {}]
      /\ cur' = [r \in Runs |-> IF r = a THEN None ELSE cur[r]]
      /\ unsure' = [r \in Runs |-> unsure[r] /\ r # a]
      /\ credited' = [s \in Runs |-> IF s = a /\ pc[s] # "linked" THEN {} ELSE credited[s]]
      /\ failed' = [s \in Runs |-> failed[s] /\ ~(s = a /\ pc[s] # "linked")]
  BY DEF Ends, End, Go
<1>2. Acts(a)
  <2>1. ASSUME NEW b \in Actors, b # a PROVE Still(b)
    <3>1. /\ pc'[b] = pc[b] /\ of'[b] = of[b] /\ roots'[b] = roots[b] /\ left'[b] = left[b]
          /\ reply'[b] = reply[b] /\ report'[b] = report[b]
      BY <1>1, <2>1, Shapes
    <3>2. b \in Runs =>
            /\ cur'[b] = cur[b] /\ unsure'[b] = unsure[b]
            /\ credited'[b] = credited[b] /\ failed'[b] = failed[b]
      BY <1>1, <2>1, Shapes
    <3>. QED
      BY <3>1, <3>2 DEF Still
  <2>2. \A s \in Runs : Recorded(s)' <=> Recorded(s)
    BY <1>1 DEF Recorded
  <2>3. Asks(a)
    BY <1>1, AsksNoMore
  <2>. QED
    BY <1>1, <2>1, <2>2, <2>3 DEF Acts
<1>3. Selecting(a)'
  BY <1>1, Shapes DEF Selecting
<1>4. ASSUME a \in Operators PROVE Operating(a)'
  <2>1. a \notin Runs /\ \A r \in Runs : r # a
    BY <1>4, Different
  <2>2. \A r \in Runs, k \in Kinds : Pending(r, k)' => Pending(r, k)
    BY <1>2, <2>1, Apart
  <2>3. pc[a] \in Cleaning
    BY <1>4 DEF Ends, IInv, Typed, TypeOK
  <2>4. pc'[a] = "idle" /\ (report'[a] = "clean" => said = "clean")
    BY <1>1, <2>1, Shapes
  <2>5. CASE said = "clean"
    <3>1. /\ ChildrenGone(a) /\ \A k \in roots[a] : object[of[a]][k] = None
      BY <2>1, <2>5 DEF Ends
    <3>2. Absent(of[a], roots[a])
      BY <3>1 DEF Absent, Ours, ChildrenGone
    <3>3. of'[a] = of[a] /\ roots'[a] = roots[a]
      BY <1>1, <2>5, Shapes
    <3>. QED
      BY <1>1, <1>4, <2>2, <2>3, <2>4, <3>2, <3>3, OperatingKept
  <2>6. CASE said # "clean"
    BY <2>4, <2>6 DEF Operating, Cleaning
  <2>. QED
    BY <2>5, <2>6
<1>. QED
  BY <1>2, <1>3, <1>4

\* The others see a run going on to its record so.
LEMMA ProveActs ==
  ASSUME IInv, NEW r \in Actors, Proves(r)
  PROVE  Acts(r) /\ Selecting(r)'
<1>1. /\ pc' = [pc EXCEPT ![r] = "proof"]
      /\ UNCHANGED <<cluster, requests, evidence, reply, report, execution, cleanup, faults>>
  BY ProveSays DEF Go
<1>2. \A b \in Actors \ {r} : Still(b)
  BY <1>1, Shapes DEF Still, execution, judged, cleanup
<1>3. \A s \in Runs : Recorded(s)' <=> Recorded(s)
  BY <1>1 DEF Recorded, evidence
<1>4. Selecting(r)'
  BY <1>1, Shapes DEF IInv, Selecting, cleanup
<1>. QED
  BY <1>1, <1>2, <1>3, <1>4, ProveKeeps DEF Acts

\* Every step of an actor keeps the invariant.
LEMMA ActorsKeep ==
  ASSUME IInv, NEW a \in Actors,
         \/ a \in Runs /\ Run(a)
         \/ a \in Operators /\ (Cleanup(a) \/ \E r \in Runs : Discover(a, r))
         \/ Die(a)
  PROVE  IInv' /\ UNCHANGED cluster
<1>1. \/ a \in Runs /\ (\/ Open(a) \/ Refuse(a) \/ Admit(a) \/ SendCreate(a) \/ Created(a)
                        \/ BecomeReady(a) \/ Judge(a) \/ Stop(a) \/ Link(a))
      \/ Works(a)
      \/ Proves(a)
      \/ \/ Die(a) \/ RefuseCleanup(a) \/ (a \in Runs /\ (Withhold(a) \/ Pass(a)))
         \/ Clean(a) /\ ~Go(a, "proof")
      \/ a \in Operators /\ \E r \in Runs : Discover(a, r)
  BY DEF Run, Cleanup, Works, Proves
<1>2. CASE a \in Runs /\ (\/ Open(a) \/ Refuse(a) \/ Admit(a) \/ SendCreate(a) \/ Created(a)
                          \/ BecomeReady(a) \/ Judge(a) \/ Stop(a) \/ Link(a))
  <2>1. Evaluating(a)' /\ Proceeds(a)
    BY <1>2, OpenKeeps, AdmitKeeps, SendCreateKeeps, CreatedKeeps, BecomeReadyKeeps, JudgeKeeps,
       StopKeeps, LinkKeeps
  <2>2. Acts(a) /\ Selecting(a)' /\ Typed' /\ a \notin Operators
    BY <1>2, EvaluateActs, EvaluateTyped, Different
  <2>. QED
    BY <2>1, <2>2, ActorKeeps DEF Acts
<1>3. CASE Works(a)
  BY <1>3, WorkActs, WorkKeeps, WorkTyped, ActorKeeps DEF Acts
<1>4. CASE Proves(a)
  <2>1. a \in Runs /\ a \notin Operators
    BY <1>4, ProveSays, Different
  <2>. QED
    BY <1>4, <2>1, ProveActs, ProveKeeps, ProveTyped, ActorKeeps DEF Acts
<1>5. CASE \/ Die(a) \/ RefuseCleanup(a) \/ (a \in Runs /\ (Withhold(a) \/ Pass(a)))
           \/ Clean(a) /\ ~Go(a, "proof")
  <2>1. PICK said \in Said : Ends(a, said)
    BY <1>5, EndSays
  <2>2. Typed'
    BY <2>1, EndTyped DEF IInv, Ends
  <2>3. a \in Runs => Evaluating(a)' /\ Proceeds(a)
    BY <2>1, EndKeeps
  <2>. QED
    BY <2>1, <2>2, <2>3, EndActs, ActorKeeps DEF Acts
<1>6. CASE a \in Operators /\ \E r \in Runs : Discover(a, r)
  BY <1>6, DiscoverKeeps, DiscoverTyped, ActorKeeps, Different DEF Acts
<1>. QED
  BY <1>1, <1>2, <1>3, <1>4, <1>5, <1>6

-----------------------------------------------------------------------------
(* The steps of the cluster *)

\* What a step of the cluster leaves to every actor.
LEMMA LeavesMemories ==
  ASSUME Happens
  PROVE  /\ UNCHANGED <<lock, store, pc, cur, unsure, credited, failed>>
         /\ UNCHANGED <<of, roots, approved, known, left, report>>
         /\ \A r : Creates(r)' \subseteq Creates(r)
         /\ \A r \in Runs, k \in Kinds : Pending(r, k)' => Pending(r, k)
<1>1. /\ UNCHANGED <<lock, store, pc, cur, unsure, credited, failed>>
      /\ UNCHANGED <<of, roots, approved, known, left, report>>
  BY DEF Happens, evidence, execution, judged, cleanup
<1>2. \A r : Creates(r)' \subseteq Creates(r)
  BY DEF Happens, Fewer, Creates
<1>3. \A r \in Runs, k \in Kinds : Pending(r, k)' => Pending(r, k)
  BY <1>1, <1>2 DEF Pending, Pos
<1>. QED
  BY <1>1, <1>2, <1>3

\* What is pending for one kind is pending for those after it.
LEMMA PendingUpward ==
  ASSUME IInv, NEW r \in Runs, NEW k \in Kinds, NEW l \in Kinds, Pos(k) <= Pos(l), Pending(r, k)
  PROVE  Pending(r, l)
<1>1. Pos(k) \in Nat /\ Pos(l) \in Nat
  BY Positions
<1>2. pc[r] \in Creating => Pos(cur[r]) \in Nat
  BY Current
<1>3. \A q \in Creates(r) : Pos(q.kind) \in Nat
  <2>1. \A q \in Creates(r) : q.kind \in Kinds
    BY DEF IInv, Typed, TypeOK, Requests, Creates
  <2>. QED
    BY <2>1, Positions
<1>. QED
  BY <1>1, <1>2, <1>3 DEF Pending, Creating

\* What is born was pending, and is no longer.
LEMMA BornOnce ==
  ASSUME IInv, Happens, NEW r \in Runs, NEW k \in Kinds, Born(r, k)
  PROVE  Pending(r, k) /\ ~Pending(r, k)'
<1>1. PICK q \in requests \ requests' : q.verb = "create" /\ q.run = r /\ q.kind = k
  BY DEF Born
<1>2. q \in Creates(r) /\ Pos(k) \in Nat
  BY <1>1, Positions DEF Creates
<1>3. Pending(r, k)
  BY <1>1, <1>2 DEF Pending
<1>4. Creates(r)' = {}
  <2>1. Creates(r)' \subseteq Creates(r)
    BY LeavesMemories
  <2>2. \A w \in Creates(r) : w = q
    BY <1>2 DEF IInv, Evaluating, Requesting
  <2>3. q \notin Creates(r)'
    BY <1>1 DEF Creates
  <2>. QED
    BY <2>1, <2>2, <2>3
<1>5. pc[r] \in Executing \cup {"idle"} => pc[r] = "creating" /\ cur[r] = k
  BY <1>1, <1>2 DEF IInv, Evaluating, Requesting
<1>6. ~Pending(r, k)'
  <2>1. pc' = pc /\ cur' = cur
    BY LeavesMemories
  <2>2. ~(Pos(k) < Pos(k))
    BY <1>2
  <2>. QED
    BY <1>4, <1>5, <2>1, <2>2 DEF Pending, Executing, Pos
<1>. QED
  BY <1>3, <1>6

\* What is absent and does not come into being stays absent.
LEMMA StaysAbsent ==
  ASSUME IInv, Happens, NEW r \in Runs, NEW k \in Kinds, ~Born(r, k), Absent(r, {k})
  PROVE  Absent(r, {k})'
<1>1. ~Ours(r, k) /\ k \notin jobs[r] \cup pods[r]
  BY DEF Absent
<1>2. ~Ours(r, k)'
  BY <1>1 DEF Happens, Comes
<1>3. k \notin jobs'[r] \cup pods'[r]
  <2>1. jobs'[r] \subseteq Tasks /\ pods'[r] \subseteq Tasks
    BY DEF Happens, Things
  <2>2. k \in Tasks => k \notin jobs'[r] /\ k \notin pods'[r]
    BY <1>1 DEF Happens, Children
  <2>. QED
    BY <2>1, <2>2
<1>. QED
  BY <1>2, <1>3 DEF Absent

\* A step of the cluster, for the world of a run.
LEMMA WorldHappens ==
  ASSUME IInv, Happens, NEW r \in Runs
  PROVE  World(r)'
<1>1. World(r)
  BY DEF IInv, Evaluating
<1>2. ASSUME NEW k \in Kinds, Pending(r, k)' PROVE Unborn(r, k)'
  <2>1. Unborn(r, k) /\ ~Born(r, k)
    BY <1>1, <1>2, LeavesMemories, BornOnce DEF World
  <2>2. Absent(r, {k})'
    BY <2>1, StaysAbsent DEF Unborn, Absent
  <2>3. ASSUME k \in Tasks PROVE answer'[r][k] = "none"
    BY <2>1, <2>3 DEF Unborn, Happens, Answered
  <2>. QED
    BY <2>2, <2>3 DEF Unborn, Absent
<1>3. ASSUME NEW t \in Tasks, answer'[r][t] = "spoiled", (PairIntact(r) /\ Intact(r, t))'
      PROVE  FALSE
  <2>1. t \in Kinds /\ {"Provider", "Agent"} \subseteq Kinds
        /\ Pos("Provider") <= Pos(t) /\ Pos("Agent") <= Pos(t) /\ Pos(t) <= Pos(t)
    BY Positions
  <2>2. CASE object' = object /\ ~(PairIntact(r) /\ Intact(r, t))
    BY <1>3, <2>2 DEF PairIntact, Intact, Ours
  <2>3. CASE answer[r][t] = "spoiled"
    <3>1. ~(PairIntact(r) /\ Intact(r, t))
      BY <1>1, <2>3 DEF World
    <3>2. PICK k \in {"Provider", "Agent", t} : ~Intact(r, k) /\ Intact(r, k)'
      BY <1>3, <3>1 DEF PairIntact
    <3>3. k \in Kinds /\ Pos(k) <= Pos(t)
      BY <2>1
    <3>4. Born(r, k)
      BY <3>2, <3>3 DEF Happens, Comes
    <3>5. Pending(r, t)
      BY <2>1, <3>3, <3>4, BornOnce, PendingUpward
    <3>6. Unborn(r, t)
      BY <1>1, <2>1, <3>5 DEF World
    <3>. QED
      BY <2>3, <3>6 DEF Unborn
  <2>4. \/ answer'[r][t] = answer[r][t]
        \/ answer'[r][t] = "none"
        \/ object' = object /\ ~(PairIntact(r) /\ Intact(r, t))
    BY <1>3 DEF Happens, Answered
  <2>. QED
    BY <1>3, <2>2, <2>3, <2>4
<1>. QED
  BY <1>2, <1>3 DEF World

\* A step of the cluster, for what is on its way.
LEMMA RequestsHappen ==
  ASSUME IInv, Happens, NEW r \in Runs
  PROVE  Requesting(r)'
<1>1. Requesting(r) /\ r \in Actors
  BY Different DEF IInv, Evaluating
<1>2. UNCHANGED <<pc, cur, unsure>> /\ Creates(r)' \subseteq Creates(r)
  BY LeavesMemories
<1>3. ASSUME NEW q \in Creates(r)', pc[r] = "creating" PROVE reply'[r] = "none"
  <2>1. q \in Creates(r) /\ reply[r] = "none"
    BY <1>1, <1>2, <1>3 DEF Requesting, Executing
  <2>2. ASSUME NEW w \in requests \ requests', w.waiter = r PROVE FALSE
    <3>1. w \in Requests
      BY DEF IInv, Typed, TypeOK
    <3>2. CASE w.verb = "delete"
      BY <1>1, <1>3, <2>2, <3>2 DEF Requesting, Executing
    <3>3. CASE w.verb = "create"
      <4>1. w.run \in Runs /\ w \in Creates(w.run)
        BY <3>1, <3>3 DEF Requests, Creates
      <4>2. w.waiter \in {w.run, None}
        BY <4>1 DEF IInv, Evaluating, Requesting
      <4>3. w.run = r
        BY <1>1, <2>2, <4>2, Different
      <4>4. w = q
        BY <1>1, <2>1, <4>1, <4>3 DEF Requesting
      <4>. QED
        BY <1>3, <4>4 DEF Creates
    <3>. QED
      BY <3>1, <3>2, <3>3 DEF Requests
  <2>3. reply'[r] = reply[r]
    BY <1>1, <2>2 DEF Happens, Told
  <2>. QED
    BY <2>1, <2>3
<1>4. ASSUME NEW q \in requests', q.verb = "delete", q.waiter = r
      PROVE  pc[r] \notin Executing \cup {"idle"}
  <2>1. \E w \in requests : w.verb = "delete" /\ w.waiter = r
    BY <1>4 DEF Happens, Fewer
  <2>. QED
    BY <1>1, <2>1 DEF Requesting
<1>. QED
  BY <1>1, <1>2, <1>3, <1>4 DEF Requesting

\* A step of the cluster, for what a run knows, counts and says.
LEMMA KnowledgeHappens ==
  ASSUME IInv, Happens, NEW r \in Runs
  PROVE  Placed(r)' /\ Accounted(r)' /\ Counted(r)' /\ Concluded(r)'
<1>1. Evaluating(r)
  BY DEF IInv
<1>2. /\ UNCHANGED <<store, pc, cur, unsure, credited, failed, of, roots, report>>
      /\ Creates(r)' \subseteq Creates(r)
      /\ \A k \in Kinds : Pending(r, k)' => Pending(r, k)
  BY LeavesMemories
<1>3. \A k : Born(r, k) => Creates(r) # {}
  BY DEF Born, Creates
<1>4. Placed(r)'
  BY <1>1, <1>2 DEF Evaluating, Placed, Pos
<1>5. Accounted(r)'
  <2>. SUFFICES ASSUME pc[r] \in Closing, ~unsure[r], NEW k \in Kinds \ roots[r]
                PROVE  Absent(r, {k})'
    BY <1>2 DEF Accounted
  <2>1. Absent(r, {k}) /\ ~Born(r, k)
    BY <1>1, <1>3, NothingAsked DEF Evaluating, Accounted
  <2>. QED
    BY <2>1, StaysAbsent
<1>6. ASSUME NEW t \in credited'[r]
      PROVE  /\ ~Pending(r, t)'
             /\ (answer[r][t] = "good" \/ (answer[r][t] = "none" /\ ~Ours(r, t)))'
  <2>1. t \in credited[r] /\ t \in Tasks /\ t \in Kinds
    BY <1>2, Positions DEF IInv, Typed, TypeOK
  <2>2. ~Pending(r, t) /\ (answer[r][t] = "good" \/ (answer[r][t] = "none" /\ ~Ours(r, t)))
    BY <1>1, <2>1 DEF Evaluating, Counted
  <2>3. ~Born(r, t)
    BY <2>1, <2>2, BornOnce
  <2>4. ~Ours(r, t) => ~Ours(r, t)'
    BY <2>1, <2>3 DEF Happens, Comes
  <2>5. \/ answer'[r][t] = answer[r][t]
        \/ answer'[r][t] = "none" /\ ~Ours(r, t)'
        \/ Ours(r, t) /\ answer[r][t] = "none"
    BY <2>1 DEF Happens, Answered
  <2>. QED
    BY <1>2, <2>1, <2>2, <2>4, <2>5
<1>7. Counted(r)'
  <2>1. Counted(r)
    BY <1>1 DEF Evaluating
  <2>. QED
    BY <1>2, <1>6, <2>1 DEF Counted, Enough, Pos
<1>8. NothingLeft(r) => NothingLeft(r)'
  <2>. SUFFICES ASSUME NothingLeft(r) PROVE NothingLeft(r)'
    OBVIOUS
  <2>1. Creates(r) = {} /\ Creates(r)' = {}
    BY <1>2 DEF NothingLeft, Creates
  <2>2. ASSUME NEW k \in Kinds PROVE Absent(r, {k})'
    <3>1. Absent(r, {k}) /\ ~Born(r, k)
      BY <1>3, <2>1 DEF NothingLeft, Absent
    <3>. QED
      BY <3>1, StaysAbsent
  <2>. QED
    BY <2>1, <2>2 DEF NothingLeft, Creates, Absent
<1>9. Concluded(r)'
  <2>1. Concluded(r) /\ (Recorded(r)' <=> Recorded(r))
    BY <1>1, <1>2 DEF Evaluating, Recorded
  <2>. QED
    BY <1>2, <1>8, <2>1 DEF Concluded, Enough
<1>. QED
  BY <1>4, <1>5, <1>7, <1>9

\* Every step of the cluster keeps the invariant.
LEMMA ClusterKeeps ==
  ASSUME IInv, Happens, Typed'
  PROVE  IInv'
<1>1. \A r \in Runs : Evaluating(r)'
  BY WorldHappens, RequestsHappen, KnowledgeHappens DEF Evaluating
<1>2. UNCHANGED <<pc, of, roots, left, report>>
  BY LeavesMemories
<1>3. \A a \in Actors : Selecting(a)'
  BY <1>2 DEF IInv, Selecting
<1>4. Conditional'
  BY DEF IInv, Conditional, Happens, Fewer, Ours
<1>5. ASSUME NEW o \in Operators PROVE Operating(o)'
  <2>1. Operating(o) /\ roots[o] \subseteq Kinds
    BY Different DEF IInv, Typed, TypeOK
  <2>2. ASSUME pc[o] \in Cleaning \/ report[o] = "clean"
        PROVE  of[o] \in Runs /\ \A k \in roots[o] : ~Pending(of[o], k) /\ ~Pending(of[o], k)'
    BY <2>1, <2>2, LeavesMemories DEF Operating
  <2>3. ASSUME report[o] = "clean" PROVE Absent(of[o], roots[o])'
    <3>1. PICK r \in Runs : of[o] = r
      BY <2>2, <2>3
    <3>2. ASSUME NEW k \in roots[o] PROVE Absent(r, {k})'
      <4>1. k \in Kinds /\ ~Pending(r, k) /\ Absent(r, {k})
        BY <2>1, <2>2, <2>3, <3>1 DEF Operating, Absent
      <4>2. ~Born(r, k)
        BY <4>1, BornOnce
      <4>. QED
        BY <4>1, <4>2, StaysAbsent
    <3>. QED
      BY <1>2, <3>1, <3>2 DEF Absent
  <2>. QED
    BY <1>2, <2>1, <2>2, <2>3 DEF Operating
<1>. QED
  BY <1>1, <1>3, <1>4, <1>5 DEF IInv

-----------------------------------------------------------------------------
(* The theorems *)

\* The invariant holds at first.
LEMMA Begins ==
  ASSUME Init
  PROVE  IInv
<1>1. /\ object = [r \in Runs |-> [k \in Kinds |-> None]]
      /\ answer = [r \in Runs |-> [t \in Tasks |-> "none"]]
      /\ jobs = [r \in Runs |-> {}] /\ pods = [r \in Runs |-> {}] /\ requests = {}
      /\ pc = [a \in Actors |-> "idle"] /\ report = [a \in Actors |-> "none"]
      /\ of = [a \in Actors |-> IF a \in Runs THEN a ELSE None]
      /\ left = [a \in Actors |-> {}] /\ credited = [r \in Runs |-> {}] /\ unsure = [r \in Runs |-> FALSE]
  BY DEF Init
<1>2. Places
  <2>1. PICK n \in 0 .. MaxRecords : store = [i \in 1 .. n |-> Earlier]
    BY DEF Init
  <2>2. store \in Seq(Runs \cup {Earlier}) /\ Len(store) = n
    BY <2>1, BoundsAssumption
  <2>3. Len(store) <= MaxRecords
    BY <2>2, BoundsAssumption
  <2>. QED
    BY <1>1, <2>2, <2>3, Different DEF Init, Places, RunSteps, OperatorSteps, Locking, Executing, Cleaning
<1>3. Memories
  <2>1. of \in [Actors -> Runs \cup {None}]
    BY <1>1, Different
  <2>2. approved \in [Actors -> [Kinds -> 0 .. MaxFaults]]
    BY BoundsAssumption DEF Init
  <2>. QED
    BY <2>1, <2>2 DEF Init, Memories
<1>4. Replies
  BY DEF Init, Replies
<1>5. Things
  BY <1>1, BoundsAssumption DEF Init, Things
<1>6. Typed
  BY <1>1, <1>2, <1>3, <1>4, <1>5, Types
<1>7. \A r \in Runs, k \in Kinds : ~Ours(r, k)
  BY <1>1 DEF Ours
<1>8. ASSUME NEW r \in Runs PROVE Evaluating(r)
  <2>1. r \in Actors /\ pc[r] = "idle" /\ report[r] = "none" /\ of[r] = r
        /\ credited[r] = {} /\ ~unsure[r]
    BY <1>1, Different
  <2>2. ~Recorded(r)
    <3>1. \E n \in 0 .. MaxRecords : store = [i \in 1 .. n |-> Earlier]
      BY DEF Init
    <3>. QED
      BY <2>1, <3>1, Different DEF Recorded, Range
  <2>3. Placed(r)
    BY <2>1 DEF Placed, Creating
  <2>4. Requesting(r)
    BY <1>1 DEF Requesting, Creates
  <2>5. World(r)
    BY <1>1, <1>7, Positions DEF World, Unborn
  <2>6. Accounted(r) /\ Counted(r)
    BY <2>1 DEF Accounted, Counted, Creating, Closing, Cleaning
  <2>7. Concluded(r)
    BY <2>1, <2>2 DEF Concluded
  <2>. QED
    BY <2>3, <2>4, <2>5, <2>6, <2>7 DEF Evaluating
<1>9. \A a \in Actors : Selecting(a)
  BY <1>1 DEF Selecting
<1>10. \A o \in Operators : Operating(o)
  BY <1>1, Different DEF Operating, Cleaning
<1>. QED
  BY <1>1, <1>6, <1>8, <1>9, <1>10 DEF IInv, Conditional

\* Every step keeps the invariant, and is one of an actor, or of the cluster.
LEMMA Steps ==
  ASSUME IInv, [Next]_vars
  PROVE  IInv' /\ (UNCHANGED cluster \/ Happens)
<1>1. CASE \/ \E r \in Runs : Run(r)
           \/ \E o \in Operators : Cleanup(o) \/ \E r \in Runs : Discover(o, r)
           \/ \E a \in Actors : Die(a)
  <2>1. \E a \in Actors :
          \/ a \in Runs /\ Run(a)
          \/ a \in Operators /\ (Cleanup(a) \/ \E r \in Runs : Discover(a, r))
          \/ Die(a)
    BY <1>1, Different
  <2>. QED
    BY <2>1, ActorsKeep
<1>2. CASE ClusterStep
  BY <1>2, ClusterSays, ClusterKeeps
<1>3. CASE UNCHANGED vars
  <2>1. UNCHANGED cluster
    BY <1>3 DEF vars, cluster
  <2>2. Typed' /\ (requests \subseteq Requests)' /\ Things' /\ Replies'
    <3>1. Typed'
      BY <1>3 DEF vars, IInv, Typed, TypeOK
    <3>. QED
      BY <3>1, TypesAfter
  <2>3. Happens
    BY <1>3, <2>2 DEF vars, Happens, Comes, Answered, Children, Fewer, Told, Ours, Intact,
       evidence, execution, judged, cleanup
  <2>. QED
    BY <2>1, <2>2, <2>3, ClusterKeeps
<1>. QED
  BY <1>1, <1>2, <1>3 DEF Next, ClusterStep

(***************************************************************************)
(* What relates the memories of the runs and operators, the requests and the  *)
(* objects of the cluster, and the store, whoever dies and interferes.       *)
(***************************************************************************)
THEOREM Inductive == Spec => []IInv
<1>1. Init => IInv
  BY Begins
<1>2. IInv /\ [Next]_vars => IInv'
  BY Steps
<1>. QED
  BY <1>1, <1>2, PTL DEF Spec

\* A run in progress holds the store's lock and has room for its record.
THEOREM TypeCorrect == Spec => []TypeOK
<1>1. IInv => TypeOK
  BY DEF IInv, Typed
<1>. QED
  BY <1>1, Inductive, PTL

(***************************************************************************)
(* The answer that counts as a pass was given by the pair and the Task of the *)
(* run as they were acknowledged, and a record in the store is of a run that   *)
(* did not fail, has the passes of every case, and left nothing.             *)
(***************************************************************************)
THEOREM PassesAreAttributed == Spec => []PassIsAttributed
<1>1. IInv => PassIsAttributed
  BY DEF IInv, Evaluating, Counted, Concluded, PassIsAttributed
<1>. QED
  BY <1>1, Inductive, PTL

(***************************************************************************)
(* A run that reports a complete cleanup has no object, child or CREATE left  *)
(* or under way, an operator neither roots nor children of the selection, and *)
(* no run reports of its record what the store does not hold.               *)
(***************************************************************************)
THEOREM ProofsMeanClean == Spec => []ProofMeansClean
<1>1. IInv => ProofMeansClean
  BY DEF IInv, Evaluating, Concluded, Operating, ProofMeansClean
<1>. QED
  BY <1>1, Inductive, PTL

(***************************************************************************)
(* A DELETE takes effect only on an object of the run it was sent for, with   *)
(* the spec that was acknowledged or approved, however late it arrives.      *)
(***************************************************************************)
THEOREM DeletesItsOwn == Spec => CleanupDeletesItsOwn
<1>. DEFINE Own ==
       \A q \in requests :
         (q \notin requests' /\ q.verb = "delete" /\ object'[q.run][q.kind] # object[q.run][q.kind])
           => Ours(q.run, q.kind) /\ object[q.run][q.kind].edits = q.approved
<1>1. IInv /\ [Next]_vars => [Own]_vars
  <2>. SUFFICES ASSUME IInv, [Next]_vars PROVE Own
    OBVIOUS
  <2>1. CASE UNCHANGED cluster
    BY <2>1 DEF cluster
  <2>2. CASE Happens
    BY <2>2 DEF IInv, Conditional, Happens, Fewer
  <2>. QED
    BY <2>1, <2>2, Steps
<1>. QED
  BY <1>1, Inductive, PTL DEF Spec, CleanupDeletesItsOwn
===============================================================================
