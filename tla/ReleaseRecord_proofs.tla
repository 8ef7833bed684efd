------------------------ MODULE ReleaseRecord_proofs ------------------------
(***************************************************************************)
(* What the transformations of the release record return, for every record. *)
(***************************************************************************)
EXTENDS ReleaseRecord, FunctionTheorems, FiniteSetTheorems, SequenceTheorems, WellFoundedInduction, TLAPS

-----------------------------------------------------------------------------
(* Retention *)

\* A history with completed revisions has an oldest one.
LEMMA OldestCompleted ==
  ASSUME NEW h \in Seq(Revisions), Completed(h) # {}
  PROVE  \E i \in Completed(h) : \A j \in Completed(h) : i <= j
<1>1. Completed(h) \subseteq Nat
  BY DEF Completed
<1>2. PICK i \in Completed(h) : \A j \in Completed(h) : <<j, i>> \notin OpToRel(<, Nat)
  BY <1>1, NatLessThanWellFounded, WFMin, Zenon
<1>3. ASSUME NEW j \in Completed(h), j < i
      PROVE  <<j, i>> \in OpToRel(<, Nat)
  BY <1>1, <1>3, Zenon DEF OpToRel
<1>4. \A j \in Completed(h) : ~(j < i)
  BY <1>2, <1>3, Zenon
<1>. QED
  BY <1>1, <1>4

\* releaseStateBytes either keeps the history or removes one completed revision.
LEMMA RollRemovesOneCompleted ==
  ASSUME NEW h \in Seq(Revisions), Roll(h) # h
  PROVE  \E i \in Completed(h) :
           /\ Roll(h) = SubSeq(h, 1, i - 1) \o SubSeq(h, i + 1, Len(h))
           /\ \A j \in Completed(h) : i <= j
<1>1. Cardinality(Completed(h)) > MaxCompleted
  BY DEF Roll
<1>2. Completed(h) # {}
  <2>1. Cardinality({}) = 0
    BY FS_EmptySet
  <2>2. ~(0 > MaxCompleted)
    BY BoundsAssumption
  <2>. QED
    BY <1>1, <2>1, <2>2
<1>. DEFINE oldest == CHOOSE i \in Completed(h) : \A j \in Completed(h) : i <= j
<1>3. oldest \in Completed(h) /\ \A j \in Completed(h) : oldest <= j
  BY <1>2, OldestCompleted
<1>4. Roll(h) = SubSeq(h, 1, oldest - 1) \o SubSeq(h, oldest + 1, Len(h))
  BY <1>1 DEF Roll
<1>. QED
  BY <1>3, <1>4

\* What removing the i-th element of a sequence leaves.
LEMMA RemoveProperties ==
  ASSUME NEW S, NEW h \in Seq(S), NEW i \in 1..Len(h)
  PROVE  LET r == SubSeq(h, 1, i - 1) \o SubSeq(h, i + 1, Len(h))
         IN  /\ r \in Seq(S)
             /\ Len(r) = Len(h) - 1
             /\ \A j \in 1..Len(r) : r[j] = IF j < i THEN h[j] ELSE h[j + 1]
<1>. DEFINE p == SubSeq(h, 1, i - 1)
            q == SubSeq(h, i + 1, Len(h))
<1>0. Len(h) \in Nat /\ \A j \in 1..Len(h) : h[j] \in S
  BY LenProperties, ElementOfSeq
<1>1. /\ p \in Seq(S) /\ Len(p) = i - 1
      /\ \A j \in 1..(i - 1) : p[j] = h[j]
  BY <1>0, SubSeqProperties
<1>2. /\ q \in Seq(S) /\ Len(q) = Len(h) - i
      /\ \A j \in 1..(Len(h) - i) : q[j] = h[i + j]
  BY <1>0, SubSeqProperties
<1>. HIDE DEF p, q
<1>3. /\ p \o q \in Seq(S)
      /\ Len(p \o q) = Len(h) - 1
      /\ \A j \in 1..Len(p \o q) : (p \o q)[j] = IF j < i THEN h[j] ELSE h[j + 1]
  <2>1. /\ p \o q \in Seq(S)
        /\ Len(p \o q) = Len(p) + Len(q)
        /\ \A j \in 1..Len(p) + Len(q) :
             (p \o q)[j] = IF j <= Len(p) THEN p[j] ELSE q[j - Len(p)]
    BY <1>1, <1>2, ConcatProperties
  <2>2. Len(p) = i - 1 /\ Len(q) = Len(h) - i
    BY <1>1, <1>2
  <2>3. ASSUME NEW j \in 1..Len(h) - 1
        PROVE  (p \o q)[j] = IF j < i THEN h[j] ELSE h[j + 1]
    <3>1. CASE j < i
      BY <1>0, <1>1, <2>1, <2>2, <3>1
    <3>2. CASE ~(j < i)
      <4>1. (p \o q)[j] = q[j - (i - 1)]
        BY <1>0, <2>1, <2>2, <3>2
      <4>2. j - (i - 1) \in 1..(Len(h) - i)
        BY <1>0, <3>2
      <4>. QED
        BY <1>0, <1>2, <3>2, <4>1, <4>2
    <3>. QED
      BY <3>1, <3>2
  <2>4. Len(p \o q) = Len(h) - 1
    BY <1>0, <2>1, <2>2
  <2>5. \A j \in 1..Len(p \o q) : (p \o q)[j] = IF j < i THEN h[j] ELSE h[j + 1]
    BY <2>3, <2>4
  <2>. QED
    BY <2>1, <2>4, <2>5
<1>. QED
  BY <1>3 DEF p, q

\* Retention yields a history again.
LEMMA RollType ==
  ASSUME NEW h \in Seq(Revisions)
  PROVE  Roll(h) \in Seq(Revisions)
<1>1. CASE Roll(h) = h
  BY <1>1
<1>2. CASE Roll(h) # h
  <2>1. PICK i \in Completed(h) :
          Roll(h) = SubSeq(h, 1, i - 1) \o SubSeq(h, i + 1, Len(h))
    BY <1>2, RollRemovesOneCompleted
  <2>2. i \in 1..Len(h)
    BY <2>1 DEF Completed
  <2>. QED
    BY <2>1, <2>2, RemoveProperties
<1>. QED
  BY <1>1, <1>2

\* Partial proof stays in the history, at whatever index it is.
LEMMA RollKeepsPartials ==
  ASSUME NEW h \in Seq(Revisions), NEW i \in DOMAIN h, h[i].state = "partial"
  PROVE  \E j \in DOMAIN Roll(h) : Roll(h)[j] = h[i]
<1>1. CASE Roll(h) = h
  BY <1>1
<1>2. CASE Roll(h) # h
  <2>1. PICK o \in Completed(h) :
          Roll(h) = SubSeq(h, 1, o - 1) \o SubSeq(h, o + 1, Len(h))
    BY <1>2, RollRemovesOneCompleted
  <2>2. o \in 1..Len(h) /\ h[o].state = "completed" /\ i \in 1..Len(h) /\ Len(h) \in Nat
    BY <2>1, LenProperties DEF Completed
  <2>3. i # o
    BY <2>2
  <2>. DEFINE r == SubSeq(h, 1, o - 1) \o SubSeq(h, o + 1, Len(h))
  <2>4. /\ r \in Seq(Revisions) /\ Len(r) = Len(h) - 1
        /\ \A j \in 1..Len(r) : r[j] = IF j < o THEN h[j] ELSE h[j + 1]
    BY <2>2, RemoveProperties
  <2>. HIDE DEF r
  <2>5. DOMAIN r = 1..Len(r)
    BY <2>4, LenProperties
  <2>6. CASE i < o
    <3>1. i \in 1..Len(r) /\ r[i] = h[i]
      BY <2>2, <2>4, <2>6
    <3>. QED
      BY <2>1, <2>5, <3>1 DEF r
  <2>7. CASE i > o
    <3>1. i - 1 \in 1..Len(r) /\ r[i - 1] = h[i]
      BY <2>2, <2>4, <2>7
    <3>. QED
      BY <2>1, <2>5, <3>1 DEF r
  <2>. QED
    BY <2>2, <2>3, <2>6, <2>7
<1>. QED
  BY <1>1, <1>2

\* A history never becomes empty by retention.
LEMMA RollNotEmpty ==
  ASSUME NEW h \in Seq(Revisions), h # << >>
  PROVE  Roll(h) # << >>
<1>1. CASE Roll(h) = h
  BY <1>1
<1>2. CASE Roll(h) # h
  <2>1. PICK i \in Completed(h) :
          Roll(h) = SubSeq(h, 1, i - 1) \o SubSeq(h, i + 1, Len(h))
    BY <1>2, RollRemovesOneCompleted
  <2>2. i \in 1..Len(h) /\ Len(h) \in Nat
    BY <2>1, LenProperties DEF Completed
  <2>3. Len(Roll(h)) = Len(h) - 1
    BY <2>1, <2>2, RemoveProperties
  <2>4. Cardinality(Completed(h)) > MaxCompleted
    BY <1>2 DEF Roll
  <2>5. Completed(h) # {1}
    <3>1. Cardinality({1}) = 1
      BY FS_Singleton
    <3>2. Completed(h) = {1} => Cardinality(Completed(h)) = 1
      BY <3>1, Zenon
    <3>. QED
      BY <2>4, <3>2, BoundsAssumption
  <2>6. Completed(h) \subseteq 1..Len(h)
    BY LenProperties DEF Completed
  <2>7. Len(h) # 1
    <3>1. Len(h) = 1 => \A j \in Completed(h) : j = 1
      BY <2>6
    <3>2. Len(h) = 1 => Completed(h) = {1}
      BY <2>1, <3>1, Zenon
    <3>. QED
      BY <2>5, <3>2
  <2>8. Len(Roll(h)) # 0
    BY <2>2, <2>3, <2>7
  <2>. QED
    BY <2>8, EmptySeq
<1>. QED
  BY <1>1, <1>2

-----------------------------------------------------------------------------
(* What a history remembers *)

\* The completed revisions of a history can be counted.
LEMMA CompletedCount ==
  ASSUME NEW h \in Seq(Revisions)
  PROVE  /\ Completed(h) \subseteq 1..Len(h) /\ IsFiniteSet(Completed(h))
         /\ Cardinality(Completed(h)) \in Nat
         /\ Len(h) \in Nat /\ DOMAIN h = 1..Len(h)
<1>1. Len(h) \in Nat /\ DOMAIN h = 1..Len(h)
  BY LenProperties
<1>2. Completed(h) \subseteq 1..Len(h)
  BY <1>1 DEF Completed
<1>3. IsFiniteSet(1..Len(h))
  BY <1>1, FS_Interval
<1>. QED
  BY <1>1, <1>2, <1>3, FS_Subset, FS_CardinalityType

\* Retention does nothing until there are too many completed revisions, and then
\* removes exactly one, the oldest of them: releaseStateBytes keeps every partial
\* revision and every younger completed one, in their order, whatever the order in
\* which updates ended.
THEOREM RollDropsOldestCompleted ==
  ASSUME NEW h \in Seq(Revisions)
  PROVE  /\ \A i \in DOMAIN h :
              h[i].state = "partial" => \E j \in DOMAIN Roll(h) : Roll(h)[j] = h[i]
         /\ \/ Cardinality(Completed(h)) <= MaxCompleted /\ Roll(h) = h
            \/ /\ Cardinality(Completed(h)) > MaxCompleted
               /\ \E o \in Completed(h) :
                    /\ \A j \in Completed(h) : o <= j
                    /\ Len(Roll(h)) = Len(h) - 1
                    /\ \A j \in 1..Len(Roll(h)) : Roll(h)[j] = IF j < o THEN h[j] ELSE h[j + 1]
<1>1. \A i \in DOMAIN h :
        h[i].state = "partial" => \E j \in DOMAIN Roll(h) : Roll(h)[j] = h[i]
  BY RollKeepsPartials
<1>2. Cardinality(Completed(h)) \in Nat /\ MaxCompleted \in Nat
  BY CompletedCount, FS_CardinalityType, BoundsAssumption
<1>3. CASE Cardinality(Completed(h)) <= MaxCompleted
  <2>1. ~(Cardinality(Completed(h)) > MaxCompleted)
    BY <1>2, <1>3
  <2>2. Roll(h) = h
    BY <2>1 DEF Roll
  <2>. QED
    BY <1>1, <1>3, <2>2
<1>4. CASE Cardinality(Completed(h)) > MaxCompleted
  <2>. DEFINE oldest == CHOOSE i \in Completed(h) : \A j \in Completed(h) : i <= j
  <2>1. Completed(h) # {}
    <3>1. Cardinality({}) = 0
      BY FS_EmptySet
    <3>2. Completed(h) = {} => Cardinality(Completed(h)) = 0
      BY <3>1, Zenon
    <3>. QED
      BY <1>2, <1>4, <3>2
  <2>2. oldest \in Completed(h) /\ \A j \in Completed(h) : oldest <= j
    BY <2>1, OldestCompleted
  <2>3. Roll(h) = SubSeq(h, 1, oldest - 1) \o SubSeq(h, oldest + 1, Len(h))
    BY <1>4 DEF Roll, oldest
  <2>. HIDE DEF oldest
  <2>4. oldest \in 1..Len(h)
    BY <2>2, LenProperties DEF Completed
  <2>5. /\ Len(Roll(h)) = Len(h) - 1
        /\ \A j \in 1..Len(Roll(h)) : Roll(h)[j] = IF j < oldest THEN h[j] ELSE h[j + 1]
    BY <2>3, <2>4, RemoveProperties
  <2>6. \E o \in Completed(h) :
          /\ \A j \in Completed(h) : o <= j
          /\ Len(Roll(h)) = Len(h) - 1
          /\ \A j \in 1..Len(Roll(h)) : Roll(h)[j] = IF j < o THEN h[j] ELSE h[j + 1]
    BY <2>2, <2>5
  <2>. QED
    BY <1>1, <1>4, <2>6
<1>. QED
  BY <1>2, <1>3, <1>4

\* One more revision counts exactly if it completed.
LEMMA AppendCount ==
  ASSUME NEW h \in Seq(Revisions), NEW t \in Revisions
  PROVE  /\ Append(h, t) \in Seq(Revisions) /\ Len(Append(h, t)) = Len(h) + 1
         /\ \A i \in 1..Len(h) : Append(h, t)[i] = h[i]
         /\ Append(h, t)[Len(h) + 1] = t
         /\ t.state # "completed" => Completed(Append(h, t)) = Completed(h)
         /\ t.state = "completed" =>
              /\ Completed(Append(h, t)) = Completed(h) \cup {Len(h) + 1}
              /\ Cardinality(Completed(Append(h, t))) = Cardinality(Completed(h)) + 1
<1>. DEFINE g == Append(h, t)
            n == Len(h) + 1
<1>1. /\ g \in Seq(Revisions) /\ Len(g) = n /\ g[n] = t
      /\ \A i \in 1..Len(h) : g[i] = h[i]
  BY AppendProperties
<1>2. DOMAIN g = 1..n /\ Len(h) \in Nat /\ DOMAIN h = 1..Len(h) /\ Completed(h) \subseteq 1..Len(h)
  BY <1>1, CompletedCount
<1>. HIDE DEF g
<1>3. \A i \in 1..n : i = n \/ i \in 1..Len(h)
  BY <1>2
<1>4. 1..Len(h) \subseteq 1..n /\ n \in 1..n /\ n \notin 1..Len(h)
  BY <1>2
<1>5. t.state # "completed" => Completed(g) = Completed(h)
  BY <1>1, <1>2, <1>3, <1>4 DEF Completed
<1>6. t.state = "completed" => Completed(g) = Completed(h) \cup {n}
  BY <1>1, <1>2, <1>3, <1>4 DEF Completed
<1>7. Cardinality(Completed(h) \cup {n}) = Cardinality(Completed(h)) + 1
  BY <1>2, <1>4, CompletedCount, FS_AddElement
<1>. QED
  BY <1>1, <1>5, <1>6, <1>7 DEF g

\* Retention removes one of the completed revisions it counts.
LEMMA RemoveCount ==
  ASSUME NEW h \in Seq(Revisions), NEW i \in Completed(h)
  PROVE  Cardinality(Completed(SubSeq(h, 1, i - 1) \o SubSeq(h, i + 1, Len(h))))
           = Cardinality(Completed(h)) - 1
<1>. DEFINE r == SubSeq(h, 1, i - 1) \o SubSeq(h, i + 1, Len(h))
            S == Completed(h) \ {i}
            F == [j \in S |-> IF j < i THEN j ELSE j - 1]
<1>1. i \in 1..Len(h) /\ Len(h) \in Nat /\ DOMAIN h = 1..Len(h) /\ Completed(h) \subseteq 1..Len(h)
  BY CompletedCount
<1>2. /\ r \in Seq(Revisions) /\ Len(r) = Len(h) - 1
      /\ \A j \in 1..Len(r) : r[j] = IF j < i THEN h[j] ELSE h[j + 1]
  BY <1>1, RemoveProperties
<1>. HIDE DEF r
<1>3. DOMAIN r = 1..(Len(h) - 1)
  BY <1>2, LenProperties
<1>4. \A j \in 1..Len(h) : j \in Completed(h) <=> h[j].state = "completed"
  BY <1>1 DEF Completed
<1>5. \A j : j \in Completed(r) <=> j \in 1..(Len(h) - 1) /\ r[j].state = "completed"
  BY <1>3 DEF Completed
<1>6. ASSUME NEW j \in S PROVE F[j] \in Completed(r)
  <2>1. j \in 1..Len(h) /\ j # i /\ h[j].state = "completed"
    BY <1>1, <1>4
  <2>2. CASE j < i
    BY <1>1, <1>2, <1>5, <2>1, <2>2
  <2>3. CASE ~(j < i)
    <3>1. j - 1 \in 1..(Len(h) - 1) /\ ~(j - 1 < i) /\ (j - 1) + 1 = j
      BY <1>1, <2>1, <2>3
    <3>2. r[j - 1] = h[j]
      BY <1>2, <3>1
    <3>. QED
      BY <1>5, <2>1, <2>3, <3>1, <3>2
  <2>. QED
    BY <2>2, <2>3
<1>7. F \in [S -> Completed(r)]
  BY <1>6
<1>8. \A j, k \in S : F[j] = F[k] => j = k
  <2>1. \A j \in S : j \in Int /\ i \in Int /\ j # i
    BY <1>1
  <2>. QED
    BY <2>1
<1>9. ASSUME NEW j \in Completed(r) PROVE \E k \in S : F[k] = j
  <2>1. j \in 1..(Len(h) - 1) /\ r[j].state = "completed"
    BY <1>5
  <2>2. CASE j < i
    <3>1. j \in S
      BY <1>1, <1>2, <1>4, <2>1, <2>2
    <3>. QED
      BY <2>2, <3>1
  <2>3. CASE ~(j < i)
    <3>1. j + 1 \in 1..Len(h) /\ j + 1 # i /\ ~(j + 1 < i) /\ (j + 1) - 1 = j
      BY <1>1, <2>1, <2>3
    <3>2. h[j + 1].state = "completed"
      BY <1>2, <2>1, <2>3
    <3>3. j + 1 \in S
      BY <1>4, <3>1, <3>2
    <3>. QED
      BY <3>1, <3>3
  <2>. QED
    BY <2>2, <2>3
<1>. HIDE DEF F
<1>10. ExistsBijection(S, Completed(r))
  BY <1>7, <1>8, <1>9, Fun_IsBij DEF ExistsBijection
<1>11. IsFiniteSet(S) /\ Cardinality(S) = Cardinality(Completed(h)) - 1
  BY CompletedCount, FS_RemoveElement
<1>. HIDE DEF S
<1>12. Cardinality(Completed(r)) = Cardinality(S)
  BY <1>10, <1>11, FS_Bijection
<1>. QED
  BY <1>11, <1>12 DEF r

\* A new revision is the last one, retention keeps to its limit, and it drops a
\* completed revision only while the limit is reached.
LEMMA RollAppended ==
  ASSUME NEW h \in Seq(Revisions), NEW t \in Revisions,
         Cardinality(Completed(h)) <= MaxCompleted
  PROVE  /\ Roll(Append(h, t))[Len(Roll(Append(h, t)))] = t
         /\ Len(Roll(Append(h, t))) \in DOMAIN Roll(Append(h, t))
         /\ Cardinality(Completed(Roll(Append(h, t)))) <= MaxCompleted
         /\ Cardinality(Completed(h)) = MaxCompleted =>
              Cardinality(Completed(Roll(Append(h, t)))) = MaxCompleted
         /\ \A i \in DOMAIN h :
              \/ \E j \in DOMAIN Roll(Append(h, t)) : Roll(Append(h, t))[j] = h[i]
              \/ /\ h[i].state = "completed"
                 /\ Cardinality(Completed(Roll(Append(h, t)))) = MaxCompleted
<1>. DEFINE g == Append(h, t)
            n == Len(h) + 1
<1>1. /\ g \in Seq(Revisions) /\ Len(g) = n /\ g[n] = t
      /\ \A i \in 1..Len(h) : g[i] = h[i]
      /\ t.state # "completed" => Completed(g) = Completed(h)
      /\ t.state = "completed" =>
           /\ Completed(g) = Completed(h) \cup {n}
           /\ Cardinality(Completed(g)) = Cardinality(Completed(h)) + 1
  BY AppendCount
<1>2. /\ Len(h) \in Nat /\ DOMAIN h = 1..Len(h) /\ DOMAIN g = 1..n
      /\ Cardinality(Completed(h)) \in Nat /\ MaxCompleted \in Nat \ {0}
      /\ Completed(g) \subseteq 1..n
  BY <1>1, CompletedCount, BoundsAssumption
<1>. HIDE DEF g
<1>3. CASE Cardinality(Completed(g)) <= MaxCompleted
  <2>1. Roll(g) = g
    BY <1>1, <1>2, <1>3 DEF Roll
  <2>2. Cardinality(Completed(h)) = MaxCompleted => Cardinality(Completed(g)) = MaxCompleted
    BY <1>1, <1>2, <1>3
  <2>3. \A i \in DOMAIN h : i \in DOMAIN g /\ g[i] = h[i]
    BY <1>1, <1>2
  <2>4. n \in DOMAIN g
    BY <1>2
  <2>. QED
    BY <1>1, <1>3, <2>1, <2>2, <2>3, <2>4 DEF g
<1>4. CASE ~(Cardinality(Completed(g)) <= MaxCompleted)
  <2>1. /\ t.state = "completed" /\ Cardinality(Completed(h)) = MaxCompleted
        /\ Cardinality(Completed(g)) = MaxCompleted + 1
    BY <1>1, <1>2, <1>4
  <2>. DEFINE o == CHOOSE i \in Completed(g) : \A j \in Completed(g) : i <= j
              r == SubSeq(g, 1, o - 1) \o SubSeq(g, o + 1, Len(g))
  <2>2. Roll(g) = r
    <3>1. Cardinality(Completed(g)) > MaxCompleted
      BY <1>2, <2>1
    <3>. QED
      BY <3>1, Zenon DEF Roll
  <2>3. Completed(g) # {}
    BY <1>1, <2>1
  <2>4. o \in Completed(g) /\ \A j \in Completed(g) : o <= j
    BY <1>1, <2>3, OldestCompleted
  <2>. HIDE DEF o
  <2>5. Cardinality(Completed(r)) = MaxCompleted
    BY <1>1, <1>2, <2>1, <2>4, RemoveCount
  <2>6. o # n
    <3>1. Completed(h) # {}
      BY <1>2, <2>1, FS_EmptySet
    <3>2. PICK j \in Completed(h) : TRUE
      BY <3>1
    <3>3. j \in 1..Len(h) /\ j \in Completed(g)
      BY <1>1, <2>1, <3>2, CompletedCount
    <3>4. o <= j
      BY <2>4, <3>3
    <3>. QED
      BY <1>2, <3>3, <3>4
  <2>7. o \in 1..Len(h) /\ o \in 1..Len(g)
    BY <1>1, <1>2, <2>4, <2>6
  <2>8. /\ r \in Seq(Revisions) /\ Len(r) = Len(h)
        /\ \A j \in 1..Len(h) : r[j] = IF j < o THEN g[j] ELSE g[j + 1]
    <3>1. Len(r) = Len(g) - 1 /\ r \in Seq(Revisions)
      BY <1>1, <2>7, RemoveProperties
    <3>2. Len(r) = Len(h)
      BY <1>1, <1>2, <3>1
    <3>. QED
      BY <1>1, <2>7, <3>1, <3>2, RemoveProperties
  <2>. HIDE DEF r
  <2>9. DOMAIN r = 1..Len(h)
    BY <2>8, LenProperties
  <2>10. Len(h) \in 1..Len(h) /\ r[Len(h)] = t
    BY <1>1, <1>2, <2>7, <2>8
  <2>11. ASSUME NEW i \in DOMAIN h
         PROVE  (\E j \in DOMAIN r : r[j] = h[i]) \/ h[i].state = "completed"
    <3>1. CASE i < o
      BY <1>1, <1>2, <2>8, <2>9, <3>1
    <3>2. CASE i = o
      <4>1. g[o].state = "completed" /\ g[o] = h[o]
        BY <1>1, <2>4, <2>7 DEF Completed
      <4>. QED
        BY <3>2, <4>1
    <3>3. CASE i > o
      <4>1. i - 1 \in 1..Len(h) /\ ~(i - 1 < o) /\ (i - 1) + 1 = i
        BY <1>2, <2>7, <3>3
      <4>2. r[i - 1] = h[i]
        BY <1>1, <1>2, <2>8, <4>1
      <4>. QED
        BY <2>9, <4>1, <4>2
    <3>. QED
      BY <1>2, <2>7, <3>1, <3>2, <3>3
  <2>12. \A i \in DOMAIN h : (\E j \in DOMAIN r : r[j] = h[i])
                            \/ (h[i].state = "completed" /\ Cardinality(Completed(r)) = MaxCompleted)
    BY <2>5, <2>11
  <2>13. r[Len(r)] = t /\ Len(r) \in DOMAIN r /\ Cardinality(Completed(r)) <= MaxCompleted
    BY <1>2, <2>5, <2>8, <2>9, <2>10
  <2>. QED
    BY <2>2, <2>5, <2>12, <2>13 DEF g
<1>. QED
  BY <1>3, <1>4

-----------------------------------------------------------------------------
(* The states an attempt writes *)

\* A first deploy's record is reserved by it.
LEMMA IntentType ==
  ASSUME NEW a \in Attempts
  PROVE  /\ releaseCreateIntent(a) \in ReleaseStates
         /\ releaseCreateIntent(a).op = a
         /\ releaseCreateIntent(a).pending # None
<1>1. Intended(a) \in Pairs
  BY PackageAssumption DEF Intended, Pairs, Fingerprints, Authors
<1>2. Pending(a, None) \in Revisions
  BY <1>1 DEF Pending, Revisions
<1>. QED
  BY <1>2, NoneAssumption DEF releaseCreateIntent, ReleaseStates

\* An update's reservation names it and keeps the rest.
LEMMA ReservationType ==
  ASSUME NEW a \in Attempts, NEW s \in ReleaseStates
  PROVE  /\ Reservation(s, a) \in ReleaseStates
         /\ Reservation(s, a).op = a
         /\ Reservation(s, a).pending # None
<1>1. Intended(a) \in Pairs
  BY PackageAssumption DEF Intended, Pairs, Fingerprints, Authors
<1>2. Pending(a, s.baseline) \in Revisions
  BY <1>1 DEF Pending, Revisions, ReleaseStates
<1>. QED
  BY <1>2, NoneAssumption DEF Reservation, ReleaseStates

\* Crediting an acknowledged object keeps the reservation.
LEMMA CreditType ==
  ASSUME NEW s \in ReleaseStates, s.pending # None,
         NEW k \in Kinds, NEW fp \in Fingerprints
  PROVE  /\ Credit(s, k, fp) \in ReleaseStates
         /\ Credit(s, k, fp).op = s.op
         /\ Credit(s, k, fp).pending # None
<1>1. s.pending \in Revisions
  BY DEF ReleaseStates
<1>. DEFINE pending == [s.pending EXCEPT !.objects[k] = fp]
<1>2. pending \in Revisions
  BY <1>1 DEF Revisions, Pairs
<1>3. Credit(s, k, fp) = [s EXCEPT !.pending = pending]
  BY DEF Credit, ReleaseStates
<1>. HIDE DEF pending
<1>. QED
  BY <1>2, <1>3, NoneAssumption DEF ReleaseStates

\* A terminal revision frees the record and is never lost at once.
LEMMA TerminalType ==
  ASSUME NEW s \in ReleaseStates, s.pending # None,
         NEW objects \in Pairs, NEW outcome \in {"completed", "partial"}
  PROVE  /\ Terminal(s, objects, outcome) \in ReleaseStates
         /\ Terminal(s, objects, outcome).op = None
         /\ Terminal(s, objects, outcome).history # << >>
<1>. DEFINE terminal == [s.pending EXCEPT !.objects = objects, !.state = outcome]
            next == [s EXCEPT !.op = None, !.pending = None, !.baseline = objects,
                              !.history = Append(@, terminal)]
<1>1. s.pending \in Revisions /\ s.history \in Seq(Revisions)
  BY DEF ReleaseStates
<1>2. terminal \in Revisions
  BY <1>1 DEF Revisions
<1>3. Append(s.history, terminal) \in Seq(Revisions) /\ Append(s.history, terminal) # << >>
  BY <1>1, <1>2, AppendProperties
<1>4. /\ next \in ReleaseStates /\ next.op = None
      /\ next.history = Append(s.history, terminal)
  <2>. HIDE DEF terminal
  <2>. QED
    BY <1>3 DEF ReleaseStates
<1>5. Terminal(s, objects, outcome) = [next EXCEPT !.history = Roll(next.history)]
  BY DEF Terminal, releaseStateBytes
<1>6. Roll(next.history) \in Seq(Revisions) /\ Roll(next.history) # << >>
  <2>. HIDE DEF next, terminal
  <2>. QED
    BY <1>3, <1>4, RollType, RollNotEmpty
<1>. HIDE DEF next
<1>. QED
  BY <1>4, <1>5, <1>6 DEF ReleaseStates

\* A reservation keeps everything that the record said, and an intent says nothing yet.
LEMMA ReservationSays ==
  ASSUME NEW a \in Attempts, NEW s \in ReleaseStates
  PROVE  /\ releaseCreateIntent(a).origin = a /\ releaseCreateIntent(a).baseline = None
         /\ releaseCreateIntent(a).history = << >>
         /\ releaseCreateIntent(a).pending.before = None
         /\ Reservation(s, a).origin = s.origin /\ Reservation(s, a).baseline = s.baseline
         /\ Reservation(s, a).history = s.history
         /\ Reservation(s, a).pending.before = s.baseline
<1>. DEFINE pending == Pending(a, s.baseline)
<1>1. pending.before = s.baseline
  BY DEF Pending
<1>2. Reservation(s, a) = [s EXCEPT !.op = a, !.pending = pending]
  BY DEF Reservation
<1>. HIDE DEF pending
<1>. QED
  BY <1>1, <1>2 DEF releaseCreateIntent, Pending, ReleaseStates

\* A credit changes one pending object.
LEMMA CreditSays ==
  ASSUME NEW s \in ReleaseStates, s.pending # None, NEW k \in Kinds, NEW fp \in Fingerprints
  PROVE  /\ Credit(s, k, fp).origin = s.origin /\ Credit(s, k, fp).baseline = s.baseline
         /\ Credit(s, k, fp).history = s.history
         /\ Credit(s, k, fp).pending.before = s.pending.before
         /\ Credit(s, k, fp).pending.lift = s.pending.lift
         /\ Credit(s, k, fp).pending.state = s.pending.state
         /\ Credit(s, k, fp).pending.objects = [s.pending.objects EXCEPT ![k] = fp]
<1>. DEFINE objects == [s.pending.objects EXCEPT ![k] = fp]
            pending == [s.pending EXCEPT !.objects = objects]
<1>1. s.pending \in Revisions
  BY DEF ReleaseStates
<1>2. Credit(s, k, fp) = [s EXCEPT !.pending = pending]
  BY DEF Credit
<1>3. /\ pending.before = s.pending.before /\ pending.objects = objects
      /\ pending.lift = s.pending.lift /\ pending.state = s.pending.state
  BY <1>1 DEF Revisions
<1>. HIDE DEF pending
<1>. QED
  BY <1>2, <1>3 DEF ReleaseStates

\* A terminal form adds the pending revision to the history, with its outcome.
LEMMA TerminalSays ==
  ASSUME NEW s \in ReleaseStates, s.pending # None,
         NEW objects \in Pairs, NEW outcome \in {"completed", "partial"}
  PROVE  /\ Terminal(s, objects, outcome).origin = s.origin
         /\ Terminal(s, objects, outcome).baseline = objects
         /\ Terminal(s, objects, outcome).pending = None
         /\ \E t \in Revisions :
              /\ t.lift = s.pending.lift /\ t.before = s.pending.before
              /\ t.objects = objects /\ t.state = outcome
              /\ Terminal(s, objects, outcome).history = Roll(Append(s.history, t))
<1>. DEFINE terminal == [s.pending EXCEPT !.objects = objects, !.state = outcome]
            next == [s EXCEPT !.op = None, !.pending = None, !.baseline = objects,
                              !.history = Append(@, terminal)]
<1>1. s.pending \in Revisions
  BY DEF ReleaseStates
<1>2. /\ terminal \in Revisions /\ terminal.lift = s.pending.lift
      /\ terminal.before = s.pending.before /\ terminal.objects = objects /\ terminal.state = outcome
  BY <1>1 DEF Revisions
<1>3. /\ next.origin = s.origin /\ next.baseline = objects /\ next.pending = None
      /\ next.history = Append(s.history, terminal)
      /\ DOMAIN next = {"origin", "op", "baseline", "pending", "history"}
  <2>. HIDE DEF terminal
  <2>. QED
    BY DEF ReleaseStates
<1>4. Terminal(s, objects, outcome) = [next EXCEPT !.history = Roll(next.history)]
  BY DEF Terminal, releaseStateBytes
<1>. HIDE DEF next, terminal
<1>5. /\ Terminal(s, objects, outcome).origin = s.origin
      /\ Terminal(s, objects, outcome).baseline = objects
      /\ Terminal(s, objects, outcome).pending = None
      /\ Terminal(s, objects, outcome).history = Roll(Append(s.history, terminal))
  BY <1>3, <1>4
<1>. QED
  BY <1>2, <1>5

-----------------------------------------------------------------------------
(* The size of a record *)

\* What the revisions of a history take, retained or not.
HistorySize(h) == FoldLeft(LAMBDA size, r : size + RevisionSize(r), 0, h)

\* One step of the fold over the revisions whose positions are in s.
Folded(h, f, s) == IF s = {} THEN 0 ELSE f[s \ {Max(s)}] + RevisionSize(h[Max(s)])

\* The position after one that is not the last.
LEMMA NextPosition ==
  ASSUME NEW n \in Nat, NEW i \in 0..n, i # n
  PROVE  i + 1 \in 1..n /\ (i + 1) - 1 = i /\ i + 1 \in 0..n
OBVIOUS

\* Induction up to n: a set with 0 that is closed under the successor holds 0..n.
LEMMA UpTo ==
  ASSUME NEW n \in Nat, NEW S, 0 \in S, \A i \in 0..n : i \in S /\ i # n => i + 1 \in S
  PROVE  \A i \in 0..n : i \in S
<1>. DEFINE T == {i \in 0..n : i \notin S}
<1>. SUFFICES ASSUME T # {} PROVE FALSE
  OBVIOUS
<1>1. T \subseteq Nat
  OBVIOUS
<1>2. PICK i \in T : \A j \in T : <<j, i>> \notin OpToRel(<, Nat)
  BY <1>1, NatLessThanWellFounded, WFMin, Zenon
<1>3. ASSUME NEW j \in T, j < i
      PROVE  FALSE
  BY <1>1, <1>2, <1>3, Zenon DEF OpToRel
<1>4. i \in 0..n /\ i \notin S /\ i # 0
  BY <1>2
<1>5. i - 1 \in 0..n /\ i - 1 < i /\ i - 1 # n /\ (i - 1) + 1 = i
  BY <1>4
<1>6. i - 1 \in S
  <2>1. i - 1 \notin S => i - 1 \in T
    BY <1>5
  <2>. QED
    BY <1>3, <1>5, <2>1
<1>. QED
  BY <1>4, <1>5, <1>6

\* The largest of some positions.
LEMMA Largest ==
  ASSUME NEW n \in Nat, NEW s \in SUBSET (1..n)
  PROVE  /\ s # {} => Max(s) \in s /\ \A i \in s : Max(s) >= i
         /\ n \in s => Max(s) = n
<1>1. ASSUME n \in s PROVE Max(s) = n
  <2>1. \A i \in s : n >= i
    OBVIOUS
  <2>2. \A x \in s : (\A i \in s : x >= i) => x = n
    BY <1>1
  <2>3. Max(s) \in s /\ \A i \in s : Max(s) >= i
    BY <1>1, <2>1 DEF Max
  <2>. QED
    BY <2>2, <2>3
<1>2. ASSUME s # {} PROVE \E x \in s : \A i \in s : x >= i
  <2>. DEFINE T == {n - i : i \in s}
  <2>1. T \subseteq Nat /\ T # {}
    <3>1. \A i \in s : n - i \in Nat
      OBVIOUS
    <3>2. T \subseteq Nat
      BY <3>1
    <3>3. PICK i \in s : TRUE
      BY <1>2
    <3>4. n - i \in T
      BY <3>3
    <3>. QED
      BY <3>2, <3>4
  <2>2. PICK i \in T : \A j \in T : <<j, i>> \notin OpToRel(<, Nat)
    BY <2>1, NatLessThanWellFounded, WFMin, Zenon
  <2>3. \A j \in T : ~(j < i)
    BY <2>1, <2>2, Zenon DEF OpToRel
  <2>4. PICK x \in s : i = n - x
    BY <2>2
  <2>5. ASSUME NEW y \in s PROVE x >= y
    <3>1. n - y \in T
      OBVIOUS
    <3>2. ~(n - y < n - x)
      BY <2>3, <2>4, <3>1
    <3>. QED
      BY <3>2
  <2>. QED
    BY <2>5
<1>3. s # {} => Max(s) \in s /\ \A i \in s : Max(s) >= i
  BY <1>2 DEF Max
<1>. QED
  BY <1>1, <1>3

\* The recursion behind the fold has a solution.
LEMMA FoldExists ==
  ASSUME NEW h \in Seq(Revisions)
  PROVE  \E f : f = [s \in SUBSET DOMAIN h |-> Folded(h, f, s)]
<1>1. Len(h) \in Nat /\ DOMAIN h = 1..Len(h) /\ 0 \in 0..Len(h)
  BY LenProperties
<1>0. \A n \in 0..Len(h) : n # Len(h) => n + 1 \in 0..Len(h)
  BY <1>1, NextPosition
<1>. DEFINE P(n) == \E f : f = [s \in SUBSET (1..n) |-> Folded(h, f, s)]
            S == {n \in 0..Len(h) : P(n)}
<1>2. 0 \in S
  <2>. DEFINE f == [s \in SUBSET (1..0) |-> 0]
  <2>1. \A s \in SUBSET (1..0) : s = {}
    OBVIOUS
  <2>2. f = [s \in SUBSET (1..0) |-> Folded(h, f, s)]
    BY <2>1 DEF Folded
  <2>. HIDE DEF f
  <2>3. P(0)
    BY <2>2
  <2>. HIDE DEF P
  <2>. QED
    BY <1>1, <2>3
<1>3. ASSUME NEW n \in 0..Len(h), n \in S, n # Len(h)
      PROVE  n + 1 \in S
  <2>1. PICK f : f = [s \in SUBSET (1..n) |-> Folded(h, f, s)]
    BY <1>3
  <2>. DEFINE D == SUBSET (1..(n + 1))
              g == [s \in D |-> IF n + 1 \in s THEN f[s \ {n + 1}] + RevisionSize(h[n + 1]) ELSE f[s]]
  <2>2. ASSUME NEW s \in D
        PROVE  g[s] = Folded(h, g, s)
    <3>1. CASE n + 1 \in s
      <4>1. Max(s) = n + 1
        BY <1>1, <3>1, Largest
      <4>2. s \ {n + 1} \in D /\ n + 1 \notin s \ {n + 1}
        OBVIOUS
      <4>3. g[s \ {n + 1}] = f[s \ {n + 1}]
        BY <4>2
      <4>. HIDE DEF g
      <4>4. g[s] = f[s \ {n + 1}] + RevisionSize(h[n + 1])
        BY <3>1 DEF g
      <4>. QED
        BY <3>1, <4>1, <4>3, <4>4 DEF Folded
    <3>2. CASE n + 1 \notin s
      <4>1. s \in SUBSET (1..n)
        BY <1>1, <3>2
      <4>2. g[s] = Folded(h, f, s)
        <5>1. f[s] = Folded(h, f, s)
          BY <2>1, <4>1
        <5>. QED
          BY <3>2, <5>1
      <4>3. s # {} => g[s \ {Max(s)}] = f[s \ {Max(s)}]
        <5>1. s \ {Max(s)} \in D /\ n + 1 \notin s \ {Max(s)}
          BY <3>2
        <5>. QED
          BY <5>1
      <4>. HIDE DEF g
      <4>. QED
        BY <4>2, <4>3 DEF Folded
    <3>. QED
      BY <3>1, <3>2
  <2>3. g = [s \in D |-> Folded(h, g, s)]
    <3>1. g = [s \in D |-> g[s]]
      OBVIOUS
    <3>2. [s \in D |-> g[s]] = [s \in D |-> Folded(h, g, s)]
      <4>. HIDE DEF g
      <4>. QED
        BY <2>2
    <3>. QED
      BY <3>1, <3>2
  <2>4. n + 1 \in 0..Len(h)
    BY <1>0, <1>3
  <2>. HIDE DEF g
  <2>5. P(n + 1)
    BY <2>3
  <2>. HIDE DEF P
  <2>. QED
    BY <2>4, <2>5
<1>4. Len(h) \in S
  <2>. HIDE DEF S
  <2>1. Len(h) \in 0..Len(h)
    BY <1>1
  <2>. QED
    BY <1>1, <1>2, <1>3, <2>1, UpTo
<1>. QED
  BY <1>1, <1>4

\* A pair takes twice as much once it has been acknowledged.
LEMMA PairSizes ==
  ASSUME NEW pair \in Pairs \cup {None}
  PROVE  /\ PairSize(pair) \in 0..4
         /\ pair \in Pairs /\ Acknowledged(pair) => PairSize(pair) = 4
         /\ pair = None => PairSize(pair) = 0
         /\ Cardinality(Kinds) = 2
<1>1. IsFiniteSet(Kinds) /\ Cardinality(Kinds) = 2
  <2>1. Kinds = {"Provider"} \cup {"Agent"} /\ "Agent" \notin {"Provider"}
    BY DEF Kinds
  <2>2. IsFiniteSet({"Provider"}) /\ Cardinality({"Provider"}) = 1
    BY FS_Singleton
  <2>3. /\ IsFiniteSet({"Provider"} \cup {"Agent"})
        /\ Cardinality({"Provider"} \cup {"Agent"}) = Cardinality({"Provider"}) + 1
    BY <2>1, <2>2, FS_AddElement
  <2>. QED
    BY <2>1, <2>2, <2>3
<1>2. CASE pair = None
  BY <1>1, <1>2, NoneAssumption DEF PairSize
<1>3. CASE pair # None
  <2>. DEFINE T == {k \in Kinds : pair[k].uid # None}
  <2>1. T \subseteq Kinds
    OBVIOUS
  <2>2. Cardinality(T) \in Nat /\ Cardinality(T) <= 2
    BY <1>1, <2>1, FS_Subset, FS_CardinalityType
  <2>3. Acknowledged(pair) => T = Kinds
    BY DEF Acknowledged
  <2>4. PairSize(pair) = 2 + Cardinality(T)
    BY <1>1, <1>3 DEF PairSize
  <2>. HIDE DEF T
  <2>. QED
    BY <1>1, <1>3, <2>2, <2>3, <2>4
<1>. QED
  BY <1>2, <1>3

LEMMA RevisionSizes ==
  ASSUME NEW r \in Revisions \cup {None}
  PROVE  RevisionSize(r) \in Nat
<1>1. CASE r = None
  BY <1>1 DEF RevisionSize
<1>2. CASE r # None
  <2>1. r.before \in Pairs \cup {None} /\ r.objects \in Pairs
    BY <1>2 DEF Revisions
  <2>2. PairSize(r.before) \in Nat /\ PairSize(r.objects) \in Nat
    BY <2>1, PairSizes
  <2>. QED
    BY <1>2, <2>2 DEF RevisionSize
<1>. QED
  BY <1>1, <1>2

\* The size of a history is the last of its partial sums.
LEMMA HistorySums ==
  ASSUME NEW h \in Seq(Revisions)
  PROVE  \E g \in [0..Len(h) -> Nat] :
           /\ g[0] = 0
           /\ \A n \in 1..Len(h) : g[n] = g[n - 1] + RevisionSize(h[n])
           /\ HistorySize(h) = g[Len(h)]
<1>1. Len(h) \in Nat /\ DOMAIN h = 1..Len(h) /\ \A i \in 1..Len(h) : h[i] \in Revisions
  BY LenProperties, ElementOfSeq
<1>a. ASSUME NEW n \in 1..Len(h)
      PROVE  1..n \in SUBSET (1..Len(h)) /\ n \in 1..n /\ (1..n) \ {n} = 1..(n - 1)
  BY <1>1
<1>b. \A n \in 0..Len(h) :
        n # Len(h) => n + 1 \in 1..Len(h) /\ (n + 1) - 1 = n /\ n + 1 \in 0..Len(h)
  BY <1>1, NextPosition
<1>. DEFINE f == CHOOSE f : f = [s \in SUBSET DOMAIN h |-> Folded(h, f, s)]
            g == [n \in 0..Len(h) |-> f[1..n]]
            S == {n \in 0..Len(h) : g[n] \in Nat}
<1>2. f = [s \in SUBSET DOMAIN h |-> Folded(h, f, s)]
  BY FoldExists
<1>3. HistorySize(h) = f[DOMAIN h]
  BY DEF HistorySize, FoldLeft, MapThenFoldSet, Folded
<1>. HIDE DEF f
<1>4. g[0] = 0
  <2>1. 1..0 = {} /\ {} \in SUBSET DOMAIN h
    OBVIOUS
  <2>2. f[{}] = 0
    BY <1>2, <2>1 DEF Folded
  <2>. QED
    BY <1>1, <2>1, <2>2
<1>5. ASSUME NEW n \in 1..Len(h)
      PROVE  g[n] = g[n - 1] + RevisionSize(h[n])
  <2>1. 1..n \in SUBSET DOMAIN h /\ n \in 1..n /\ 1..n # {} /\ (1..n) \ {n} = 1..(n - 1)
    BY <1>1, <1>a, Zenon
  <2>2. Max(1..n) = n
    BY <1>1, <2>1, Largest
  <2>3. f[1..n] = f[1..(n - 1)] + RevisionSize(h[n])
    BY <1>2, <2>1, <2>2 DEF Folded
  <2>4. n \in 0..Len(h) /\ n - 1 \in 0..Len(h)
    BY <1>1
  <2>. QED
    BY <2>3, <2>4
<1>6. HistorySize(h) = g[Len(h)]
  <2>1. Len(h) \in 0..Len(h)
    BY <1>1
  <2>. QED
    BY <1>1, <1>3, <2>1
<1>7. g = [n \in 0..Len(h) |-> g[n]]
  OBVIOUS
<1>. HIDE DEF g
<1>8. ASSUME NEW n \in 0..Len(h), n \in S, n # Len(h)
      PROVE  n + 1 \in S
  <2>1. n + 1 \in 1..Len(h) /\ (n + 1) - 1 = n /\ n + 1 \in 0..Len(h)
    BY <1>b, <1>8
  <2>2. g[n + 1] = g[n] + RevisionSize(h[n + 1]) /\ RevisionSize(h[n + 1]) \in Nat
    BY <1>1, <1>5, <2>1, RevisionSizes
  <2>. QED
    BY <1>8, <2>1, <2>2
<1>9. \A n \in 0..Len(h) : n \in S
  <2>1. 0 \in S
    BY <1>1, <1>4
  <2>. HIDE DEF S
  <2>. QED
    BY <1>1, <1>8, <2>1, UpTo
<1>10. g \in [0..Len(h) -> Nat]
  BY <1>7, <1>9
<1>. QED
  BY <1>4, <1>5, <1>6, <1>10

\* A history is no larger than one with the same number of larger revisions.
LEMMA SmallerHistory ==
  ASSUME NEW h \in Seq(Revisions), NEW g \in Seq(Revisions), Len(h) = Len(g),
         \A i \in 1..Len(h) : RevisionSize(h[i]) <= RevisionSize(g[i])
  PROVE  /\ HistorySize(h) <= HistorySize(g)
         /\ HistorySize(h) \in Nat /\ HistorySize(g) \in Nat
<1>. PICK n \in Nat : n = Len(h)
  BY LenProperties
<1>1. PICK e \in [0..n -> Nat] : /\ e[0] = 0
                                 /\ \A i \in 1..n : e[i] = e[i - 1] + RevisionSize(h[i])
                                 /\ HistorySize(h) = e[n]
  BY HistorySums
<1>2. PICK f \in [0..n -> Nat] : /\ f[0] = 0
                                 /\ \A i \in 1..n : f[i] = f[i - 1] + RevisionSize(g[i])
                                 /\ HistorySize(g) = f[n]
  BY HistorySums
<1>. DEFINE S == {i \in 0..n : e[i] <= f[i]}
<1>3. 0 \in S
  BY <1>1, <1>2
<1>4. ASSUME NEW i \in 0..n, i \in S, i # n
      PROVE  i + 1 \in S
  <2>1. i + 1 \in 1..n /\ (i + 1) - 1 = i /\ i + 1 \in 0..n
    BY <1>4, NextPosition
  <2>2. h[i + 1] \in Revisions /\ g[i + 1] \in Revisions
    BY <2>1, ElementOfSeq
  <2>3. /\ e[i + 1] = e[i] + RevisionSize(h[i + 1]) /\ f[i + 1] = f[i] + RevisionSize(g[i + 1])
        /\ RevisionSize(h[i + 1]) \in Nat /\ RevisionSize(g[i + 1]) \in Nat
        /\ RevisionSize(h[i + 1]) <= RevisionSize(g[i + 1])
    BY <1>1, <1>2, <2>1, <2>2, RevisionSizes
  <2>4. e[i] \in Nat /\ f[i] \in Nat /\ e[i] <= f[i]
    BY <1>4
  <2>5. e[i + 1] <= f[i + 1]
    BY <2>3, <2>4
  <2>. QED
    BY <2>1, <2>5
<1>5. n \in S
  <2>. HIDE DEF S
  <2>1. n \in 0..n
    OBVIOUS
  <2>. QED
    BY <1>3, <1>4, <2>1, UpTo
<1>6. e[n] \in Nat /\ f[n] \in Nat
  OBVIOUS
<1>. QED
  BY <1>1, <1>2, <1>5, <1>6

\* Retention leaves a history alone that keeps to its limit.
LEMMA RollRolled ==
  ASSUME NEW h \in Seq(Revisions), NEW t \in Revisions,
         Cardinality(Completed(h)) <= MaxCompleted
  PROVE  Roll(h) = h /\ Roll(Roll(Append(h, t))) = Roll(Append(h, t))
<1>1. \A g \in Seq(Revisions) : Cardinality(Completed(g)) <= MaxCompleted => Roll(g) = g
  <2>1. ASSUME NEW g \in Seq(Revisions), Cardinality(Completed(g)) <= MaxCompleted PROVE Roll(g) = g
    <3>1. ~(Cardinality(Completed(g)) > MaxCompleted)
      BY <2>1, CompletedCount, BoundsAssumption
    <3>. QED
      BY <3>1 DEF Roll
  <2>. QED
    BY <2>1
<1>2. Append(h, t) \in Seq(Revisions)
  BY AppendProperties
<1>. QED
  BY <1>1, <1>2, RollType, RollAppended

\* What retention drops depends on the outcomes only, so a smaller revision in the
\* same place never makes a larger history.
LEMMA SmallerAppended ==
  ASSUME NEW h \in Seq(Revisions), NEW t \in Revisions, NEW u \in Revisions,
         t.state = u.state, RevisionSize(t) <= RevisionSize(u)
  PROVE  HistorySize(Roll(Append(h, t))) <= HistorySize(Roll(Append(h, u)))
<1>. DEFINE n == Len(h) + 1
<1>1. PICK g \in Seq(Revisions) : /\ g = Append(h, t) /\ Len(g) = n /\ g[n] = t
                                  /\ \A i \in 1..Len(h) : g[i] = h[i]
  BY AppendCount
<1>2. PICK e \in Seq(Revisions) : /\ e = Append(h, u) /\ Len(e) = n /\ e[n] = u
                                  /\ \A i \in 1..Len(h) : e[i] = h[i]
  BY AppendCount
<1>3. Completed(g) = Completed(e)
  <2>1. CASE t.state = "completed"
    <3>1. Completed(g) = Completed(h) \cup {n}
      BY <1>1, <2>1, AppendCount
    <3>2. Completed(e) = Completed(h) \cup {n}
      BY <1>2, <2>1, AppendCount
    <3>. QED
      BY <3>1, <3>2
  <2>2. CASE t.state # "completed"
    <3>1. Completed(g) = Completed(h)
      BY <1>1, <2>2, AppendCount
    <3>2. Completed(e) = Completed(h)
      BY <1>2, <2>2, AppendCount
    <3>. QED
      BY <3>1, <3>2
  <2>. QED
    BY <2>1, <2>2
<1>4. Len(h) \in Nat /\ \A i \in 1..Len(h) : RevisionSize(h[i]) \in Nat
  <2>1. \A i \in 1..Len(h) : h[i] \in Revisions
    BY ElementOfSeq
  <2>. QED
    BY <2>1, LenProperties, RevisionSizes
<1>5. \A i \in 1..n : RevisionSize(g[i]) <= RevisionSize(e[i])
  <2>1. \A i \in 1..n : i = n \/ i \in 1..Len(h)
    BY <1>4
  <2>. QED
    BY <1>1, <1>2, <1>4, <2>1
<1>6. CASE ~(Cardinality(Completed(g)) > MaxCompleted)
  <2>1. Roll(g) = g /\ Roll(e) = e
    BY <1>3, <1>6 DEF Roll
  <2>. QED
    BY <1>1, <1>2, <1>5, <2>1, SmallerHistory
<1>7. CASE Cardinality(Completed(g)) > MaxCompleted
  <2>1. PICK o : o = CHOOSE i \in Completed(g) : \A j \in Completed(g) : i <= j
    OBVIOUS
  <2>2. /\ Roll(g) = SubSeq(g, 1, o - 1) \o SubSeq(g, o + 1, Len(g))
        /\ Roll(e) = SubSeq(e, 1, o - 1) \o SubSeq(e, o + 1, Len(e))
    BY <1>3, <1>7, <2>1 DEF Roll
  <2>3. o \in 1..n
    <3>1. Completed(g) # {}
      <4>1. Cardinality({}) = 0 /\ ~(0 > MaxCompleted)
        BY FS_EmptySet, BoundsAssumption
      <4>. QED
        BY <1>7, <4>1
    <3>2. o \in Completed(g)
      BY <2>1, <3>1, OldestCompleted
    <3>. QED
      BY <1>1, <3>2, CompletedCount
  <2>4. /\ Roll(g) \in Seq(Revisions) /\ Len(Roll(g)) = n - 1
        /\ \A j \in 1..(n - 1) : Roll(g)[j] = IF j < o THEN g[j] ELSE g[j + 1]
    <3>. DEFINE r == SubSeq(g, 1, o - 1) \o SubSeq(g, o + 1, Len(g))
    <3>1. /\ r \in Seq(Revisions) /\ Len(r) = Len(g) - 1
          /\ \A j \in 1..Len(r) : r[j] = IF j < o THEN g[j] ELSE g[j + 1]
      <4>1. o \in 1..Len(g)
        BY <1>1, <2>3
      <4>. QED
        BY <4>1, RemoveProperties
    <3>2. Roll(g) = r
      BY <2>2
    <3>. HIDE DEF r
    <3>. QED
      BY <1>1, <3>1, <3>2
  <2>5. /\ Roll(e) \in Seq(Revisions) /\ Len(Roll(e)) = n - 1
        /\ \A j \in 1..(n - 1) : Roll(e)[j] = IF j < o THEN e[j] ELSE e[j + 1]
    <3>. DEFINE r == SubSeq(e, 1, o - 1) \o SubSeq(e, o + 1, Len(e))
    <3>1. /\ r \in Seq(Revisions) /\ Len(r) = Len(e) - 1
          /\ \A j \in 1..Len(r) : r[j] = IF j < o THEN e[j] ELSE e[j + 1]
      <4>1. o \in 1..Len(e)
        BY <1>2, <2>3
      <4>. QED
        BY <4>1, RemoveProperties
    <3>2. Roll(e) = r
      BY <2>2
    <3>. HIDE DEF r
    <3>. QED
      BY <1>2, <3>1, <3>2
  <2>6. \A j \in 1..(n - 1) : j \in 1..n /\ j + 1 \in 1..n
    BY <1>4
  <2>7. \A j \in 1..(n - 1) : RevisionSize(Roll(g)[j]) <= RevisionSize(Roll(e)[j])
    BY <1>5, <2>4, <2>5, <2>6
  <2>8. HistorySize(Roll(g)) <= HistorySize(Roll(e))
    BY <2>4, <2>5, <2>7, SmallerHistory
  <2>. QED
    BY <1>1, <1>2, <2>8
<1>. QED
  BY <1>6, <1>7

\* The first revision of a record is its whole history.
LEMMA FirstRevision ==
  ASSUME NEW t \in Revisions
  PROVE  /\ HistorySize(Roll(<< >>)) = 0
         /\ HistorySize(Roll(Append(<< >>, t))) = RevisionSize(t)
<1>1. << >> \in Seq(Revisions) /\ Len(<< >>) = 0
  OBVIOUS
<1>2. Cardinality(Completed(<< >>)) = 0
  <2>1. Completed(<< >>) = {}
    BY DEF Completed
  <2>. QED
    BY <2>1, FS_EmptySet
<1>3. PICK g \in Seq(Revisions) : /\ g = Append(<< >>, t) /\ Len(g) = 1 /\ g[1] = t
                                  /\ Cardinality(Completed(g)) \in {0, 1}
  <2>. PICK h \in Seq(Revisions) : h = << >>
    BY <1>1
  <2>1. /\ Append(h, t) \in Seq(Revisions) /\ Len(Append(h, t)) = Len(h) + 1
        /\ Append(h, t)[Len(h) + 1] = t
    BY AppendCount
  <2>2. Cardinality(Completed(Append(h, t))) \in {0, 1}
    <3>1. Cardinality(Completed(h)) = 0
      BY <1>2
    <3>2. CASE t.state = "completed"
      <4>1. Cardinality(Completed(Append(h, t))) = Cardinality(Completed(h)) + 1
        BY <3>2, AppendCount
      <4>. QED
        BY <3>1, <4>1
    <3>3. CASE t.state # "completed"
      <4>1. Completed(Append(h, t)) = Completed(h)
        BY <3>3, AppendCount
      <4>. QED
        BY <3>1, <4>1
    <3>. QED
      BY <3>2, <3>3
  <2>3. Len(h) = 0
    BY <1>1
  <2>4. PICK g \in Seq(Revisions) : g = Append(h, t)
    BY <2>1
  <2>5. Len(g) = 1 /\ g[1] = t
    BY <2>1, <2>3, <2>4
  <2>. QED
    BY <2>2, <2>4, <2>5
<1>4. Roll(<< >>) = << >> /\ Roll(g) = g
  BY <1>2, <1>3, BoundsAssumption DEF Roll
<1>5. HistorySize(<< >>) = 0
  BY <1>1, HistorySums
<1>6. HistorySize(g) = RevisionSize(t)
  <2>1. PICK f \in [0..1 -> Nat] : /\ f[0] = 0
                                   /\ \A i \in 1..1 : f[i] = f[i - 1] + RevisionSize(g[i])
                                   /\ HistorySize(g) = f[1]
    BY <1>3, HistorySums
  <2>2. f[1] = f[1 - 1] + RevisionSize(t) /\ 1 - 1 = 0
    BY <1>3, <2>1
  <2>3. f[0] = 0 /\ RevisionSize(t) \in Nat
    BY <2>1, RevisionSizes
  <2>. QED
    BY <2>1, <2>2, <2>3
<1>. QED
  BY <1>3, <1>4, <1>5, <1>6

\* What is compared with the limit.
LEMMA FitsSize ==
  ASSUME NEW s \in ReleaseStates
  PROVE  /\ Fits(s) <=> PairSize(s.baseline) + RevisionSize(s.pending) + HistorySize(Roll(s.history)) <= MaxBytes
         /\ PairSize(s.baseline) \in 0..4 /\ RevisionSize(s.pending) \in Nat
         /\ HistorySize(Roll(s.history)) \in Nat
<1>1. s.baseline \in Pairs \cup {None} /\ s.pending \in Revisions \cup {None} /\ Roll(s.history) \in Seq(Revisions)
  BY RollType DEF ReleaseStates
<1>2. \A h \in Seq(Revisions) : HistorySize(h) \in Nat
  BY RevisionSizes, SmallerHistory, ElementOfSeq
<1>3. Fits(s) <=> PairSize(s.baseline) + RevisionSize(s.pending) + HistorySize(Roll(s.history)) <= MaxBytes
  BY DEF Fits, HistorySize
<1>. QED
  BY <1>1, <1>2, <1>3, PairSizes, RevisionSizes

\* Every revision that retention keeps is one of the history, and no two are the same.
LEMMA RollEntries ==
  ASSUME NEW h \in Seq(Revisions)
  PROVE  \E m \in [DOMAIN Roll(h) -> DOMAIN h] :
           /\ \A j \in DOMAIN Roll(h) : Roll(h)[j] = h[m[j]]
           /\ \A i, j \in DOMAIN Roll(h) : m[i] = m[j] => i = j
<1>1. CASE Roll(h) = h
  <2>. DEFINE m == [j \in DOMAIN h |-> j]
  <2>1. m \in [DOMAIN h -> DOMAIN h] /\ \A j \in DOMAIN h : m[j] = j
    OBVIOUS
  <2>. HIDE DEF m
  <2>. QED
    BY <1>1, <2>1
<1>2. CASE Roll(h) # h
  <2>1. PICK o \in Completed(h) : Roll(h) = SubSeq(h, 1, o - 1) \o SubSeq(h, o + 1, Len(h))
    BY <1>2, RollRemovesOneCompleted
  <2>2. o \in 1..Len(h) /\ Len(h) \in Nat /\ DOMAIN h = 1..Len(h)
    BY CompletedCount
  <2>. DEFINE r == SubSeq(h, 1, o - 1) \o SubSeq(h, o + 1, Len(h))
              m == [j \in 1..(Len(h) - 1) |-> IF j < o THEN j ELSE j + 1]
  <2>3. /\ r \in Seq(Revisions) /\ Len(r) = Len(h) - 1
        /\ \A j \in 1..Len(r) : r[j] = IF j < o THEN h[j] ELSE h[j + 1]
    BY <2>2, RemoveProperties
  <2>. HIDE DEF r
  <2>4. DOMAIN r = 1..(Len(h) - 1)
    BY <2>3, LenProperties
  <2>5. \A j \in 1..(Len(h) - 1) : j \in 1..Len(h) /\ j + 1 \in 1..Len(h)
    BY <2>2
  <2>6. m \in [1..(Len(h) - 1) -> 1..Len(h)]
    BY <2>5
  <2>7. \A j \in 1..(Len(h) - 1) : r[j] = h[m[j]]
    BY <2>3
  <2>8. \A i, j \in 1..(Len(h) - 1) : m[i] = m[j] => i = j
    BY <2>2
  <2>. HIDE DEF m
  <2>9. Roll(h) = r
    BY <2>1 DEF r
  <2>. QED
    BY <2>2, <2>4, <2>6, <2>7, <2>8, <2>9
<1>. QED
  BY <1>1, <1>2

\* A credit keeps a record valid, whatever it credits.
LEMMA CreditValid ==
  ASSUME NEW s \in ReleaseStates, s.pending # None, validReleaseState(s),
         NEW k \in Kinds, NEW fp \in Fingerprints
  PROVE  validReleaseState(Credit(s, k, fp))
<1>. PICK c : c = Credit(s, k, fp)
  OBVIOUS
<1>1. /\ c.op = s.op /\ c.pending # None /\ c.origin = s.origin /\ c.baseline = s.baseline
      /\ c.history = s.history /\ c.pending.lift = s.pending.lift /\ c.pending.state = s.pending.state
  BY CreditType, CreditSays
<1>2. validReleaseState(c)
  BY <1>1 DEF validReleaseState, LiftsOf
<1>. QED
  BY <1>2

\* A terminal form is valid as soon as its objects are acknowledged.
LEMMA TerminalValid ==
  ASSUME NEW s \in ReleaseStates, s.pending # None, validReleaseState(s),
         NEW objects \in Pairs, Acknowledged(objects), NEW outcome \in {"completed", "partial"}
  PROVE  validReleaseState(Terminal(s, objects, outcome))
<1>. PICK e : e = Terminal(s, objects, outcome)
  OBVIOUS
<1>1. /\ e.op = None /\ e.pending = None /\ e.baseline = objects /\ objects # None
  BY TerminalType, TerminalSays, NoneAssumption
<1>2. PICK t \in Revisions : /\ t.lift = s.pending.lift /\ t.objects = objects /\ t.state = outcome
                             /\ e.history = Roll(Append(s.history, t))
  BY TerminalSays
<1>3. PICK g \in Seq(Revisions) : /\ g = Append(s.history, t) /\ Len(g) = Len(s.history) + 1
                                  /\ \A i \in 1..Len(s.history) : g[i] = s.history[i]
                                  /\ g[Len(s.history) + 1] = t
  <2>1. s.history \in Seq(Revisions)
    BY DEF ReleaseStates
  <2>. QED
    BY <2>1, AppendCount
<1>4. /\ Len(s.history) \in Nat /\ DOMAIN s.history = 1..Len(s.history)
      /\ DOMAIN g = 1..(Len(s.history) + 1)
  BY <1>3, LenProperties DEF ReleaseStates
<1>5. \A i \in DOMAIN g : i = Len(s.history) + 1 \/ i \in DOMAIN s.history
  BY <1>4
<1>6. \A i \in DOMAIN s.history : /\ s.history[i].state \in {"completed", "partial"}
                                  /\ Acknowledged(s.history[i].objects)
                                  /\ s.history[i].lift # s.pending.lift
                                  /\ \A j \in DOMAIN s.history :
                                       s.history[i].lift = s.history[j].lift => i = j
  BY DEF validReleaseState, LiftsOf
<1>7. \A i \in DOMAIN g : g[i].state \in {"completed", "partial"} /\ Acknowledged(g[i].objects)
  BY <1>2, <1>3, <1>4, <1>5, <1>6
<1>8. \A i, j \in DOMAIN g : g[i].lift = g[j].lift => i = j
  BY <1>2, <1>3, <1>4, <1>5, <1>6
<1>9. PICK m \in [DOMAIN Roll(g) -> DOMAIN g] :
        /\ \A j \in DOMAIN Roll(g) : Roll(g)[j] = g[m[j]]
        /\ \A i, j \in DOMAIN Roll(g) : m[i] = m[j] => i = j
  BY RollEntries
<1>10. PICK h : h = e.history
  OBVIOUS
<1>11. h = Roll(g)
  BY <1>2, <1>3, <1>10
<1>12. \A i \in DOMAIN h : /\ h[i].state \in {"completed", "partial"}
                           /\ Acknowledged(h[i].objects)
                           /\ \A j \in DOMAIN h : h[i].lift = h[j].lift => i = j
  <2>1. ASSUME NEW i \in DOMAIN h
        PROVE  h[i].state \in {"completed", "partial"} /\ Acknowledged(h[i].objects)
    BY <1>7, <1>9, <1>11
  <2>2. ASSUME NEW i \in DOMAIN h, NEW j \in DOMAIN h, h[i].lift = h[j].lift
        PROVE  i = j
    <3>1. m[i] \in DOMAIN g /\ m[j] \in DOMAIN g /\ h[i] = g[m[i]] /\ h[j] = g[m[j]]
      BY <1>9, <1>11
    <3>2. m[i] = m[j]
      BY <1>8, <2>2, <3>1
    <3>. QED
      BY <1>9, <1>11, <3>2
  <2>. QED
    BY <2>1, <2>2
<1>13. validReleaseState(e)
  BY <1>1, <1>10, <1>12 DEF validReleaseState
<1>. QED
  BY <1>13

-----------------------------------------------------------------------------
(* Capacity *)

\* A record reserved on what s says: with the same baseline and history.
Reserves(r, s) ==
  /\ r.pending # None /\ r.pending.before = s.baseline
  /\ r.baseline = s.baseline /\ r.history = s.history

\* The largest pending form is a reservation with every object acknowledged.
LEMMA LargestForm ==
  ASSUME NEW s \in ReleaseStates, s.baseline \in Pairs, Acknowledged(s.baseline), NEW a \in Attempts,
         reserveReleaseUpdateCapacity(Reservation(s, a))
  PROVE  \E r \in ReleaseStates :
           /\ Reserves(r, s) /\ Acknowledged(r.pending.objects)
           /\ Fits(r)
           /\ \A outcome \in {"partial", "completed"} : Fits(Terminal(r, r.pending.objects, outcome))
<1>. DEFINE q == Reservation(s, a)
            objects == [k \in Kinds |-> [q.pending.objects[k] EXCEPT !.uid = q.baseline[k].uid,
                                                                     !.gen = q.baseline[k].gen]]
            r == [q EXCEPT !.pending.objects = objects]
            pending == [q.pending EXCEPT !.objects = objects]
<1>1. /\ q \in ReleaseStates /\ q.pending # None /\ q.baseline = s.baseline /\ q.history = s.history
      /\ q.pending.before = s.baseline
  BY ReservationType, ReservationSays
<1>2. Fits(r) /\ \A outcome \in {"partial", "completed"} : Fits(Terminal(r, r.pending.objects, outcome))
  BY DEF reserveReleaseUpdateCapacity
<1>. HIDE DEF q
<1>3. q.pending \in Revisions /\ q.pending.objects \in Pairs
  BY <1>1 DEF ReleaseStates, Revisions
<1>4. ASSUME NEW k \in Kinds
      PROVE  objects[k] \in Fingerprints /\ objects[k].uid # None
  <2>1. q.pending.objects[k] \in Fingerprints /\ s.baseline[k] \in Fingerprints /\ s.baseline[k].uid # None
    BY <1>3 DEF Pairs, Acknowledged
  <2>. QED
    BY <1>1, <2>1 DEF Fingerprints
<1>5. objects \in Pairs /\ Acknowledged(objects)
  BY <1>4 DEF Pairs, Acknowledged
<1>. HIDE DEF objects
<1>6. pending \in Revisions /\ pending.objects = objects /\ pending.before = s.baseline
  BY <1>1, <1>3, <1>5 DEF Revisions
<1>7. r = [q EXCEPT !.pending = pending]
  BY <1>1 DEF ReleaseStates
<1>. HIDE DEF pending
<1>8. /\ r \in ReleaseStates /\ r.pending = pending /\ r.baseline = s.baseline
      /\ r.history = s.history
  BY <1>1, <1>6, <1>7 DEF ReleaseStates
<1>9. r.pending # None /\ r.pending.objects = objects
  BY <1>6, <1>8, NoneAssumption
<1>. HIDE DEF r
<1>. QED
  BY <1>2, <1>5, <1>6, <1>8, <1>9 DEF Reserves

\* The sizes of a reservation and of what it can become.
LEMMA ReservedSizes ==
  ASSUME NEW s \in ReleaseStates, NEW r \in ReleaseStates, Reserves(r, s)
  PROVE  /\ RevisionSize(r.pending) \in 0..(PairSize(s.baseline) + 4)
         /\ Acknowledged(r.pending.objects) => RevisionSize(r.pending) = PairSize(s.baseline) + 4
<1>1. r.pending \in Revisions /\ r.pending.objects \in Pairs /\ s.baseline \in Pairs \cup {None}
  BY DEF Reserves, ReleaseStates, Revisions
<1>2. /\ PairSize(r.pending.objects) \in 0..4 /\ PairSize(s.baseline) \in 0..4
      /\ Acknowledged(r.pending.objects) => PairSize(r.pending.objects) = 4
  BY <1>1, PairSizes
<1>3. RevisionSize(r.pending) = PairSize(s.baseline) + PairSize(r.pending.objects)
  BY DEF Reserves, RevisionSize
<1>. QED
  BY <1>2, <1>3

\* What a terminal form takes.
LEMMA TerminalSizes ==
  ASSUME NEW s \in ReleaseStates, NEW r \in ReleaseStates, Reserves(r, s),
         Cardinality(Completed(s.history)) <= MaxCompleted,
         NEW objects \in Pairs, Acknowledged(objects), NEW outcome \in {"completed", "partial"}
  PROVE  \E t \in Revisions :
           /\ t.state = outcome /\ RevisionSize(t) = PairSize(s.baseline) + 4
           /\ Fits(Terminal(r, objects, outcome)) <=> 4 + HistorySize(Roll(Append(s.history, t))) <= MaxBytes
           /\ HistorySize(Roll(Append(s.history, t))) \in Nat
<1>. PICK e : e = Terminal(r, objects, outcome)
  OBVIOUS
<1>1. e \in ReleaseStates /\ e.pending = None /\ e.baseline = objects
  BY TerminalType, TerminalSays DEF Reserves
<1>2. PICK t \in Revisions : /\ t.before = s.baseline /\ t.objects = objects /\ t.state = outcome
                             /\ e.history = Roll(Append(s.history, t))
  BY TerminalSays DEF Reserves
<1>3. s.history \in Seq(Revisions) /\ s.baseline \in Pairs \cup {None}
  BY DEF ReleaseStates
<1>4. RevisionSize(t) = PairSize(s.baseline) + 4
  <2>1. t # None /\ PairSize(t.objects) = 4
    BY <1>2, NoneAssumption, PairSizes
  <2>. QED
    BY <1>2, <2>1 DEF RevisionSize
<1>5. Roll(e.history) = Roll(Append(s.history, t))
  BY <1>2, <1>3, RollRolled
<1>6. /\ Fits(e) <=> PairSize(objects) + RevisionSize(None) + HistorySize(Roll(Append(s.history, t))) <= MaxBytes
      /\ HistorySize(Roll(Append(s.history, t))) \in Nat
  BY <1>1, <1>5, FitsSize
<1>7. PairSize(objects) = 4 /\ RevisionSize(None) = 0
  BY PairSizes DEF RevisionSize
<1>8. Fits(e) <=> 4 + HistorySize(Roll(Append(s.history, t))) <= MaxBytes
  BY <1>6, <1>7
<1>. QED
  BY <1>2, <1>4, <1>6, <1>8

(***************************************************************************)
(* reserveReleaseUpdateCapacity: once the capacity of an update has been        *)
(* reserved, everything fits that the update can write: its reservation with     *)
(* whatever has been credited to it, either terminal form, and the data that it   *)
(* found.                                                                          *)
(***************************************************************************)
THEOREM UpdateFits ==
  ASSUME NEW s \in ReleaseStates, s.baseline \in Pairs, Acknowledged(s.baseline), s.pending = None,
         Cardinality(Completed(s.history)) <= MaxCompleted, NEW a \in Attempts,
         reserveReleaseUpdateCapacity(Reservation(s, a))
  PROVE  /\ Fits(s)
         /\ \A r \in ReleaseStates : Reserves(r, s) =>
              /\ Fits(r)
              /\ \A objects \in Pairs, outcome \in {"completed", "partial"} :
                   Acknowledged(objects) => Fits(Terminal(r, objects, outcome))
<1>1. PICK l \in ReleaseStates :
        /\ Reserves(l, s) /\ Acknowledged(l.pending.objects) /\ Fits(l)
        /\ \A outcome \in {"partial", "completed"} : Fits(Terminal(l, l.pending.objects, outcome))
  BY LargestForm
<1>2. /\ PairSize(s.baseline) = 4 /\ MaxBytes \in Nat
      /\ HistorySize(Roll(s.history)) \in Nat /\ s.history \in Seq(Revisions)
  BY PairSizes, FitsSize, BoundsAssumption DEF ReleaseStates
<1>3. 4 + 8 + HistorySize(Roll(s.history)) <= MaxBytes
  <2>1. RevisionSize(l.pending) = 8
    BY <1>1, <1>2, ReservedSizes
  <2>2. PairSize(l.baseline) = 4 /\ l.history = s.history
    BY <1>1, <1>2 DEF Reserves
  <2>. QED
    BY <1>1, <2>1, <2>2, FitsSize
<1>4. Fits(s)
  <2>1. RevisionSize(s.pending) = 0
    BY DEF RevisionSize
  <2>. QED
    BY <1>2, <1>3, <2>1, FitsSize
<1>5. ASSUME NEW r \in ReleaseStates, Reserves(r, s) PROVE Fits(r)
  <2>1. RevisionSize(r.pending) \in 0..8
    BY <1>2, <1>5, ReservedSizes
  <2>2. PairSize(r.baseline) = 4 /\ r.history = s.history
    BY <1>2, <1>5 DEF Reserves
  <2>. QED
    BY <1>2, <1>3, <2>1, <2>2, FitsSize
<1>6. ASSUME NEW r \in ReleaseStates, Reserves(r, s),
             NEW objects \in Pairs, NEW outcome \in {"completed", "partial"}, Acknowledged(objects)
      PROVE  Fits(Terminal(r, objects, outcome))
  <2>1. l.pending.objects \in Pairs /\ Fits(Terminal(l, l.pending.objects, outcome))
    BY <1>1 DEF Reserves, ReleaseStates, Revisions
  <2>2. PICK t \in Revisions :
          /\ t.state = outcome /\ RevisionSize(t) = PairSize(s.baseline) + 4
          /\ Fits(Terminal(r, objects, outcome)) <=> 4 + HistorySize(Roll(Append(s.history, t))) <= MaxBytes
          /\ HistorySize(Roll(Append(s.history, t))) \in Nat
    BY <1>6, TerminalSizes
  <2>3. PICK u \in Revisions :
          /\ u.state = outcome /\ RevisionSize(u) = PairSize(s.baseline) + 4
          /\ Fits(Terminal(l, l.pending.objects, outcome))
               <=> 4 + HistorySize(Roll(Append(s.history, u))) <= MaxBytes
          /\ HistorySize(Roll(Append(s.history, u))) \in Nat
    BY <1>1, <2>1, TerminalSizes
  <2>4. HistorySize(Roll(Append(s.history, t))) <= HistorySize(Roll(Append(s.history, u)))
    BY <1>2, <2>2, <2>3, SmallerAppended
  <2>. QED
    BY <1>2, <2>1, <2>2, <2>3, <2>4
<1>. QED
  BY <1>4, <1>5, <1>6

\* The record of a first deploy always fits.
LEMMA CreateFits ==
  ASSUME NEW r \in ReleaseStates, r.pending # None, r.pending.before = None,
         r.baseline = None, r.history = << >>
  PROVE  /\ Fits(r)
         /\ \A objects \in Pairs, outcome \in {"completed", "partial"} :
              Acknowledged(objects) => Fits(Terminal(r, objects, outcome))
<1>1. Reserves(r, r) /\ PairSize(r.baseline) = 0
  BY PairSizes DEF Reserves
<1>2. MaxBytes \in Nat /\ MaxBytes >= 8
  <2>1. Cardinality(Kinds) = 2
    BY PairSizes
  <2>. QED
    BY <2>1, BoundsAssumption, CapacityAssumption
<1>3. r.pending \in Revisions /\ HistorySize(Roll(r.history)) = 0
  BY FirstRevision DEF ReleaseStates
<1>4. RevisionSize(r.pending) \in 0..4
  BY <1>1, ReservedSizes
<1>5. Fits(r)
  BY <1>1, <1>2, <1>3, <1>4, FitsSize
<1>6. Cardinality(Completed(r.history)) <= MaxCompleted
  <2>1. Completed(r.history) = {}
    BY DEF Completed
  <2>2. Cardinality({}) = 0
    BY FS_EmptySet
  <2>3. 0 <= MaxCompleted
    BY BoundsAssumption
  <2>. QED
    BY <2>1, <2>2, <2>3
<1>7. ASSUME NEW objects \in Pairs, NEW outcome \in {"completed", "partial"}, Acknowledged(objects)
      PROVE  Fits(Terminal(r, objects, outcome))
  <2>1. PICK t \in Revisions :
          /\ RevisionSize(t) = PairSize(r.baseline) + 4
          /\ Fits(Terminal(r, objects, outcome)) <=> 4 + HistorySize(Roll(Append(r.history, t))) <= MaxBytes
    BY <1>1, <1>6, <1>7, TerminalSizes
  <2>2. HistorySize(Roll(Append(r.history, t))) = 4
    BY <1>1, <2>1, FirstRevision
  <2>. QED
    BY <1>2, <2>1, <2>2
<1>. QED
  BY <1>5, <1>7
==============================================================================
