------------------------- MODULE ReleaseReservation --------------------------
(***************************************************************************)
(* What the release record promises to everybody who deploys a suite       *)
(* member: the pair of objects changes only under a reservation, one        *)
(* attempt holds the reservation at a time, only its holder gives it back,  *)
(* and nothing but an administrator's teardown takes it away.              *)
(*                                                                         *)
(* holder is Unclaimed (no record), Free, or the attempt that holds the     *)
(* record; author is who last wrote each object of the pair; completers are *)
(* the attempts that work without a reservation, because package evaluation *)
(* left one of the two objects behind and they only add the other.         *)
(***************************************************************************)
CONSTANTS Attempts, Kinds, Unclaimed, Free, Absent, Outsiders

VARIABLES holder, completers, author

vars == <<holder, completers, author>>

Init ==
  /\ holder = Unclaimed
  /\ completers = {}
  /\ author \in [Kinds -> {Absent} \cup Outsiders]

\* A first deploy creates the record; an update takes a free one.
Claim(a) ==
  /\ holder \in {Unclaimed, Free}
  /\ a \notin completers
  /\ holder' = a
  /\ UNCHANGED <<completers, author>>

Write(a, k) ==
  /\ holder = a
  /\ author' = [author EXCEPT ![k] = a]
  /\ UNCHANGED <<holder, completers>>

Release(a) ==
  /\ holder = a
  /\ holder' = Free
  /\ UNCHANGED <<completers, author>>

\* An attempt that will work without a reservation never also takes one, and
\* can only fill an absence.
Enlist(a) ==
  /\ holder # a
  /\ completers' = completers \cup {a}
  /\ UNCHANGED <<holder, author>>

Complete(a, k) ==
  /\ a \in completers
  /\ author[k] = Absent
  /\ author' = [author EXCEPT ![k] = a]
  /\ UNCHANGED <<holder, completers>>

\* Anybody else with access to the cluster.
Interfere(k) ==
  /\ \E who \in Outsiders \cup {Absent} : author' = [author EXCEPT ![k] = who]
  /\ UNCHANGED <<holder, completers>>

TearDown ==
  /\ holder' = Unclaimed
  /\ author' = [k \in Kinds |-> Absent]
  /\ UNCHANGED completers

Next ==
  \/ \E a \in Attempts : Claim(a) \/ Release(a) \/ Enlist(a)
  \/ \E a \in Attempts, k \in Kinds : Write(a, k) \/ Complete(a, k)
  \/ \E k \in Kinds : Interfere(k)
  \/ TearDown

Spec == Init /\ [][Next]_vars
==============================================================================
