------------------------------ MODULE ModelLease ------------------------------
(***************************************************************************)
(* What the retained record of a model connection promises: the fixed      *)
(* gateway names of a cluster are leased to one connection at a time, a     *)
(* connection works only while it holds the lease, and the lease ends only  *)
(* when nothing the connection started is left.                            *)
(***************************************************************************)
CONSTANTS
  Connections,   \* the connections ever attempted
  Traces,        \* what a connection can leave behind in the cluster
  None

VARIABLES
  holder,        \* the connection that holds the lease, or None
  started        \* started[c]: the traces of c that exist or may still appear

leaseVars == <<holder, started>>

Init == holder = None /\ started = [c \in Connections |-> {}]

\* A connection is anchored: only when the previous one was released.
Claim(c) ==
  /\ holder = None
  /\ holder' = c
  /\ UNCHANGED started

\* The holder starts something, or something it started disappears.
Work ==
  /\ holder # None
  /\ \E t \in SUBSET Traces : started' = [started EXCEPT ![holder] = t]
  /\ UNCHANGED holder

\* The record is completed.
Release ==
  /\ holder # None
  /\ started[holder] = {}
  /\ holder' = None
  /\ UNCHANGED started

Next == Work \/ Release \/ \E c \in Connections : Claim(c)

Spec == Init /\ [][Next]_leaseVars
==============================================================================
