-------------------------- MODULE PackageLifecycle --------------------------
(***************************************************************************)
(* What the store of retained packages promises about one handle, with      *)
(* every operation atomic.  A package is built once, is lent to one borrower *)
(* at a time while it is ready, and it is not lent any more once it is        *)
(* revoked.  A revocation that the disk has (ended) is never undone.  Only a   *)
(* package that is revoked or was never ready goes, and nothing happens to a   *)
(* package while it is lent.                                                *)
(***************************************************************************)
CONSTANTS Handles, Processes

VARIABLES
  phase,   \* what a handle stands for
  lent,    \* the borrowers of a handle
  acked    \* the handles that Prepare returned

vars == <<phase, lent, acked>>

Phases == {"absent", "incomplete", "ready", "revoked", "ended", "gone"}

Init ==
  /\ phase = [h \in Handles |-> "absent"]
  /\ lent = [h \in Handles |-> {}]
  /\ acked = {}

Become(h, f) == phase' = [phase EXCEPT ![h] = f]

Allocate(h) ==
  phase[h] = "absent" /\ Become(h, "incomplete") /\ UNCHANGED <<lent, acked>>

Complete(h) ==
  phase[h] = "incomplete" /\ Become(h, "ready") /\ UNCHANGED <<lent, acked>>

\* A package may be revoked between its completion and its acknowledgment.
Acknowledge(h) ==
  /\ phase[h] \in {"ready", "revoked", "ended"}
  /\ acked' = acked \cup {h}
  /\ UNCHANGED <<phase, lent>>

Borrow(p, h) ==
  /\ phase[h] = "ready"
  /\ lent[h] = {}
  /\ lent' = [lent EXCEPT ![h] = {p}]
  /\ UNCHANGED <<phase, acked>>

Return(p, h) == lent' = [lent EXCEPT ![h] = @ \ {p}] /\ UNCHANGED <<phase, acked>>

Revoke(h) ==
  /\ phase[h] \in {"incomplete", "ready"}
  /\ lent[h] = {}
  /\ Become(h, "revoked")
  /\ UNCHANGED <<lent, acked>>

Settle(h) == phase[h] = "revoked" /\ Become(h, "ended") /\ UNCHANGED <<lent, acked>>

\* One flush of the store may make several removals final.
Remove(removed) ==
  /\ \A h \in removed : phase[h] \in {"incomplete", "revoked", "ended"} /\ lent[h] = {}
  /\ phase' = [h \in Handles |-> IF h \in removed THEN "gone" ELSE phase[h]]
  /\ UNCHANGED <<lent, acked>>

\* The host restarts.  What was acknowledged is not lost, and neither is a
\* revocation that has ended; anything else may turn out either way.
Survives(h, f) ==
  \/ f = phase[h]
  \/ phase[h] = "ready" /\ h \notin acked /\ f = "incomplete"
  \/ phase[h] = "revoked" /\ f \in {"incomplete", "ready", "ended", "gone"}
  \/ phase[h] \in {"incomplete", "ended"} /\ f = "gone"

Restart ==
  /\ lent' = [h \in Handles |-> {}]
  /\ phase' \in [Handles -> Phases]
  /\ \A h \in Handles : Survives(h, phase'[h])
  /\ UNCHANGED acked

Next ==
  \/ \E h \in Handles : Allocate(h) \/ Complete(h) \/ Acknowledge(h) \/ Revoke(h)
                         \/ Settle(h)
  \/ \E removed \in SUBSET Handles : Remove(removed)
  \/ \E h \in Handles, p \in Processes : Borrow(p, h) \/ Return(p, h)
  \/ Restart

Spec == Init /\ [][Next]_vars
=============================================================================
