------------------------------- MODULE Switch -------------------------------
(***************************************************************************)
(* What the runtime managers promise: one runtime is active, and the one   *)
(* that was active before it is kept for a rollback.                       *)
(***************************************************************************)
CONSTANTS Runtime, None

VARIABLES active, previous

Init == active = None /\ previous = None

Activate(r) == active' = r /\ previous' = active

Rollback == previous # None /\ active' = previous /\ previous' = active

Next == Rollback \/ \E r \in Runtime : Activate(r)

Spec == Init /\ [][Next]_<<active, previous>>
=============================================================================
