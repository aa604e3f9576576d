----------------------------- MODULE RoomAudit -----------------------------
(***************************************************************************)
(* What a room promises about its lifecycle, with no requests, clocks or   *)
(* races in sight: the room starts active, moves only along edges of the   *)
(* transition table, and every move appends exactly the row <<from, to>>   *)
(* to an append-only audit log.  RoomLifecycle, where stale reads race for *)
(* one conditional UPDATE, is shown to implement this.                     *)
(***************************************************************************)
EXTENDS Lifecycle, Sequences

VARIABLES state, audit

avars == <<state, audit>>

AInit == state = "active" /\ audit = <<>>

Move(e) == \E to \in RoomStates :
             /\ Legal(state, e, to)
             /\ state' = to
             /\ audit' = Append(audit, <<state, to>>)

ANext == \E e \in LifecycleEvents : Move(e)

ASpec == AInit /\ [][ANext]_avars
=============================================================================
