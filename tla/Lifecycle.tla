----------------------------- MODULE Lifecycle -----------------------------
(***************************************************************************)
(* The pure room-lifecycle state machine of lifecycle.rs: the transition   *)
(* table that every request handler and the sweeper consult, and the       *)
(* time-based event the sweeper derives from a room's age.  No state, no   *)
(* I/O: RoomLifecycle puts these operators behind concurrent handlers.     *)
(*                                                                         *)
(* Times are naturals in an arbitrary unit; only the order of the four     *)
(* thresholds and the comparison used with each of them matter.            *)
(***************************************************************************)
EXTENDS Integers

CONSTANTS
  GhostAfter,    \* a participant quiet for longer than this is a ghost (15min)
  IdleAfter,     \* active -> idle once quiet for this long (24h)
  StaleAfter,    \* idle -> stale once quiet for this long (7d)
  ArchiveAfter   \* stale, closed -> archived this long after entering (14d)

ASSUME ThresholdsAssumption ==
  /\ GhostAfter \in Nat /\ IdleAfter \in Nat
  /\ StaleAfter \in Nat /\ ArchiveAfter \in Nat
  /\ GhostAfter < IdleAfter /\ IdleAfter < StaleAfter
  /\ StaleAfter < ArchiveAfter

RoomStates == {"active", "idle", "paused", "stale", "closed", "archived"}

LifecycleEvents ==
  {"Message", "Pause", "Wake", "Close",
   "Idle", "Stale", "Archive", "GhostAllStale"}

(***************************************************************************)
(* transition(state, event): <<from, event, to>> for every legal pair.     *)
(* A pair with no entry is IllegalTransition.                              *)
(***************************************************************************)
TransitionTable ==
  { <<"active", "Message", "active">>,
    <<"active", "Pause",   "paused">>,
    <<"active", "Close",   "closed">>,
    <<"active", "Idle",    "idle">>,
    <<"active", "GhostAllStale", "idle">>,
    <<"idle",   "Message", "active">>,
    <<"idle",   "Pause",   "paused">>,
    <<"idle",   "Wake",    "active">>,
    <<"idle",   "Close",   "closed">>,
    <<"idle",   "Stale",   "stale">>,
    <<"paused", "Wake",    "active">>,
    <<"paused", "Close",   "closed">>,
    <<"stale",  "Message", "active">>,
    <<"stale",  "Close",   "closed">>,
    <<"stale",  "Archive", "archived">>,
    <<"closed", "Archive", "archived">> }

Legal(s, e, t) == <<s, e, t>> \in TransitionTable

\* The states that reject_unless_writable and extend_room let through.
Writable(s) == s \in {"active", "idle", "stale"}

\* close_room and close_now: a room that takes no further close.
Terminal(s) == s \in {"closed", "archived"}

\* Every participant is a ghost; vacuously so in an empty room.
NoLivePoller(polls, now) == \A t \in polls : now - t > GhostAfter

\* Mutant: the archive window runs from the last message.
TimeEventFromActivity(s, lastActivityAt, stateChangedAt, polls, now) ==
  { e \in LifecycleEvents :
      \/ e = "Idle" /\ s = "active" /\ now - lastActivityAt >= IdleAfter
      \/ /\ e = "GhostAllStale" /\ s = "active" /\ now - lastActivityAt < IdleAfter
         /\ polls # {} /\ NoLivePoller(polls, now)
      \/ /\ e = "Stale" /\ s = "idle" /\ now - lastActivityAt >= StaleAfter
         /\ NoLivePoller(polls, now)
      \/ /\ e = "Archive" /\ s \in {"stale", "closed"}
         /\ now - lastActivityAt >= ArchiveAfter }

(***************************************************************************)
(* compute_time_event: the set holding the single time-based event that is *)
(* due, empty when none is.  Idle wins over GhostAllStale, and the archive *)
(* window runs from the time the state was entered.                        *)
(***************************************************************************)
ComputeTimeEvent(s, lastActivityAt, stateChangedAt, polls, now) ==
  { e \in LifecycleEvents :
      \/ e = "Idle" /\ s = "active" /\ now - lastActivityAt >= IdleAfter
      \/ /\ e = "GhostAllStale" /\ s = "active" /\ now - lastActivityAt < IdleAfter
         /\ polls # {} /\ NoLivePoller(polls, now)
      \/ /\ e = "Stale" /\ s = "idle" /\ now - lastActivityAt >= StaleAfter
         /\ NoLivePoller(polls, now)
      \/ /\ e = "Archive" /\ s \in {"stale", "closed"}
         /\ now - stateChangedAt >= ArchiveAfter }
=============================================================================
