--------------------------- MODULE RoomLifecycle ---------------------------
(***************************************************************************)
(* One room under concurrent HTTP requests and the hourly sweeper.  Every  *)
(* handler reads the room row once, decides from that copy, and later      *)
(* commits through update_room_state, an UPDATE guarded by `AND state = ?`.*)
(* Between two of its database calls anything else may run: the requests   *)
(* of other participants, the sweeper, the clock.  A handler may also      *)
(* disappear there (the client hangs up and its future is dropped), and so *)
(* may everything in flight (the daemon restarts); rows stay.              *)
(*                                                                         *)
(* Vote counting, message caps and delivery are in Consensus and Delivery; *)
(* here a close either meets its quorum or not, and a capped insert either *)
(* succeeds or not.                                                        *)
(***************************************************************************)
EXTENDS Lifecycle, Sequences, FiniteSets

CONSTANTS
  Requests,      \* identities of HTTP requests; each arrives at most once
  Participants,  \* handles that may join the room
  Sweeper,       \* the sweeper, as the author of an audit row
  Nobody,        \* the author of a request that has not arrived
  MaxTime,       \* bound: the clock stops here
  LastArrival    \* bound: no request, poll, join or restart after this time

ASSUME RoomLifecycleAssumption ==
  /\ Sweeper \notin Requests
  /\ Nobody \notin Participants
  /\ MaxTime \in Nat /\ LastArrival \in Nat

VARIABLES
  \* the rooms row
  state, lastActivityAt, stateChangedAt,
  \* the events table: rows [from, to, at, by]
  events,
  \* participants.last_poll_at, for the handles on the roster
  lastPollAt,
  \* each request: operation, author, position in its handler, the state it
  \* read, the `now` it took, its reply, and the state its message landed in
  op, who, pc, seen, at, reply, landed,
  \* the sweeper: position, its `now`, its copy of the room, the chosen move
  sweep,
  now

roomVars  == <<state, stateChangedAt, events>>
reqVars   == <<op, who, pc, seen, at, reply, landed>>
vars == <<roomVars, lastActivityAt, lastPollAt, reqVars, sweep, now>>

Roster == DOMAIN lastPollAt

Ops == {"msg", "signal", "blocker", "pause", "wake", "close", "force"}

\* The event a lifecycle request applies.
EventOf(o) == IF o \in {"blocker", "pause"} THEN "Pause"
              ELSE IF o = "wake" THEN "Wake" ELSE "Close"

\* The sweep loop between ticks.
SweepIdle == [pc |-> "idle", now |-> 0, state |-> "active",
              act |-> 0, chg |-> 0, to |-> "active"]

Init ==
  /\ state = "active" /\ lastActivityAt = 0 /\ stateChangedAt = 0
  /\ events = <<>>
  /\ lastPollAt = [p \in {} |-> 0]
  /\ op = [r \in Requests |-> "none"]
  /\ who = [r \in Requests |-> Nobody]
  /\ pc = [r \in Requests |-> "unborn"]
  /\ seen = [r \in Requests |-> "active"]
  /\ at = [r \in Requests |-> 0]
  /\ reply = [r \in Requests |-> "none"]
  /\ landed = [r \in Requests |-> "none"]
  /\ sweep = SweepIdle
  /\ now = 0

-----------------------------------------------------------------------------
(* The clock, and the two ways the roster changes here.                    *)

Tick ==
  /\ now < MaxTime
  /\ now' = now + 1
  /\ UNCHANGED <<roomVars, lastActivityAt, lastPollAt, reqVars, sweep>>

\* A join, or the touch_last_poll that opens every wait.
Poll(p) ==
  /\ now <= LastArrival
  /\ lastPollAt' = [q \in Roster \cup {p} |->
                      IF q = p THEN now ELSE lastPollAt[q]]
  /\ UNCHANGED <<roomVars, lastActivityAt, reqVars, sweep, now>>

-----------------------------------------------------------------------------
(* update_room_state: one transaction, the row and its audit entry.        *)

\* Mutant: the UPDATE without its `AND state = ?`.
CommitUnguarded(from, to, t, by) ==
  /\ state' = to
  /\ stateChangedAt' = t
  /\ events' = Append(events, [from |-> from, to |-> to, at |-> t, by |-> by])

\* Mutant: the sweeper updates the row without the audit entry.
CommitSweepUnlogged(from, to, t, by) ==
  /\ state = from
  /\ state' = to
  /\ stateChangedAt' = t
  /\ events' = IF by = Sweeper THEN events
                ELSE Append(events, [from |-> from, to |-> to, at |-> t, by |-> by])

Commit(from, to, t, by) ==
  /\ state = from
  /\ state' = to
  /\ stateChangedAt' = t
  /\ events' = Append(events, [from |-> from, to |-> to, at |-> t, by |-> by])

Miss(from) == state # from /\ UNCHANGED roomVars

Goto(r, l) == pc' = [pc EXCEPT ![r] = l] /\ UNCHANGED <<reply, who, seen, at>>

\* The handler ends and its locals with it.
Reply(r, answer) ==
  /\ pc' = [pc EXCEPT ![r] = "done"]
  /\ reply' = [reply EXCEPT ![r] = answer]
  /\ who' = [who EXCEPT ![r] = Nobody]
  /\ seen' = [seen EXCEPT ![r] = "active"]
  /\ at' = [at EXCEPT ![r] = 0]

-----------------------------------------------------------------------------
(* Requests.                                                               *)

\* get_room, then the guards that look at that copy of the row, then
\* resolve_participant and the handler's own `now`.  `room` is this copy
\* until the handler ends.
Admits(o, s) ==
  /\ o \in {"msg", "signal", "blocker"} => Writable(s)
  /\ o \in {"blocker", "pause", "wake"} =>
       \E to \in RoomStates : Legal(s, EventOf(o), to)
  /\ o \in {"close", "force"} => ~Terminal(s)

\* Where an admitted handler's next database call is.
FirstStep(o) == IF o \in {"msg", "signal"} THEN "insert"
                ELSE IF o = "close" THEN "vote" ELSE "cas"

Arrive(r, o, p) ==
  /\ pc[r] = "unborn"
  /\ now <= LastArrival
  /\ p \in Roster
  /\ op' = [op EXCEPT ![r] = o]
  /\ \/ ~Admits(o, state) /\ Reply(r, "conflict")
     \/ /\ Admits(o, state)
        /\ pc' = [pc EXCEPT ![r] = FirstStep(o)]
        /\ who' = [who EXCEPT ![r] = p]
        /\ seen' = [seen EXCEPT ![r] = state]
        /\ at' = [at EXCEPT ![r] = now]
        /\ UNCHANGED reply
  /\ UNCHANGED <<roomVars, lastActivityAt, lastPollAt, landed, sweep, now>>

\* create_message_capped (409 at the cap) or create_message_typed.
Insert(r) ==
  /\ pc[r] = "insert"
  /\ \/ /\ landed' = [landed EXCEPT ![r] = state]
        /\ IF op[r] = "msg" THEN Goto(r, "touch") ELSE Reply(r, "ok")
     \/ /\ op[r] = "msg"
        /\ Reply(r, "conflict")
        /\ UNCHANGED landed
  /\ UNCHANGED <<roomVars, lastActivityAt, lastPollAt, op, sweep, now>>

\* Mutant: the idle cutoff is stored where `now` belongs.
TouchCutoff(r) ==
  /\ pc[r] = "touch"
  /\ lastActivityAt' = at[r] - IdleAfter
  /\ IF seen[r] \in {"idle", "stale"} THEN Goto(r, "revive") ELSE Reply(r, "ok")
  /\ UNCHANGED <<roomVars, lastPollAt, op, landed, sweep, now>>

\* touch_last_activity, with the `now` the handler took before its insert.
Touch(r) ==
  /\ pc[r] = "touch"
  /\ lastActivityAt' = at[r]
  /\ IF seen[r] \in {"idle", "stale"} THEN Goto(r, "revive") ELSE Reply(r, "ok")
  /\ UNCHANGED <<roomVars, lastPollAt, op, landed, sweep, now>>

\* Mutant: the revive forces the room active whatever it is by now.
ReviveUnguarded(r) ==
  /\ pc[r] = "revive"
  /\ CommitUnguarded(state, "active", at[r], r)
  /\ Reply(r, "ok")
  /\ UNCHANGED <<lastActivityAt, lastPollAt, op, landed, sweep, now>>

\* A msg on a room read as idle or stale revives it; a miss is ignored.
Revive(r) ==
  /\ pc[r] = "revive"
  /\ \/ \E to \in RoomStates : /\ Legal(seen[r], "Message", to)
                               /\ Commit(seen[r], to, at[r], r)
     \/ Miss(seen[r])
  /\ Reply(r, "ok")
  /\ UNCHANGED <<lastActivityAt, lastPollAt, op, landed, sweep, now>>

\* close_room without force: touch_last_poll, record the vote, count.  Either
\* the quorum is met or the vote stays behind as a proposal.
Vote(r) ==
  /\ pc[r] = "vote"
  /\ lastPollAt' = [q \in Roster |-> IF q = who[r] THEN at[r] ELSE lastPollAt[q]]
  /\ Goto(r, "cas") \/ Reply(r, "proposed")
  /\ UNCHANGED <<roomVars, lastActivityAt, op, landed, sweep, now>>

\* The CAS of apply_transition (pause, wake), of signal_room (blocker) and of
\* close_now, from the state the handler read.
Cas(r) ==
  /\ pc[r] = "cas"
  /\ \E to \in RoomStates :
       /\ Legal(seen[r], EventOf(op[r]), to)
       /\ Commit(seen[r], to, at[r], r)
  /\ IF op[r] = "blocker" THEN Goto(r, "insert") ELSE Reply(r, "ok")
  /\ UNCHANGED <<lastActivityAt, lastPollAt, op, landed, sweep, now>>

\* Mutant: the result of the CAS is ignored.
CasMissIgnored(r) ==
  /\ pc[r] = "cas"
  /\ Miss(seen[r])
  /\ IF op[r] \in {"close", "force"} THEN Goto(r, "recheck") ELSE Reply(r, "ok")
  /\ UNCHANGED <<lastActivityAt, lastPollAt, op, landed, sweep, now>>

CasMiss(r) ==
  /\ pc[r] = "cas"
  /\ Miss(seen[r])
  /\ IF op[r] \in {"close", "force"} THEN Goto(r, "recheck") ELSE Reply(r, "conflict")
  /\ UNCHANGED <<lastActivityAt, lastPollAt, op, landed, sweep, now>>

\* Mutant: a lost close race is taken for a close by somebody else.
RecheckAnything(r) ==
  /\ pc[r] = "recheck"
  /\ Reply(r, "ok")
  /\ UNCHANGED <<roomVars, lastActivityAt, lastPollAt, op, landed,
                 sweep, now>>

\* close_now after a lost race: success iff the room ended up terminal anyway.
Recheck(r) ==
  /\ pc[r] = "recheck"
  /\ Reply(r, IF Terminal(state) THEN "ok" ELSE "conflict")
  /\ UNCHANGED <<roomVars, lastActivityAt, lastPollAt, op, landed,
                 sweep, now>>

InFlight(r) == pc[r] \notin {"unborn", "done"}

\* The client disconnects: the handler is dropped at its current await.
Cancel(r) ==
  /\ InFlight(r)
  /\ Reply(r, "dropped")
  /\ UNCHANGED <<roomVars, lastActivityAt, lastPollAt, op, landed,
                 sweep, now>>

-----------------------------------------------------------------------------
(* The sweeper.                                                            *)

\* sweep_once fixes `now` and lists the rooms that are not archived.
SweepList ==
  /\ sweep.pc = "idle"
  /\ state # "archived"
  /\ sweep' = [pc |-> "listed", now |-> now, state |-> state,
               act |-> lastActivityAt, chg |-> stateChangedAt, to |-> state]
  /\ UNCHANGED <<roomVars, lastActivityAt, lastPollAt, reqVars, now>>

\* list_participants, then the time event (if any) of the listed copy.
SweepDecide ==
  /\ sweep.pc = "listed"
  /\ LET polls == {lastPollAt[p] : p \in Roster}
         due   == ComputeTimeEvent(sweep.state, sweep.act, sweep.chg, polls, sweep.now)
     IN  \/ \E e \in due, to \in RoomStates :
              /\ Legal(sweep.state, e, to)
              /\ sweep' = [sweep EXCEPT !.pc = "decided", !.to = to]
         \/ due = {} /\ sweep' = SweepIdle
  /\ UNCHANGED <<roomVars, lastActivityAt, lastPollAt, reqVars, now>>

\* Mutant: the sweeper insists on a move whose precondition is gone.
SweepApplyInsists ==
  /\ sweep.pc = "decided"
  /\ Commit(sweep.state, sweep.to, sweep.now, Sweeper)
  /\ sweep' = SweepIdle
  /\ UNCHANGED <<lastActivityAt, lastPollAt, reqVars, now>>

\* The CAS; a miss means someone moved the room first and is not an error.
SweepApply ==
  /\ sweep.pc = "decided"
  /\ Commit(sweep.state, sweep.to, sweep.now, Sweeper) \/ Miss(sweep.state)
  /\ sweep' = SweepIdle
  /\ UNCHANGED <<lastActivityAt, lastPollAt, reqVars, now>>

\* The daemon stops and is started again: whatever was in flight is gone.
Restart ==
  /\ now <= LastArrival
  /\ sweep.pc # "idle" \/ \E r \in Requests : InFlight(r)
  /\ sweep' = SweepIdle
  /\ pc' = [r \in Requests |-> IF InFlight(r) THEN "done" ELSE pc[r]]
  /\ reply' = [r \in Requests |-> IF InFlight(r) THEN "dropped" ELSE reply[r]]
  /\ who' = [r \in Requests |-> Nobody]
  /\ seen' = [r \in Requests |-> "active"]
  /\ at' = [r \in Requests |-> 0]
  /\ UNCHANGED <<roomVars, lastActivityAt, lastPollAt, op, landed, now>>

-----------------------------------------------------------------------------

Handle(r) ==
  \/ Insert(r) \/ Touch(r) \/ Revive(r) \/ Vote(r)
  \/ Cas(r) \/ CasMiss(r) \/ Recheck(r)

Sweep == SweepList \/ SweepDecide \/ SweepApply

Next ==
  \/ Tick
  \/ \E p \in Participants : Poll(p)
  \/ \E r \in Requests, o \in Ops, p \in Participants : Arrive(r, o, p)
  \/ \E r \in Requests : Handle(r)
  \/ \E r \in Requests : Cancel(r)
  \/ Sweep
  \/ Restart

Spec == Init /\ [][Next]_vars

(***************************************************************************)
(* Time passes, the daemon runs the handlers it has accepted, and the      *)
(* sweeper's interval keeps ticking.  Nothing obliges a client to call or  *)
(* to stay connected, and the daemon may be restarted until LastArrival.   *)
(***************************************************************************)
Fairness ==
  /\ WF_vars(Tick)
  /\ \A r \in Requests : WF_vars(Handle(r))
  /\ WF_vars(SweepList) /\ WF_vars(SweepDecide) /\ WF_vars(SweepApply)

FairSpec == Init /\ [][Next]_vars /\ Fairness

-----------------------------------------------------------------------------
(* Properties.                                                             *)

Row == [from : RoomStates, to : RoomStates, at : Nat, by : Requests \cup {Sweeper}]

RoomTypes ==
  /\ state \in RoomStates
  /\ lastActivityAt \in Nat /\ stateChangedAt \in Nat /\ now \in Nat
  /\ events \in Seq(Row)
  /\ Roster \subseteq Participants /\ lastPollAt \in [Roster -> Nat]

RequestTypes ==
  /\ op \in [Requests -> Ops \cup {"none"}]
  /\ who \in [Requests -> Participants \cup {Nobody}]
  /\ pc \in [Requests -> {"unborn", "insert", "touch", "revive", "vote",
                          "cas", "recheck", "done"}]
  /\ seen \in [Requests -> RoomStates]
  /\ at \in [Requests -> Nat]
  /\ reply \in [Requests -> {"none", "ok", "conflict", "proposed", "dropped"}]
  /\ landed \in [Requests -> RoomStates \cup {"none"}]

SweepTypes ==
  sweep \in [pc : {"idle", "listed", "decided"}, now : Nat, state : RoomStates,
             act : Nat, chg : Nat, to : RoomStates]

\* Every variable holds a value the program could store or hold there.
TypeOK == RoomTypes /\ RequestTypes /\ SweepTypes

\* The audit log explains the room: its rows join up from the initial active
\* state to the state and the state_changed_at the room row holds now, however
\* many handlers and sweeps raced on a stale copy (update_room_state).
AuditChain ==
  /\ \A i \in 1 .. Len(events) :
       events[i].from = IF i = 1 THEN "active" ELSE events[i - 1].to
  /\ state = IF events = <<>> THEN "active" ELSE events[Len(events)].to
  /\ stateChangedAt = IF events = <<>> THEN 0 ELSE events[Len(events)].at

RowsBy(r) == {i \in 1 .. Len(events) : events[i].by = r}

\* The one transition request r has made is the one its operation is for.
OwnMove(r) ==
  \E i \in 1 .. Len(events) :
    RowsBy(r) = {i} /\ Legal(events[i].from, EventOf(op[r]), events[i].to)

\* What a reply says happened did happen, and nothing else did: a 409 left no
\* transition and no message behind; an acknowledged pause, wake or blocker
\* made exactly one transition, the one it was for; a blocker's message is never
\* stored without its pause; an acknowledged close finds the room's end in the
\* log (its own, another's, or the archiving of a stale room).
RepliesAreHonest ==
  \A r \in Requests :
    /\ reply[r] = "conflict" => RowsBy(r) = {} /\ landed[r] = "none"
    /\ op[r] = "blocker" /\ landed[r] # "none" => RowsBy(r) # {}
    /\ reply[r] = "ok" /\ op[r] \in {"pause", "wake", "blocker"} => OwnMove(r)
    /\ reply[r] = "ok" /\ op[r] \in {"close", "force"} =>
         \E i \in 1 .. Len(events) : Terminal(events[i].to)

\* Once any close has been acknowledged the room never takes traffic again,
\* whatever sends, wakes and sweeps were still in flight (close_now's recheck).
AckedCloseIsFinal ==
  (\E r \in Requests : op[r] \in {"close", "force"} /\ reply[r] = "ok")
    => Terminal(state)

\* A closed or stale room stays readable for the full window: the row that
\* archives it is ArchiveAfter later than the row by which it entered that
\* state, not than its last message (compute_time_event's anchor).
ArchiveWindow ==
  \A i \in 2 .. Len(events) :
    events[i].to = "archived" => events[i].at - events[i - 1].at >= ArchiveAfter

\* A paused room is parked: no message revive, sweep or blocker that read the
\* room before the pause ends it, only a wake or a close.
PauseIsDurable ==
  [][ state = "paused" /\ state' # "paused" =>
        \E r \in Requests : /\ op[r] \in {"wake", "close", "force"}
                            /\ pc[r] = "cas" /\ reply'[r] = "ok" ]_vars

\* Every move of the room is an edge of the transition table and leaves its
\* audit row, so the concurrent room implements RoomAudit.
audit == [i \in 1 .. Len(events) |-> <<events[i].from, events[i].to>>]

Abstract == INSTANCE RoomAudit WITH state <- state, audit <- audit

ImplementsRoomAudit == Abstract!ASpec

\* A transition that time has made due does not stay due for ever: whatever
\* misses, disconnects and restarts come first, some later sweep applies it.
Overdue ==
  ComputeTimeEvent(state, lastActivityAt, stateChangedAt,
                   {lastPollAt[p] : p \in Roster}, now) # {}

OverdueIsSwept == Overdue ~> ~Overdue

-----------------------------------------------------------------------------
(* A claim of the source that these races refute.                            *)

Answers(r, answer) == reply[r] = "none" /\ reply'[r] = answer

\* http.rs: "a msg landing on an idle/stale room revives it to active".
LandedMsgRevives ==
  [][ \A r \in Requests :
        Answers(r, "ok") /\ op[r] = "msg" /\ landed[r] \in {"idle", "stale"}
          => state' \notin {"idle", "stale"} ]_vars
=============================================================================
