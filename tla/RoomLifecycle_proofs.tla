----------------------- MODULE RoomLifecycle_proofs -----------------------
(***************************************************************************)
(* For any set of requests, any roster and any thresholds: the types of    *)
(* RoomLifecycle, its audit chain, the finality of an acknowledged close,  *)
(* the durability of a pause, the implementation of RoomAudit, the archive *)
(* window, and the honesty of the replies.                                 *)
(***************************************************************************)
EXTENDS RoomLifecycle, TLAPS

-----------------------------------------------------------------------------
(* Type correctness, one lemma per part of the state.                      *)

LEMMA TypesInit == Init => TypeOK
BY RoomLifecycleAssumption
DEF Init, TypeOK, RoomTypes, RequestTypes, SweepTypes, SweepIdle, RoomStates, Roster

\* A handler that ends or goes on leaves every request's locals well typed.
LEMMA ReplyTypes ==
  ASSUME RequestTypes, NEW r \in Requests, UNCHANGED <<op, landed>>,
         \/ \E a \in {"ok", "conflict", "proposed", "dropped"} : Reply(r, a)
         \/ \E l \in {"insert", "touch", "revive", "vote", "cas", "recheck"} : Goto(r, l)
  PROVE  RequestTypes'
BY RoomLifecycleAssumption DEF RequestTypes, Reply, Goto, RoomStates

LEMMA ArriveTypes ==
  ASSUME RequestTypes, RoomTypes, NEW r \in Requests, NEW o \in Ops, NEW p \in Participants,
         Arrive(r, o, p)
  PROVE  RequestTypes'
<1>1. op' \in [Requests -> Ops \cup {"none"}] /\ landed' \in [Requests -> RoomStates \cup {"none"}]
  BY DEF Arrive, RequestTypes
<1>2. CASE ~Admits(o, state)
  <2>1. Reply(r, "conflict")
    BY <1>2 DEF Arrive
  <2>2. QED BY <1>1, <2>1 DEF Reply, RequestTypes, RoomStates
<1>3. CASE Admits(o, state)
  <2>1. state \in RoomStates /\ now \in Nat /\ FirstStep(o) \in {"insert", "vote", "cas"}
    BY DEF RoomTypes, FirstStep
  <2>2. reply' = reply
    BY <1>3 DEF Arrive, Reply
  <2>3. pc' = [pc EXCEPT ![r] = FirstStep(o)] /\ who' = [who EXCEPT ![r] = p]
        /\ seen' = [seen EXCEPT ![r] = state] /\ at' = [at EXCEPT ![r] = now]
    BY <1>3 DEF Arrive
  <2>4. QED BY <1>1, <2>1, <2>2, <2>3 DEF RequestTypes
<1>4. QED BY <1>2, <1>3

\* A commit keeps the row and the log well typed.
LEMMA CommitTypes ==
  ASSUME RoomTypes, NEW from, NEW to \in RoomStates, NEW t \in Nat,
         NEW by \in Requests \cup {Sweeper}, Commit(from, to, t, by),
         UNCHANGED <<lastPollAt, lastActivityAt, now>>
  PROVE  RoomTypes'
<1>1. [from |-> from, to |-> to, at |-> t, by |-> by] \in Row
  BY DEF Commit, Row, RoomTypes
<1>2. events' \in Seq(Row)
  BY <1>1 DEF Commit, RoomTypes
<1>3. QED BY <1>2 DEF Commit, RoomTypes, Roster

LEMMA HandleTypes ==
  ASSUME TypeOK, NEW r \in Requests, Handle(r)
  PROVE  TypeOK'
<1> USE DEF TypeOK
<1>0. at[r] \in Nat /\ seen[r] \in RoomStates
  BY DEF RequestTypes
<1>1. CASE Insert(r)
  <2>1. RoomTypes' /\ SweepTypes'
    BY <1>1 DEF Insert, RoomTypes, SweepTypes, roomVars, Roster
  <2>2. op' \in [Requests -> Ops \cup {"none"}]
        /\ landed' \in [Requests -> RoomStates \cup {"none"}]
    BY <1>1 DEF Insert, RequestTypes, RoomTypes
  <2>3. ASSUME Goto(r, "touch") PROVE RequestTypes'
    BY <2>2, <2>3 DEF Goto, RequestTypes
  <2>4. ASSUME Reply(r, "ok") \/ Reply(r, "conflict") PROVE RequestTypes'
    BY <2>2, <2>4 DEF Reply, RequestTypes, RoomStates
  <2>5. RequestTypes'
    BY <1>1, <2>3, <2>4 DEF Insert
  <2>6. QED BY <2>1, <2>5
<1>2. CASE Touch(r)
  <2>1. RoomTypes' /\ SweepTypes'
    BY <1>0, <1>2 DEF Touch, RoomTypes, SweepTypes, roomVars, Roster
  <2>2. RequestTypes'
    BY <1>2, ReplyTypes DEF Touch
  <2>3. QED BY <2>1, <2>2
<1>3. CASE Revive(r)
  <2>1. RequestTypes' /\ SweepTypes'
    BY <1>3, ReplyTypes DEF Revive, SweepTypes
  <2>2. CASE Miss(seen[r])
    BY <1>3, <2>1, <2>2 DEF Revive, Miss, RoomTypes, roomVars, Roster
  <2>3. CASE \E to \in RoomStates : Commit(seen[r], to, at[r], r)
    BY <1>0, <1>3, <2>1, <2>3, CommitTypes DEF Revive
  <2>4. QED BY <1>3, <2>2, <2>3 DEF Revive
<1>4. CASE Vote(r)
  <2>1. RequestTypes' /\ SweepTypes'
    BY <1>4, ReplyTypes DEF Vote, SweepTypes
  <2>2. RoomTypes'
    BY <1>0, <1>4 DEF Vote, RoomTypes, roomVars, Roster
  <2>3. QED BY <2>1, <2>2
<1>5. CASE Cas(r)
  <2>1. RequestTypes' /\ SweepTypes'
    BY <1>5, ReplyTypes DEF Cas, SweepTypes
  <2>2. RoomTypes'
    BY <1>0, <1>5, CommitTypes DEF Cas
  <2>3. QED BY <2>1, <2>2
<1>6. CASE CasMiss(r)
  <2>1. RequestTypes' /\ SweepTypes'
    BY <1>6, ReplyTypes DEF CasMiss, SweepTypes
  <2>2. RoomTypes'
    BY <1>6 DEF CasMiss, Miss, RoomTypes, roomVars, Roster
  <2>3. QED BY <2>1, <2>2
<1>7. CASE Recheck(r)
  <2>1. RequestTypes' /\ SweepTypes'
    BY <1>7, ReplyTypes DEF Recheck, SweepTypes
  <2>2. RoomTypes'
    BY <1>7 DEF Recheck, RoomTypes, roomVars, Roster
  <2>3. QED BY <2>1, <2>2
<1>8. QED BY <1>1, <1>2, <1>3, <1>4, <1>5, <1>6, <1>7 DEF Handle

LEMMA SweepTypesStep ==
  ASSUME TypeOK, Sweep
  PROVE  TypeOK'
<1> USE DEF TypeOK
<1>0. RequestTypes'
  BY DEF Sweep, SweepList, SweepDecide, SweepApply, RequestTypes, reqVars
<1>1. CASE SweepList
  BY <1>0, <1>1 DEF SweepList, SweepTypes, RoomTypes, roomVars, Roster
<1>2. CASE SweepDecide
  <2>1. RoomTypes'
    BY <1>2 DEF SweepDecide, RoomTypes, roomVars, Roster
  <2>2. ASSUME NEW to \in RoomStates, sweep' = [sweep EXCEPT !.pc = "decided", !.to = to]
        PROVE  SweepTypes'
    BY <2>2 DEF SweepTypes
  <2>3. ASSUME sweep' = SweepIdle PROVE SweepTypes'
    BY <2>3 DEF SweepTypes, SweepIdle, RoomStates
  <2>4. QED BY <1>0, <1>2, <2>1, <2>2, <2>3 DEF SweepDecide
<1>3. CASE SweepApply
  <2>1. SweepTypes'
    BY <1>3 DEF SweepApply, SweepTypes, SweepIdle, RoomStates
  <2>2. ASSUME Miss(sweep.state) PROVE RoomTypes'
    BY <1>3, <2>2 DEF SweepApply, Miss, RoomTypes, roomVars, Roster
  <2>3. ASSUME Commit(sweep.state, sweep.to, sweep.now, Sweeper) PROVE RoomTypes'
    <3>1. sweep.to \in RoomStates /\ sweep.now \in Nat
      BY DEF SweepTypes
    <3>2. QED BY <1>3, <2>3, <3>1, CommitTypes DEF SweepApply
  <2>4. RoomTypes' BY <1>3, <2>2, <2>3 DEF SweepApply
  <2>5. QED BY <1>0, <2>1, <2>4
<1>4. QED BY <1>1, <1>2, <1>3 DEF Sweep

LEMMA TypesStep == TypeOK /\ [Next]_vars => TypeOK'
<1> SUFFICES ASSUME TypeOK, [Next]_vars PROVE TypeOK'
  OBVIOUS
<1> USE DEF TypeOK
<1>1. CASE Tick
  BY <1>1 DEF Tick, RoomTypes, RequestTypes, SweepTypes, roomVars, reqVars, Roster
<1>2. ASSUME NEW p \in Participants, Poll(p) PROVE TypeOK'
  BY <1>2 DEF Poll, RoomTypes, RequestTypes, SweepTypes, roomVars, reqVars, Roster
<1>3. ASSUME NEW r \in Requests, NEW o \in Ops, NEW p \in Participants, Arrive(r, o, p)
      PROVE TypeOK'
  <2>1. RequestTypes' BY <1>3, ArriveTypes
  <2>2. RoomTypes' /\ SweepTypes'
    BY <1>3 DEF Arrive, RoomTypes, SweepTypes, roomVars, Roster
  <2>3. QED BY <2>1, <2>2
<1>4. ASSUME NEW r \in Requests, Handle(r) PROVE TypeOK'
  BY <1>4, HandleTypes
<1>5. ASSUME NEW r \in Requests, Cancel(r) PROVE TypeOK'
  <2>1. RequestTypes' BY <1>5, ReplyTypes DEF Cancel
  <2>2. RoomTypes' /\ SweepTypes'
    BY <1>5 DEF Cancel, RoomTypes, SweepTypes, roomVars, Roster
  <2>3. QED BY <2>1, <2>2
<1>6. CASE Sweep
  BY <1>6, SweepTypesStep
<1>7. CASE Restart
  <2>1. RequestTypes'
    BY <1>7 DEF Restart, RequestTypes, RoomStates
  <2>2. RoomTypes' /\ SweepTypes'
    BY <1>7 DEF Restart, RoomTypes, SweepTypes, SweepIdle, RoomStates, roomVars, Roster
  <2>3. QED BY <2>1, <2>2
<1>8. CASE UNCHANGED vars
  BY <1>8 DEF vars, RoomTypes, RequestTypes, SweepTypes, roomVars, reqVars, Roster
<1>9. QED BY <1>1, <1>2, <1>3, <1>4, <1>5, <1>6, <1>7, <1>8 DEF Next

\* TypeOK holds of every reachable state.
THEOREM TypeCorrect == Spec => []TypeOK
BY TypesInit, TypesStep, PTL DEF Spec

-----------------------------------------------------------------------------
(* What one step can do to the room row and its log.                       *)

TimeEvents == {"Idle", "GhostAllStale", "Stale", "Archive"}

\* The move the sweeper has decided on is an edge that only time takes.
SweepSound ==
  sweep.pc = "decided" => \E e \in TimeEvents : Legal(sweep.state, e, sweep.to)

\* One commit along an edge of the table.
RoomStep ==
  \E e \in LifecycleEvents, to \in RoomStates, t \in Nat, by \in Requests \cup {Sweeper} :
    Legal(state, e, to) /\ Commit(state, to, t, by)

\* The sweeper only ever decides on legal moves, so its unchecked use of
\* transition cannot apply anything else.
LEMMA SweepSoundStep == TypeOK /\ SweepSound /\ [Next]_vars => SweepSound'
<1> SUFFICES ASSUME TypeOK, SweepSound, [Next]_vars PROVE SweepSound'
  OBVIOUS
<1>1. CASE SweepDecide
  <2>1. ASSUME NEW e \in TimeEvents, NEW to \in RoomStates,
               Legal(sweep.state, e, to), sweep' = [sweep EXCEPT !.pc = "decided", !.to = to]
        PROVE  SweepSound'
    <3>1. sweep'.to = to /\ sweep'.state = sweep.state
      BY <2>1 DEF TypeOK, SweepTypes
    <3>2. QED BY <2>1, <3>1 DEF SweepSound, TimeEvents, Legal, TransitionTable
  <2>2. ASSUME sweep' = SweepIdle PROVE SweepSound'
    BY <2>2 DEF SweepSound, SweepIdle
  <2>3. QED BY <1>1, <2>1, <2>2 DEF SweepDecide, ComputeTimeEvent, TimeEvents
<1>2. CASE SweepList \/ SweepApply \/ Restart
  BY <1>2 DEF SweepList, SweepApply, Restart, SweepSound, SweepIdle
<1>3. CASE UNCHANGED sweep
  BY <1>3 DEF SweepSound, Legal, TransitionTable
<1>4. ASSUME NEW r \in Requests, Handle(r) \/ Cancel(r) PROVE UNCHANGED sweep
  BY <1>4 DEF Handle, Insert, Touch, Revive, Vote, Cas, CasMiss, Recheck, Cancel
<1>5. CASE Tick \/ (\E p \in Participants : Poll(p))
           \/ (\E r \in Requests, o \in Ops, p \in Participants : Arrive(r, o, p))
  BY <1>3, <1>5 DEF Tick, Poll, Arrive
<1>6. CASE UNCHANGED vars
  BY <1>3, <1>6 DEF vars
<1>7. QED BY <1>1, <1>2, <1>3, <1>4, <1>5, <1>6 DEF Next, Sweep

LEMMA EventOfType ==
  ASSUME NEW o PROVE EventOf(o) \in LifecycleEvents
BY DEF EventOf, LifecycleEvents

\* Every step leaves the row and the log alone, or moves the room along an
\* edge of the table from the state it is really in.
LEMMA StepShape == TypeOK /\ SweepSound /\ [Next]_vars => RoomStep \/ UNCHANGED roomVars
<1> SUFFICES ASSUME TypeOK, SweepSound, [Next]_vars PROVE RoomStep \/ UNCHANGED roomVars
  OBVIOUS
<1>1. ASSUME NEW r \in Requests, Revive(r) PROVE RoomStep \/ UNCHANGED roomVars
  <2>1. at[r] \in Nat BY DEF TypeOK, RequestTypes
  <2>2. QED BY <1>1, <2>1 DEF Revive, Miss, RoomStep, Commit, LifecycleEvents
<1>2. ASSUME NEW r \in Requests, Cas(r) PROVE RoomStep
  <2>1. at[r] \in Nat BY DEF TypeOK, RequestTypes
  <2>2. PICK to \in RoomStates : Legal(seen[r], EventOf(op[r]), to) /\ Commit(seen[r], to, at[r], r)
    BY <1>2 DEF Cas
  <2>3. state = seen[r] BY <2>2 DEF Commit
  <2>4. QED BY <2>1, <2>2, <2>3, EventOfType DEF RoomStep
<1>3. CASE SweepApply
  <2>1. sweep.now \in Nat /\ sweep.to \in RoomStates BY DEF TypeOK, SweepTypes
  <2>2. CASE Commit(sweep.state, sweep.to, sweep.now, Sweeper)
    <3>1. state = sweep.state BY <2>2 DEF Commit
    <3>2. PICK e \in LifecycleEvents : Legal(state, e, sweep.to)
      BY <1>3, <3>1 DEF SweepApply, SweepSound, TimeEvents, LifecycleEvents
    <3>3. QED BY <2>1, <2>2, <3>1, <3>2 DEF RoomStep
  <2>3. QED BY <1>3, <2>2 DEF SweepApply, Miss
<1>4. ASSUME NEW r \in Requests,
             Insert(r) \/ Touch(r) \/ Vote(r) \/ CasMiss(r) \/ Recheck(r) \/ Cancel(r)
      PROVE  UNCHANGED roomVars
  BY <1>4 DEF Insert, Touch, Vote, CasMiss, Miss, Recheck, Cancel
<1>5. CASE Tick \/ (\E p \in Participants : Poll(p)) \/ SweepList \/ SweepDecide \/ Restart
           \/ (\E r \in Requests, o \in Ops, p \in Participants : Arrive(r, o, p))
  BY <1>5 DEF Tick, Poll, SweepList, SweepDecide, Restart, Arrive
<1>6. CASE UNCHANGED vars
  BY <1>6 DEF vars
<1>7. QED BY <1>1, <1>2, <1>3, <1>4, <1>5, <1>6 DEF Next, Handle, Sweep

LEMMA Sound == Spec => [](TypeOK /\ SweepSound)
<1>1. Init => SweepSound
  BY DEF Init, SweepSound, SweepIdle
<1>2. QED BY <1>1, TypesInit, TypesStep, SweepSoundStep, PTL DEF Spec

-----------------------------------------------------------------------------
(* The audit log.                                                          *)

LEMMA AuditChainStep ==
  ASSUME TypeOK, AuditChain, RoomStep
  PROVE  AuditChain'
<1>1. PICK to \in RoomStates, t \in Nat, by \in Requests \cup {Sweeper} : Commit(state, to, t, by)
  BY DEF RoomStep
<1> DEFINE row == [from |-> state, to |-> to, at |-> t, by |-> by]
           n   == Len(events)
<1>2. row \in Row /\ events \in Seq(Row)
  BY DEF Row, TypeOK, RoomTypes
<1>3. events' = Append(events, row) /\ state' = to /\ stateChangedAt' = t
  BY <1>1 DEF Commit
<1>4. /\ n \in Nat /\ Len(events') = n + 1
      /\ events'[n + 1] = row
      /\ \A i \in 1 .. n : events'[i] = events[i]
      /\ events' # <<>>
  BY <1>2, <1>3
<1>5. \A i \in 1 .. Len(events') :
        events'[i].from = IF i = 1 THEN "active" ELSE events'[i - 1].to
  <2> SUFFICES ASSUME NEW i \in 1 .. n + 1
               PROVE  events'[i].from = IF i = 1 THEN "active" ELSE events'[i - 1].to
    BY <1>4
  <2>1. CASE i \in 1 .. n
    BY <1>4, <2>1 DEF AuditChain
  <2>2. CASE i = n + 1 /\ n = 0
    BY <1>2, <1>4, <2>2 DEF AuditChain
  <2>3. CASE i = n + 1 /\ n # 0
    <3>1. events'[i].from = state BY <1>4, <2>3
    <3>2. events # <<>> /\ n \in 1 .. n /\ i - 1 = n BY <1>4, <2>3
    <3>3. QED BY <1>4, <2>3, <3>1, <3>2 DEF AuditChain
  <2>4. QED BY <1>4, <2>1, <2>2, <2>3
<1>6. state' = events'[Len(events')].to /\ stateChangedAt' = events'[Len(events')].at
  BY <1>3, <1>4
<1>7. QED BY <1>4, <1>5, <1>6 DEF AuditChain

\* Whatever races, the events table joins up from the initial active state to
\* the state and state_changed_at of the room row.
THEOREM AuditChainAlways == Spec => []AuditChain
<1>1. Init => AuditChain
  BY DEF Init, AuditChain
<1>2. TypeOK /\ SweepSound /\ AuditChain /\ [Next]_vars => AuditChain'
  <2>1. AuditChain /\ UNCHANGED roomVars => AuditChain'
    BY DEF AuditChain, roomVars
  <2>2. QED BY <2>1, StepShape, AuditChainStep
<1>3. QED BY <1>1, <1>2, Sound, PTL DEF Spec

-----------------------------------------------------------------------------
(* Acknowledged closes, pauses, and the abstract specification.            *)

\* Each position in a handler belongs to the operations that reach it, and
\* only a handler that has ended has replied.
Positions ==
  \A r \in Requests :
    /\ pc[r] = "insert" => op[r] \in {"msg", "signal", "blocker"}
    /\ pc[r] \in {"touch", "revive"} => op[r] = "msg"
    /\ pc[r] = "vote" => op[r] = "close"
    /\ pc[r] = "cas" => op[r] \in {"blocker", "pause", "wake", "close", "force"}
    /\ pc[r] = "recheck" => op[r] \in {"close", "force"}
    /\ pc[r] = "unborn" => op[r] = "none"
    /\ pc[r] # "done" => reply[r] = "none"

LEMMA PositionsStep == TypeOK /\ Positions /\ [Next]_vars => Positions'
<1> SUFFICES ASSUME TypeOK, Positions, [Next]_vars PROVE Positions'
  OBVIOUS
<1> USE DEF TypeOK, RequestTypes
<1>1. ASSUME NEW r \in Requests, Handle(r) PROVE Positions'
  <2>1. CASE Insert(r) BY <2>1 DEF Insert, Goto, Reply, Positions
  <2>2. CASE Touch(r) BY <2>2 DEF Touch, Goto, Reply, Positions
  <2>3. CASE Revive(r) BY <2>3 DEF Revive, Reply, Positions
  <2>4. CASE Vote(r) BY <2>4 DEF Vote, Goto, Reply, Positions
  <2>5. CASE Cas(r) BY <2>5 DEF Cas, Goto, Reply, Positions
  <2>6. CASE CasMiss(r) BY <2>6 DEF CasMiss, Goto, Reply, Positions
  <2>7. CASE Recheck(r) BY <2>7 DEF Recheck, Reply, Positions
  <2>8. QED BY <1>1, <2>1, <2>2, <2>3, <2>4, <2>5, <2>6, <2>7 DEF Handle
<1>2. ASSUME NEW r \in Requests, Cancel(r) PROVE Positions'
  BY <1>2 DEF Cancel, Reply, Positions
<1>3. ASSUME NEW r \in Requests, NEW o \in Ops, NEW p \in Participants, Arrive(r, o, p)
      PROVE Positions'
  <2>1. CASE Reply(r, "conflict")
    BY <1>3, <2>1 DEF Arrive, Reply, Positions
  <2>2. CASE pc' = [pc EXCEPT ![r] = FirstStep(o)] /\ UNCHANGED reply
    BY <1>3, <2>2 DEF Arrive, FirstStep, Ops, Positions
  <2>3. QED BY <1>3, <2>1, <2>2 DEF Arrive
<1>4. CASE Restart
  BY <1>4 DEF Restart, InFlight, Positions
<1>5. CASE UNCHANGED reqVars
  BY <1>5 DEF reqVars, Positions
<1>6. CASE Tick \/ (\E p \in Participants : Poll(p)) \/ Sweep \/ UNCHANGED vars
  BY <1>5, <1>6 DEF Tick, Poll, Sweep, SweepList, SweepDecide, SweepApply, vars
<1>7. QED BY <1>1, <1>2, <1>3, <1>4, <1>6 DEF Next

LEMMA Located == Spec => []Positions
<1>1. Init => Positions
  BY DEF Init, Positions
<1>2. QED BY <1>1, TypeCorrect, PositionsStep, PTL DEF Spec

LEMMA TerminalStays ==
  ASSUME RoomStep \/ UNCHANGED roomVars, Terminal(state)
  PROVE  Terminal(state')
BY DEF RoomStep, Commit, Legal, TransitionTable, Terminal, roomVars

\* A close is acknowledged only by a step that ends with the room terminal.
LEMMA CloseAck ==
  ASSUME TypeOK, Positions, [Next]_vars, NEW r \in Requests,
         op'[r] \in {"close", "force"}, reply'[r] = "ok",
         ~(op[r] \in {"close", "force"} /\ reply[r] = "ok")
  PROVE  Terminal(state')
<1> USE DEF TypeOK, RequestTypes
<1>1. ASSUME NEW q \in Requests, Cas(q) PROVE Terminal(state')
  <2>1. q = r BY <1>1 DEF Cas, Goto, Reply
  <2>2. EventOf(op[r]) = "Close" BY <1>1, <2>1 DEF Cas, EventOf
  <2>3. QED BY <1>1, <2>1, <2>2 DEF Cas, Commit, Legal, TransitionTable, Terminal
<1>2. ASSUME NEW q \in Requests, Recheck(q) PROVE Terminal(state')
  BY <1>2 DEF Recheck, Reply, roomVars, Terminal
<1>3. ASSUME NEW q \in Requests,
             Insert(q) \/ Touch(q) \/ Revive(q) \/ Vote(q) \/ CasMiss(q) \/ Cancel(q)
      PROVE  FALSE
  BY <1>3 DEF Insert, Touch, Revive, Vote, CasMiss, Cancel, Goto, Reply, Positions
<1>4. ASSUME NEW q \in Requests, NEW o \in Ops, NEW p \in Participants, Arrive(q, o, p)
      PROVE  FALSE
  BY <1>4 DEF Arrive, Reply, Positions
<1>5. CASE Restart
  BY <1>5 DEF Restart
<1>6. CASE Tick \/ (\E p \in Participants : Poll(p)) \/ Sweep \/ UNCHANGED vars
  BY <1>6 DEF Tick, Poll, Sweep, SweepList, SweepDecide, SweepApply, vars, reqVars
<1>7. QED BY <1>1, <1>2, <1>3, <1>4, <1>5, <1>6 DEF Next, Handle

\* Once a close has been acknowledged, no send, wake or sweep that was in
\* flight can make the room take traffic again.
THEOREM AckedCloseStays == Spec => []AckedCloseIsFinal
<1>1. Init => AckedCloseIsFinal
  BY DEF Init, AckedCloseIsFinal
<1>2. TypeOK /\ SweepSound /\ Positions /\ AckedCloseIsFinal /\ [Next]_vars
        => AckedCloseIsFinal'
  <2> SUFFICES ASSUME TypeOK, SweepSound, Positions, AckedCloseIsFinal, [Next]_vars,
                      NEW r \in Requests, op'[r] \in {"close", "force"}, reply'[r] = "ok"
               PROVE  Terminal(state')
    BY DEF AckedCloseIsFinal, Terminal
  <2>1. CASE op[r] \in {"close", "force"} /\ reply[r] = "ok"
    BY <2>1, StepShape, TerminalStays DEF AckedCloseIsFinal
  <2>2. QED BY <2>1, CloseAck
<1>3. QED BY <1>1, <1>2, Sound, Located, PTL DEF Spec

\* A pause outlives every message, blocker and sweep that read the room before
\* it: the only step out of paused is the commit of a wake or a close.
THEOREM PauseDurable == Spec => PauseIsDurable
<1> DEFINE Ends == \E r \in Requests : /\ op[r] \in {"wake", "close", "force"}
                                       /\ pc[r] = "cas" /\ reply'[r] = "ok"
<1>1. ASSUME TypeOK, SweepSound, Positions, [Next]_vars, state = "paused", state' # "paused"
      PROVE  Ends
  <2> USE <1>1 DEF TypeOK, RequestTypes
  <2>1. ASSUME NEW r \in Requests, Revive(r) PROVE FALSE
    BY <2>1 DEF Revive, Miss, Commit, Legal, TransitionTable, roomVars
  <2>2. ASSUME NEW r \in Requests, Cas(r) PROVE Ends
    <3>1. EventOf(op[r]) # "Pause"
      BY <2>2 DEF Cas, Commit, Legal, TransitionTable
    <3>2. op[r] \in {"wake", "close", "force"} /\ pc[r] = "cas"
      BY <2>2, <3>1 DEF Cas, EventOf, Positions
    <3>3. QED BY <2>2, <3>2 DEF Cas, Reply
  <2>3. ASSUME SweepApply PROVE FALSE
    BY <2>3 DEF SweepApply, SweepSound, Miss, Commit, Legal, TransitionTable, roomVars,
                TimeEvents
  <2>4. ASSUME NEW r \in Requests,
               Insert(r) \/ Touch(r) \/ Vote(r) \/ CasMiss(r) \/ Recheck(r) \/ Cancel(r)
        PROVE  FALSE
    BY <2>4 DEF Insert, Touch, Vote, CasMiss, Miss, Recheck, Cancel, roomVars
  <2>5. CASE Tick \/ (\E p \in Participants : Poll(p)) \/ SweepList \/ SweepDecide \/ Restart
             \/ (\E r \in Requests, o \in Ops, p \in Participants : Arrive(r, o, p))
    BY <2>5 DEF Tick, Poll, SweepList, SweepDecide, Restart, Arrive, roomVars
  <2>6. CASE UNCHANGED vars
    BY <2>6 DEF vars, roomVars
  <2>7. QED BY <2>1, <2>2, <2>3, <2>4, <2>5, <2>6 DEF Next, Handle, Sweep
<1>2. QED BY <1>1, Sound, Located, PTL DEF Spec, PauseIsDurable

LEMMA AuditAppend ==
  ASSUME TypeOK, NEW to \in RoomStates, NEW t \in Nat, NEW by \in Requests \cup {Sweeper},
         Commit(state, to, t, by)
  PROVE  audit' = Append(audit, <<state, to>>)
<1> DEFINE row == [from |-> state, to |-> to, at |-> t, by |-> by]
           n   == Len(events)
<1>1. row \in Row /\ events \in Seq(Row) /\ n \in Nat
  BY DEF Row, TypeOK, RoomTypes
<1>2. events' = Append(events, row)
  BY DEF Commit
<1>3. Len(events') = n + 1 /\ events'[n + 1] = row /\ \A i \in 1 .. n : events'[i] = events[i]
  BY <1>1, <1>2
<1>4. audit \in Seq(RoomStates \X RoomStates) /\ Len(audit) = n
  <2>1. \A i \in 1 .. n : events[i] \in Row
    BY <1>1
  <2>2. \A i \in 1 .. n : <<events[i].from, events[i].to>> \in RoomStates \X RoomStates
    BY <2>1 DEF Row
  <2>3. QED BY <1>1, <2>2 DEF audit
<1>5. Append(audit, <<state, to>>)
        = [i \in 1 .. n + 1 |-> IF i = n + 1 THEN <<state, to>> ELSE audit[i]]
  BY <1>1, <1>4
<1>6. audit' = [i \in 1 .. n + 1 |-> <<events'[i].from, events'[i].to>>]
  BY <1>3 DEF audit
<1>7. \A i \in 1 .. n + 1 : <<events'[i].from, events'[i].to>>
                              = IF i = n + 1 THEN <<state, to>> ELSE audit[i]
  BY <1>1, <1>3 DEF audit
<1>8. QED BY <1>5, <1>6, <1>7

\* Each step of the concurrent room is a move of the abstract one or a stutter:
\* stale reads, lost races and sweeps never show in the state and its audit log.
THEOREM RoomRefinesAudit == Spec => ImplementsRoomAudit
<1>1. Init => Abstract!AInit
  BY DEF Init, Abstract!AInit, audit
<1>2. ASSUME TypeOK, SweepSound, [Next]_vars
      PROVE  [Abstract!ANext]_<<state, audit>>
  <2>1. CASE RoomStep
    <3>1. PICK e \in LifecycleEvents, to \in RoomStates, t \in Nat, by \in Requests \cup {Sweeper} :
            Legal(state, e, to) /\ Commit(state, to, t, by)
      BY <2>1 DEF RoomStep
    <3>2. state' = to /\ audit' = Append(audit, <<state, to>>)
      BY <1>2, <3>1, AuditAppend DEF Commit
    <3>3. to \in Abstract!RoomStates /\ e \in Abstract!LifecycleEvents
      BY <3>1 DEF RoomStates, LifecycleEvents, Abstract!RoomStates, Abstract!LifecycleEvents
    <3>4. Abstract!Legal(state, e, to)
      BY <3>1 DEF Legal, TransitionTable, Abstract!Legal, Abstract!TransitionTable
    <3>5. Abstract!ANext
      BY <3>2, <3>3, <3>4 DEF Abstract!ANext, Abstract!Move
    <3>6. QED BY <3>5
  <2>2. CASE UNCHANGED roomVars
    BY <2>2 DEF roomVars, audit
  <2>3. QED BY <1>2, <2>1, <2>2, StepShape
<1>3. QED BY <1>1, <1>2, Sound, PTL DEF Spec, ImplementsRoomAudit, Abstract!ASpec, Abstract!avars

-----------------------------------------------------------------------------
(* Who made the step.                                                      *)

\* A request's commit: its own row, along an edge that no sweep takes.
RequestMove(r) ==
  /\ sweep' = sweep
  /\ \E e \in LifecycleEvents \ TimeEvents, to \in RoomStates :
       Legal(state, e, to) /\ Commit(state, to, at[r], r)

\* The sweeper's commit of the move it decided on.
SweepMove ==
  /\ sweep.pc = "decided" /\ state = sweep.state /\ sweep' = SweepIdle
  /\ Commit(state, sweep.to, sweep.now, Sweeper)

LEMMA StepAuthor ==
  ASSUME TypeOK, Positions, [Next]_vars
  PROVE  \/ UNCHANGED roomVars
         \/ SweepMove
         \/ \E r \in Requests : RequestMove(r)
<1>1. ASSUME NEW r \in Requests, Revive(r), ~UNCHANGED roomVars PROVE RequestMove(r)
  <2>1. PICK to \in RoomStates : Legal(seen[r], "Message", to) /\ Commit(seen[r], to, at[r], r)
    BY <1>1 DEF Revive, Miss
  <2>2. state = seen[r] BY <2>1 DEF Commit
  <2>3. "Message" \in LifecycleEvents \ TimeEvents BY DEF LifecycleEvents, TimeEvents
  <2>4. QED BY <1>1, <2>1, <2>2, <2>3 DEF Revive, RequestMove
<1>2. ASSUME NEW r \in Requests, Cas(r) PROVE RequestMove(r)
  <2>1. PICK to \in RoomStates : Legal(seen[r], EventOf(op[r]), to) /\ Commit(seen[r], to, at[r], r)
    BY <1>2 DEF Cas
  <2>2. state = seen[r] BY <2>1 DEF Commit
  <2>3. EventOf(op[r]) \in LifecycleEvents \ TimeEvents
    BY DEF EventOf, LifecycleEvents, TimeEvents
  <2>4. QED BY <1>2, <2>1, <2>2, <2>3 DEF Cas, RequestMove
<1>3. CASE SweepApply
  BY <1>3 DEF SweepApply, SweepMove, Commit, Miss
<1>4. ASSUME NEW r \in Requests,
             Insert(r) \/ Touch(r) \/ Vote(r) \/ CasMiss(r) \/ Recheck(r) \/ Cancel(r)
      PROVE  UNCHANGED roomVars
  BY <1>4 DEF Insert, Touch, Vote, CasMiss, Miss, Recheck, Cancel
<1>5. CASE Tick \/ (\E p \in Participants : Poll(p)) \/ SweepList \/ SweepDecide \/ Restart
           \/ (\E r \in Requests, o \in Ops, p \in Participants : Arrive(r, o, p))
  BY <1>5 DEF Tick, Poll, SweepList, SweepDecide, Restart, Arrive
<1>6. CASE UNCHANGED vars
  BY <1>6 DEF vars
<1>7. QED BY <1>1, <1>2, <1>3, <1>4, <1>5, <1>6 DEF Next, Handle, Sweep

-----------------------------------------------------------------------------
(* The archive window.                                                     *)

\* The sweeper's copy of the room ages well: once listed as closed the room
\* stays terminal, and a room that is again, or still, in the stale or closed
\* state it was listed in has not left it, since only the sweeper makes a room
\* stale and it is busy with this pass.
SweepKnows ==
  sweep.pc # "idle" =>
    /\ Terminal(sweep.state) => Terminal(state)
    /\ state = sweep.state /\ sweep.state \in {"stale", "closed"}
         => stateChangedAt = sweep.chg

\* An archiving that has been decided is due, by the listed copy.
SweepDue ==
  sweep.pc = "decided" /\ sweep.to = "archived" =>
    sweep.state \in {"stale", "closed"} /\ sweep.now - sweep.chg >= ArchiveAfter

LEMMA SweepKnowsStep == TypeOK /\ Positions /\ SweepKnows /\ [Next]_vars => SweepKnows'
<1> SUFFICES ASSUME TypeOK, Positions, SweepKnows, [Next]_vars PROVE SweepKnows'
  OBVIOUS
<1>1. CASE SweepList
  BY <1>1 DEF SweepList, SweepKnows, roomVars, Terminal
<1>2. CASE SweepDecide
  <2>1. sweep' = SweepIdle \/ (sweep'.state = sweep.state /\ sweep'.chg = sweep.chg)
    BY <1>2 DEF SweepDecide, TypeOK, SweepTypes
  <2>2. sweep.pc # "idle" /\ UNCHANGED roomVars
    BY <1>2 DEF SweepDecide
  <2>3. QED BY <2>1, <2>2 DEF SweepKnows, SweepIdle, roomVars, Terminal
<1>3. CASE SweepApply \/ Restart
  BY <1>3 DEF SweepApply, Restart, SweepKnows, SweepIdle
<1>4. CASE UNCHANGED sweep /\ UNCHANGED roomVars
  BY <1>4 DEF SweepKnows, roomVars, Terminal
<1>5. ASSUME NEW r \in Requests, RequestMove(r) PROVE SweepKnows'
  <2>1. PICK e \in LifecycleEvents \ TimeEvents, to \in RoomStates :
          Legal(state, e, to) /\ Commit(state, to, at[r], r)
    BY <1>5 DEF RequestMove
  <2>2. state' = to /\ sweep' = sweep
    BY <1>5, <2>1 DEF RequestMove, Commit
  <2>3. to \in {"active", "paused", "closed"} /\ ~Terminal(state)
    BY <2>1 DEF Legal, TransitionTable, TimeEvents, Terminal
  <2>4. QED BY <2>2, <2>3 DEF SweepKnows, Terminal
<1>6. ASSUME UNCHANGED sweep PROVE SweepKnows'
  <2>1. ~SweepMove \/ UNCHANGED roomVars
    BY <1>6 DEF SweepMove, SweepIdle
  <2>2. QED BY <1>4, <1>5, <1>6, <2>1, StepAuthor
<1>7. ASSUME NEW r \in Requests, Handle(r) \/ Cancel(r) PROVE UNCHANGED sweep
  BY <1>7 DEF Handle, Insert, Touch, Revive, Vote, Cas, CasMiss, Recheck, Cancel
<1>8. CASE Tick \/ (\E p \in Participants : Poll(p)) \/ UNCHANGED vars
           \/ (\E r \in Requests, o \in Ops, p \in Participants : Arrive(r, o, p))
  BY <1>6, <1>8 DEF Tick, Poll, Arrive, vars
<1>9. QED BY <1>1, <1>2, <1>3, <1>6, <1>7, <1>8 DEF Next, Sweep

LEMMA SweepDueStep == TypeOK /\ SweepDue /\ [Next]_vars => SweepDue'
<1> SUFFICES ASSUME TypeOK, SweepDue, [Next]_vars PROVE SweepDue'
  OBVIOUS
<1>1. CASE SweepDecide
  <2> DEFINE due == ComputeTimeEvent(sweep.state, sweep.act, sweep.chg,
                                     {lastPollAt[p] : p \in Roster}, sweep.now)
  <2>1. ASSUME NEW e \in due, NEW to \in RoomStates, Legal(sweep.state, e, to),
               sweep' = [sweep EXCEPT !.pc = "decided", !.to = to], to = "archived"
        PROVE  SweepDue'
    <3>1. e = "Archive"
      BY <2>1 DEF Legal, TransitionTable
    <3>2. sweep.state \in {"stale", "closed"} /\ sweep.now - sweep.chg >= ArchiveAfter
      BY <3>1 DEF ComputeTimeEvent
    <3>3. sweep'.state = sweep.state /\ sweep'.now = sweep.now /\ sweep'.chg = sweep.chg
      BY <2>1 DEF TypeOK, SweepTypes
    <3>4. QED BY <3>2, <3>3 DEF SweepDue
  <2>2. ASSUME NEW to \in RoomStates, sweep' = [sweep EXCEPT !.pc = "decided", !.to = to],
               to # "archived"
        PROVE  SweepDue'
    BY <2>2 DEF SweepDue, TypeOK, SweepTypes
  <2>3. ASSUME sweep' = SweepIdle PROVE SweepDue'
    BY <2>3 DEF SweepDue, SweepIdle
  <2>4. QED BY <1>1, <2>1, <2>2, <2>3 DEF SweepDecide
<1>2. CASE SweepList \/ SweepApply \/ Restart
  BY <1>2 DEF SweepList, SweepApply, Restart, SweepDue, SweepIdle
<1>3. CASE UNCHANGED sweep
  BY <1>3 DEF SweepDue
<1>4. ASSUME NEW r \in Requests, Handle(r) \/ Cancel(r) PROVE UNCHANGED sweep
  BY <1>4 DEF Handle, Insert, Touch, Revive, Vote, Cas, CasMiss, Recheck, Cancel
<1>5. CASE Tick \/ (\E p \in Participants : Poll(p)) \/ UNCHANGED vars
           \/ (\E r \in Requests, o \in Ops, p \in Participants : Arrive(r, o, p))
  BY <1>3, <1>5 DEF Tick, Poll, Arrive, vars
<1>6. QED BY <1>1, <1>2, <1>3, <1>4, <1>5 DEF Next, Sweep

\* A commit appends its row and keeps the others.
LEMMA CommitAppends ==
  ASSUME TypeOK, NEW to \in RoomStates, NEW t \in Nat, NEW by \in Requests \cup {Sweeper},
         Commit(state, to, t, by)
  PROVE  /\ Len(events) \in Nat /\ Len(events') = Len(events) + 1
         /\ events'[Len(events) + 1] = [from |-> state, to |-> to, at |-> t, by |-> by]
         /\ \A i \in 1 .. Len(events) : events'[i] = events[i]
<1> DEFINE row == [from |-> state, to |-> to, at |-> t, by |-> by]
<1>1. row \in Row /\ events \in Seq(Row)
  BY DEF Row, TypeOK, RoomTypes
<1>2. events' = Append(events, row)
  BY DEF Commit
<1>3. QED BY <1>1, <1>2

LEMMA ArchiveWindowAppend ==
  ASSUME TypeOK, AuditChain, ArchiveWindow,
         NEW to \in RoomStates, NEW t \in Nat, NEW by \in Requests \cup {Sweeper},
         Commit(state, to, t, by), to = "archived" => t - stateChangedAt >= ArchiveAfter
  PROVE  ArchiveWindow'
<1> DEFINE n == Len(events)
<1>1. /\ n \in Nat /\ Len(events') = n + 1
      /\ events'[n + 1].to = to /\ events'[n + 1].at = t
      /\ \A i \in 1 .. n : events'[i] = events[i]
  <2>1. /\ n \in Nat /\ Len(events') = n + 1
        /\ events'[n + 1] = [from |-> state, to |-> to, at |-> t, by |-> by]
        /\ \A i \in 1 .. n : events'[i] = events[i]
    BY CommitAppends
  <2>2. QED BY <2>1
<1> HIDE DEF n
<1> SUFFICES ASSUME NEW i \in 2 .. n + 1, events'[i].to = "archived"
             PROVE  events'[i].at - events'[i - 1].at >= ArchiveAfter
  BY <1>1 DEF ArchiveWindow
<1>2. CASE i \in 2 .. n
  <2>1. i \in 1 .. n /\ i - 1 \in 1 .. n BY <1>1, <1>2
  <2>2. QED BY <1>1, <1>2, <2>1 DEF ArchiveWindow, n
<1>3. CASE i = n + 1
  <2>1. n \in 1 .. n /\ i - 1 = n BY <1>1, <1>3
  <2>2. events'[n] = events[n] BY <1>1, <2>1
  <2>3. events # <<>> BY <2>1 DEF n
  <2>4. stateChangedAt = events[n].at BY <2>3 DEF AuditChain, n
  <2>5. QED BY <1>1, <1>3, <2>1, <2>2, <2>4
<1>4. QED BY <1>1, <1>2, <1>3

\* A closed or stale room stays readable for the whole archive window, although
\* the sweeper decides from a copy that others may have moved on from.
THEOREM ArchiveWindowKept == Spec => []ArchiveWindow
<1>1. Init => ArchiveWindow /\ SweepKnows /\ SweepDue
  BY DEF Init, ArchiveWindow, SweepKnows, SweepDue, SweepIdle
<1>2. TypeOK /\ Positions /\ AuditChain /\ SweepKnows /\ SweepDue /\ ArchiveWindow
        /\ [Next]_vars => ArchiveWindow'
  <2> SUFFICES ASSUME TypeOK, Positions, AuditChain, SweepKnows, SweepDue, ArchiveWindow,
                      [Next]_vars
               PROVE  ArchiveWindow'
    OBVIOUS
  <2>1. CASE UNCHANGED roomVars
    BY <2>1 DEF roomVars, ArchiveWindow
  <2>2. CASE SweepMove
    <3>1. sweep.to \in RoomStates /\ sweep.now \in Nat
      BY DEF TypeOK, SweepTypes
    <3>2. sweep.to = "archived" => sweep.now - stateChangedAt >= ArchiveAfter
      BY <2>2 DEF SweepMove, SweepKnows, SweepDue
    <3>3. QED BY <2>2, <3>1, <3>2, ArchiveWindowAppend DEF SweepMove
  <2>3. ASSUME NEW r \in Requests, RequestMove(r) PROVE ArchiveWindow'
    <3>1. PICK e \in LifecycleEvents \ TimeEvents, to \in RoomStates :
            Legal(state, e, to) /\ Commit(state, to, at[r], r)
      BY <2>3 DEF RequestMove
    <3>2. to # "archived" /\ at[r] \in Nat
      BY <3>1 DEF Legal, TransitionTable, TimeEvents, TypeOK, RequestTypes
    <3>3. QED BY <3>1, <3>2, ArchiveWindowAppend
  <2>4. QED BY <2>1, <2>2, <2>3, StepAuthor
<1>3. QED BY <1>1, <1>2, TypeCorrect, Located, AuditChainAlways, SweepKnowsStep,
             SweepDueStep, PTL DEF Spec

-----------------------------------------------------------------------------
(* What the replies say.                                                   *)

\* What a request in flight has done so far: nothing before its CAS, its
\* message not before its insert, and a blocker has its pause when it inserts.
Deeds(r) ==
  /\ pc[r] \in {"unborn", "vote", "cas", "recheck", "touch", "revive"} => RowsBy(r) = {}
  /\ pc[r] = "insert" => IF op[r] = "blocker" THEN OwnMove(r) ELSE RowsBy(r) = {}
  /\ pc[r] \in {"unborn", "insert", "vote", "cas", "recheck"} => landed[r] = "none"

\* What RepliesAreHonest says of one request.
Honest(r) ==
  /\ reply[r] = "conflict" => RowsBy(r) = {} /\ landed[r] = "none"
  /\ op[r] = "blocker" /\ landed[r] # "none" => RowsBy(r) # {}
  /\ reply[r] = "ok" /\ op[r] \in {"pause", "wake", "blocker"} => OwnMove(r)
  /\ reply[r] = "ok" /\ op[r] \in {"close", "force"} =>
       \E i \in 1 .. Len(events) : Terminal(events[i].to)

LEMMA HonestAll == (\A r \in Requests : Honest(r)) <=> RepliesAreHonest
BY DEF Honest, RepliesAreHonest

LEMMA RowsByAppend ==
  ASSUME TypeOK, NEW to \in RoomStates, NEW t \in Nat, NEW by \in Requests \cup {Sweeper},
         Commit(state, to, t, by), NEW r \in Requests
  PROVE  RowsBy(r)' = IF r = by THEN RowsBy(r) \cup {Len(events) + 1} ELSE RowsBy(r)
<1> DEFINE n == Len(events)
<1>1. /\ n \in Nat /\ Len(events') = n + 1
      /\ events'[n + 1] = [from |-> state, to |-> to, at |-> t, by |-> by]
      /\ \A i \in 1 .. n : events'[i] = events[i]
  BY CommitAppends
<1>2. events'[n + 1].by = by BY <1>1
<1>3. RowsBy(r)' = {i \in 1 .. n + 1 : events'[i].by = r}
  BY <1>1 DEF RowsBy
<1>4. RowsBy(r) = {i \in 1 .. n : events[i].by = r}
  BY DEF RowsBy
<1> HIDE DEF n
<1>5. \A i \in 1 .. n + 1 : i \in 1 .. n \/ i = n + 1
  BY <1>1
<1>6. \A i \in 1 .. n : i \in 1 .. n + 1 /\ i # n + 1
  BY <1>1
<1>7. n + 1 \in 1 .. n + 1
  BY <1>1
<1>8. RowsBy(r)' = IF r = by THEN RowsBy(r) \cup {n + 1} ELSE RowsBy(r)
  <2>1. CASE r = by
    BY <1>1, <1>2, <1>3, <1>4, <1>5, <1>6, <1>7, <2>1
  <2>2. CASE r # by
    BY <1>1, <1>2, <1>3, <1>4, <1>5, <1>6, <1>7, <2>2
  <2>3. QED BY <2>1, <2>2
<1>9. QED BY <1>8 DEF n

\* The room row is as it was, or somebody else than r has moved it.
OthersStep(r) ==
  \/ UNCHANGED roomVars
  \/ \E to \in RoomStates, t \in Nat, by \in (Requests \cup {Sweeper}) \ {r} :
       Commit(state, to, t, by)

LEMMA OthersKeep ==
  ASSUME TypeOK, NEW r \in Requests, OthersStep(r)
  PROVE  /\ RowsBy(r)' = RowsBy(r)
         /\ OwnMove(r) /\ op'[r] = op[r] => OwnMove(r)'
         /\ (\E i \in 1 .. Len(events) : Terminal(events[i].to))
              => (\E i \in 1 .. Len(events') : Terminal(events'[i].to))
<1>1. CASE UNCHANGED roomVars
  BY <1>1 DEF roomVars, RowsBy, OwnMove, Legal, TransitionTable, Terminal, EventOf
<1>2. CASE ~UNCHANGED roomVars
  <2>1. PICK to \in RoomStates, t \in Nat, by \in (Requests \cup {Sweeper}) \ {r} :
          Commit(state, to, t, by)
    BY <1>2 DEF OthersStep
  <2>2. /\ Len(events) \in Nat /\ Len(events') = Len(events) + 1
        /\ \A i \in 1 .. Len(events) : events'[i] = events[i]
    BY <2>1, CommitAppends
  <2>3. RowsBy(r)' = RowsBy(r)
    BY <2>1, RowsByAppend
  <2>4. \A i \in 1 .. Len(events) : i \in 1 .. Len(events')
    BY <2>2
  <2>5. ASSUME OwnMove(r), op'[r] = op[r] PROVE OwnMove(r)'
    BY <2>2, <2>3, <2>4, <2>5 DEF OwnMove, Legal, TransitionTable, EventOf
  <2>6. QED BY <2>2, <2>3, <2>4, <2>5 DEF Terminal
<1>3. QED BY <1>1, <1>2

\* A request that makes no step keeps what it has done and what it was told.
LEMMA Bystander ==
  ASSUME TypeOK, NEW r \in Requests, Deeds(r), Honest(r), OthersStep(r),
         pc'[r] = pc[r], op'[r] = op[r], reply'[r] = reply[r], landed'[r] = landed[r]
  PROVE  Deeds(r)' /\ Honest(r)'
<1>1. /\ RowsBy(r)' = RowsBy(r)
      /\ OwnMove(r) => OwnMove(r)'
      /\ (\E i \in 1 .. Len(events) : Terminal(events[i].to))
           => (\E i \in 1 .. Len(events') : Terminal(events'[i].to))
  BY OthersKeep
<1>2. Deeds(r)' BY <1>1 DEF Deeds
<1>3. Honest(r)' BY <1>1 DEF Honest, Terminal
<1>4. QED BY <1>2, <1>3

\* The row a CAS appends is the one its operation is for.
LEMMA CasDeed ==
  ASSUME TypeOK, NEW r \in Requests, RowsBy(r) = {}, op'[r] = op[r],
         NEW to \in RoomStates, Legal(state, EventOf(op[r]), to),
         Commit(state, to, at[r], r)
  PROVE  /\ OwnMove(r)' /\ RowsBy(r)' # {}
         /\ op[r] \in {"close", "force"} =>
              \E i \in 1 .. Len(events') : Terminal(events'[i].to)
<1>1. at[r] \in Nat BY DEF TypeOK, RequestTypes
<1>2. RowsBy(r)' = {Len(events) + 1}
  BY <1>1, RowsByAppend
<1>3. /\ Len(events) \in Nat /\ Len(events') = Len(events) + 1
      /\ events'[Len(events) + 1] = [from |-> state, to |-> to, at |-> at[r], by |-> r]
  BY <1>1, CommitAppends
<1>4. Len(events) + 1 \in 1 .. Len(events') BY <1>3
<1>5. OwnMove(r)'
  BY <1>2, <1>3, <1>4 DEF OwnMove, Legal, TransitionTable, EventOf
<1>6. ASSUME op[r] \in {"close", "force"} PROVE Terminal(to)
  BY <1>6 DEF EventOf, Legal, TransitionTable, Terminal
<1>7. QED BY <1>2, <1>3, <1>4, <1>5, <1>6 DEF Terminal

\* A terminal room has the row of its end in the log.
LEMMA EndIsLogged ==
  ASSUME TypeOK, AuditChain, Terminal(state)
  PROVE  \E i \in 1 .. Len(events) : Terminal(events[i].to)
<1>1. events # <<>> /\ events \in Seq(Row)
  BY DEF AuditChain, Terminal, TypeOK, RoomTypes
<1>2. Len(events) \in 1 .. Len(events)
  BY <1>1
<1>3. QED BY <1>1, <1>2 DEF AuditChain

LEMMA HonestActor ==
  ASSUME TypeOK, Positions, AuditChain, NEW r \in Requests, Deeds(r), Honest(r), Handle(r)
  PROVE  Deeds(r)' /\ Honest(r)'
<1> USE DEF TypeOK, RequestTypes
<1>0. op' = op
  BY DEF Handle, Insert, Touch, Revive, Vote, Cas, CasMiss, Recheck
<1>1. ASSUME UNCHANGED roomVars
      PROVE  /\ RowsBy(r)' = RowsBy(r)
             /\ OwnMove(r) => OwnMove(r)'
             /\ (\E i \in 1 .. Len(events) : Terminal(events[i].to))
                  => (\E i \in 1 .. Len(events') : Terminal(events'[i].to))
  BY <1>0, <1>1, OthersKeep DEF OthersStep
<1>2. CASE Insert(r)
  <2>1. UNCHANGED roomVars /\ pc[r] = "insert" /\ reply[r] = "none" /\ landed[r] = "none"
    BY <1>2 DEF Insert, Positions, Deeds
  <2>2. CASE op[r] = "blocker"
    <3>1. OwnMove(r)' /\ RowsBy(r)' # {}
      BY <1>1, <2>1, <2>2 DEF Deeds, OwnMove
    <3>2. pc'[r] = "done" /\ reply'[r] = "ok"
      BY <1>2, <2>2 DEF Insert, Reply
    <3>3. QED BY <1>0, <2>2, <3>1, <3>2 DEF Deeds, Honest
  <2>3. CASE op[r] # "blocker"
    <3>1. RowsBy(r)' = {} /\ op[r] \in {"msg", "signal"}
      BY <1>1, <2>1, <2>3 DEF Deeds, Positions
    <3>2. pc'[r] \in {"touch", "done"} /\ reply'[r] \in {"none", "ok", "conflict"}
          /\ (reply'[r] = "conflict" => landed'[r] = "none")
      BY <1>2, <2>1, <3>1 DEF Insert, Goto, Reply
    <3>3. QED BY <1>0, <3>1, <3>2 DEF Deeds, Honest
  <2>4. QED BY <2>2, <2>3
<1>3. CASE Touch(r)
  <2>1. UNCHANGED roomVars /\ op[r] = "msg" /\ RowsBy(r) = {}
    BY <1>3 DEF Touch, Positions, Deeds
  <2>2. pc'[r] \in {"revive", "done"} /\ reply'[r] \in {"none", "ok"}
    BY <1>3 DEF Touch, Goto, Reply, Positions
  <2>3. QED BY <1>0, <1>1, <2>1, <2>2 DEF Deeds, Honest
<1>4. CASE Revive(r)
  <2>1. op[r] = "msg" /\ pc'[r] = "done" /\ reply'[r] = "ok"
    BY <1>4 DEF Revive, Reply, Positions
  <2>2. QED BY <1>0, <2>1 DEF Deeds, Honest
<1>5. CASE Vote(r)
  <2>1. UNCHANGED roomVars /\ op[r] = "close" /\ RowsBy(r) = {} /\ landed'[r] = "none"
    BY <1>5 DEF Vote, Positions, Deeds
  <2>2. pc'[r] \in {"cas", "done"} /\ reply'[r] \in {"none", "proposed"}
    BY <1>5 DEF Vote, Goto, Reply, Positions
  <2>3. QED BY <1>0, <1>1, <2>1, <2>2 DEF Deeds, Honest
<1>6. CASE Cas(r)
  <2>1. RowsBy(r) = {} /\ landed'[r] = "none" /\ op[r] \in {"blocker", "pause", "wake", "close", "force"}
    BY <1>6 DEF Cas, Positions, Deeds
  <2>2. PICK to \in RoomStates : Legal(seen[r], EventOf(op[r]), to) /\ Commit(seen[r], to, at[r], r)
    BY <1>6 DEF Cas
  <2>3. state = seen[r] BY <2>2 DEF Commit
  <2>4. /\ OwnMove(r)' /\ RowsBy(r)' # {}
        /\ op[r] \in {"close", "force"} =>
              \E i \in 1 .. Len(events') : Terminal(events'[i].to)
    BY <1>0, <2>1, <2>2, <2>3, CasDeed
  <2>5. \/ op[r] = "blocker" /\ pc'[r] = "insert" /\ reply'[r] = "none"
        \/ op[r] # "blocker" /\ pc'[r] = "done" /\ reply'[r] = "ok"
    BY <1>6 DEF Cas, Goto, Reply, Positions
  <2>6. QED BY <1>0, <2>1, <2>4, <2>5 DEF Deeds, Honest
<1>7. CASE CasMiss(r)
  <2>1. UNCHANGED roomVars /\ RowsBy(r) = {} /\ landed'[r] = "none"
    BY <1>7 DEF CasMiss, Miss, Positions, Deeds
  <2>2. pc'[r] \in {"recheck", "done"} /\ reply'[r] \in {"none", "conflict"}
    BY <1>7 DEF CasMiss, Goto, Reply, Positions
  <2>3. QED BY <1>0, <1>1, <2>1, <2>2 DEF Deeds, Honest
<1>8. CASE Recheck(r)
  <2>1. UNCHANGED roomVars /\ RowsBy(r) = {} /\ landed'[r] = "none" /\ op[r] \in {"close", "force"}
    BY <1>8 DEF Recheck, Positions, Deeds
  <2>2. pc'[r] = "done" /\ reply'[r] \in {"ok", "conflict"}
        /\ (reply'[r] = "ok" => Terminal(state))
    BY <1>8 DEF Recheck, Reply
  <2>3. QED BY <1>0, <1>1, <2>1, <2>2, EndIsLogged DEF Deeds, Honest, Terminal
<1>9. QED BY <1>2, <1>3, <1>4, <1>5, <1>6, <1>7, <1>8 DEF Handle

\* A handler of q commits as q, so every other request only stands by.
LEMMA HandleOthers ==
  ASSUME TypeOK, NEW q \in Requests, Handle(q) \/ Cancel(q), NEW r \in Requests \ {q}
  PROVE  /\ OthersStep(r)
         /\ pc'[r] = pc[r] /\ op'[r] = op[r] /\ reply'[r] = reply[r] /\ landed'[r] = landed[r]
<1> USE DEF TypeOK, RequestTypes
<1>1. CASE Revive(q) \/ Cas(q)
  <2>1. at[q] \in Nat OBVIOUS
  <2>2. OthersStep(r)
    BY <1>1, <2>1 DEF Revive, Cas, Miss, Commit, OthersStep
  <2>3. QED BY <1>1, <2>2 DEF Revive, Cas, Goto, Reply
<1>2. CASE Insert(q) \/ Touch(q) \/ Vote(q) \/ CasMiss(q) \/ Recheck(q) \/ Cancel(q)
  BY <1>2 DEF Insert, Touch, Vote, CasMiss, Miss, Recheck, Cancel, Goto, Reply, OthersStep
<1>3. QED BY <1>1, <1>2 DEF Handle

LEMMA HonestStep ==
  ASSUME TypeOK, Positions, AuditChain, [Next]_vars,
         \A r \in Requests : Deeds(r) /\ Honest(r)
  PROVE  \A r \in Requests : (Deeds(r) /\ Honest(r))'
<1> SUFFICES ASSUME NEW r \in Requests PROVE Deeds(r)' /\ Honest(r)'
  OBVIOUS
<1> USE DEF TypeOK, RequestTypes
<1>1. ASSUME NEW q \in Requests, Handle(q) PROVE Deeds(r)' /\ Honest(r)'
  BY <1>1, HonestActor, HandleOthers, Bystander
<1>2. ASSUME NEW q \in Requests, Cancel(q) PROVE Deeds(r)' /\ Honest(r)'
  <2>1. CASE r = q
    <3>1. UNCHANGED <<roomVars, op, landed>> /\ pc'[r] = "done" /\ reply'[r] = "dropped"
      BY <1>2, <2>1 DEF Cancel, Reply
    <3>2. RowsBy(r)' = RowsBy(r) BY <3>1, OthersKeep DEF OthersStep
    <3>3. QED BY <3>1, <3>2 DEF Deeds, Honest
  <2>2. QED BY <1>2, <2>1, HandleOthers, Bystander
<1>3. ASSUME NEW q \in Requests, NEW o \in Ops, NEW p \in Participants, Arrive(q, o, p)
      PROVE  Deeds(r)' /\ Honest(r)'
  <2>1. UNCHANGED <<roomVars, landed>> /\ OthersStep(r)
    BY <1>3 DEF Arrive, OthersStep
  <2>2. CASE r = q
    <3>1. RowsBy(r)' = {} /\ landed'[r] = "none"
      BY <1>3, <2>1, <2>2, OthersKeep DEF Arrive, Deeds
    <3>2. op'[r] = o BY <1>3, <2>2 DEF Arrive
    <3>3. \/ pc'[r] = "done" /\ reply'[r] = "conflict"
          \/ pc'[r] = FirstStep(o) /\ reply'[r] = "none"
      BY <1>3, <2>2 DEF Arrive, Reply, Positions
    <3>4. QED BY <3>1, <3>2, <3>3 DEF Deeds, Honest, FirstStep
  <2>3. CASE r # q
    <3>1. pc'[r] = pc[r] /\ op'[r] = op[r] /\ reply'[r] = reply[r] /\ landed'[r] = landed[r]
      BY <1>3, <2>3 DEF Arrive, Reply
    <3>2. QED BY <2>1, <3>1, Bystander
  <2>4. QED BY <2>2, <2>3
<1>4. CASE Restart
  <2>1. UNCHANGED <<roomVars, op, landed>> /\ OthersStep(r)
    BY <1>4 DEF Restart, OthersStep
  <2>2. CASE InFlight(r)
    <3>1. pc'[r] = "done" /\ reply'[r] = "dropped"
      BY <1>4, <2>2 DEF Restart
    <3>2. RowsBy(r)' = RowsBy(r) BY <2>1, OthersKeep
    <3>3. QED BY <2>1, <3>1, <3>2 DEF Deeds, Honest
  <2>3. CASE ~InFlight(r)
    <3>1. pc'[r] = pc[r] /\ reply'[r] = reply[r]
      BY <1>4, <2>3 DEF Restart
    <3>2. QED BY <2>1, <3>1, Bystander
  <2>4. QED BY <2>2, <2>3
<1>5. CASE UNCHANGED reqVars /\ OthersStep(r)
  BY <1>5, Bystander DEF reqVars
<1>6. CASE SweepApply
  <2>1. sweep.to \in RoomStates /\ sweep.now \in Nat /\ Sweeper # r
    BY RoomLifecycleAssumption DEF SweepTypes
  <2>2. OthersStep(r)
    BY <1>6, <2>1 DEF SweepApply, Commit, Miss, OthersStep
  <2>3. QED BY <1>5, <1>6, <2>2 DEF SweepApply
<1>7. CASE Tick \/ (\E p \in Participants : Poll(p)) \/ SweepList \/ SweepDecide \/ UNCHANGED vars
  BY <1>5, <1>7 DEF Tick, Poll, SweepList, SweepDecide, vars, OthersStep
<1>8. QED BY <1>1, <1>2, <1>3, <1>4, <1>6, <1>7 DEF Next, Sweep

\* What a reply says happened did happen, and a 409 left nothing behind,
\* whatever raced, was dropped or was restarted.
THEOREM RepliesHonest == Spec => []RepliesAreHonest
<1> DEFINE Inv == \A r \in Requests : Deeds(r) /\ Honest(r)
<1>1. Init => Inv
  BY DEF Init, Deeds, Honest, RowsBy
<1>2. TypeOK /\ Positions /\ AuditChain /\ Inv /\ [Next]_vars => Inv'
  BY HonestStep
<1>3. Inv => RepliesAreHonest
  BY HonestAll
<1>4. QED BY <1>1, <1>2, <1>3, TypeCorrect, Located, AuditChainAlways, PTL DEF Spec
=============================================================================
