------------------------------ MODULE PollLoop ------------------------------
(***************************************************************************)
(* `cbc poll`, the client loop that holds the line for an agent            *)
(* (poll_until_event around poll_decision), for both agents of a room and  *)
(* against the server's view of them: who is on the roster, how long ago   *)
(* each one polled, and whether something waits for it.  Each loop's waits *)
(* are what keeps its own agent from looking like a ghost to the other     *)
(* loop, and the other loop decides from that how long it goes on holding. *)
(*                                                                         *)
(* Time is counted in units and relative: ages and countdowns, so that the *)
(* state space is finite without a last moment.  A database call takes no  *)
(* time here (Delivery has their interleavings); parks and sleeps do.      *)
(***************************************************************************)
EXTENDS Integers

CONSTANTS
  Agents,         \* the two agents
  GhostAfter,     \* lifecycle::GHOST_AFTER, in units of time
  Park,           \* poll_cap_secs
  JoinBackoff, StaleBackoff, ErrorBackoff,   \* the command's options
  MaxJoin, MaxStale, MaxPolls,               \* and its budgets; MaxPolls 0 = none,
                                             \* the unbounded MaxStale 0 is left out
  EscalateAfter, QuietCap,                   \* QUIET_ESCALATE_AFTER_SECS, QUIET_BACKOFF_CAP_SECS
  MinSleep,       \* MIN_REPOLL_SLEEP_SECS and MIN_BACKOFF_SECS
  MaxErrors,      \* MAX_CONSECUTIVE_ERRORS
  Hints           \* the values of retry_after, 0 for none

Larger(x, y) == IF x > y THEN x ELSE y

Sleeps == Hints \cup {QuietCap, JoinBackoff, StaleBackoff, MinSleep}

LongestSleep == CHOOSE n \in Sleeps : \A m \in Sleeps : m <= n

ASSUME PollLoopAssumption ==
  /\ \E p, q \in Agents : p # q /\ Agents = {p, q}
  /\ {GhostAfter, Park, JoinBackoff, StaleBackoff, ErrorBackoff, MaxJoin, MaxStale,
      MaxPolls, EscalateAfter, QuietCap, MinSleep, MaxErrors} \subseteq Nat
  /\ Hints \subseteq Nat /\ \E n \in Sleeps : \A m \in Sleeps : m <= n
  /\ MinSleep > 0 /\ MaxErrors > 0 /\ Park > 0 /\ MaxJoin > 0 /\ MaxStale > 0

\* With the default options a loop looks at the room well within GHOST_AFTER: a
\* sleep and a run of parks that all fail together fit into it.
ASSUME HeartbeatAssumption ==
  LongestSleep + MaxErrors * Park + (MaxErrors - 1) * ErrorBackoff <= GhostAfter

VARIABLES
  age,            \* participants: time since last_poll_at, up to Oldest
  left,           \* agents that were pruned
  mail,           \* participants with an unread message
  away,           \* agents whose latest message is a waiting_user
  halted,         \* the room is paused or closed
  pc, timer,      \* each loop: off or gave up on silence, call, parked, sleep;
                  \* and the time until its deadline
  errors, empty, joinWait, staleWait, announced,   \* PollState and error count
  met             \* history: whether a wait of this loop has arrived at the server

roomVars == <<age, left, mail, away, halted>>
budgets  == <<empty, joinWait, staleWait, announced>>
loopVars == <<pc, timer, errors, budgets, met>>
vars == <<roomVars, loopVars>>

\* Ages beyond this are not told apart.
Oldest == GhostAfter + MaxStale + 1

Roster == DOMAIN age
Other(p) == CHOOSE q \in Agents : q # p

Init ==
  /\ age = [p \in {} |-> 0] /\ left = {} /\ mail = {} /\ away = {} /\ halted = FALSE
  /\ pc = [p \in Agents |-> "off"] /\ timer = [p \in Agents |-> 0]
  /\ errors = [p \in Agents |-> 0] /\ empty = [p \in Agents |-> 0]
  /\ joinWait = [p \in Agents |-> 0] /\ staleWait = [p \in Agents |-> 0]
  /\ announced = [p \in Agents |-> FALSE]
  /\ met = [p \in Agents |-> FALSE]

-----------------------------------------------------------------------------
(* The room, as a wait sees it.                                            *)

\* counterpart_is_stale, for two agents.
Silent(p) == Other(p) \in Roster /\ age[Other(p)] > GhostAfter

\* touch_last_poll and the insert of a participant.
Polled(p) == age' = [q \in Roster \cup {p} |-> IF q = p THEN 0 ELSE age[q]]

Join(p) ==
  /\ p \notin Roster \cup left
  /\ Polled(p)
  /\ UNCHANGED <<left, mail, away, halted, loopVars>>

\* prune_room; the pruned agent's handle does not come back.
Prune(p) ==
  /\ p \in Roster /\ age[p] > GhostAfter
  /\ age' = [q \in Roster \ {p} |-> age[q]]
  /\ left' = left \cup {p}
  /\ mail' = mail \ {p}
  /\ UNCHANGED <<away, halted, loopVars>>

\* A msg, or a waiting_user signal; neither proves that its sender polls.
Send(p) ==
  /\ p \in Roster /\ ~halted
  /\ mail' = mail \cup (Roster \ {p})
  /\ away' \in {away \ {p}, away \cup {p}}
  /\ UNCHANGED <<age, left, halted, loopVars>>

Halt ==
  /\ ~halted
  /\ halted' = TRUE
  /\ UNCHANGED <<age, left, mail, away, loopVars>>

-----------------------------------------------------------------------------
(* poll_decision.                                                          *)

QuietBackoff(base, quiet) ==
  Larger(IF quiet < EscalateAfter THEN base ELSE Larger(base, QuietCap), MinSleep)

Goto(p, l, t) ==
  /\ pc' = [pc EXCEPT ![p] = l]
  /\ timer' = [timer EXCEPT ![p] = t]

\* A stale spell is over.
ClearStale(p) ==
  /\ staleWait' = [staleWait EXCEPT ![p] = 0]
  /\ announced' = [announced EXCEPT ![p] = FALSE]

\* The command ends; the next launch starts from PollState::new.
Exit(p, l) ==
  /\ Goto(p, l, 0)
  /\ errors' = [errors EXCEPT ![p] = 0] /\ empty' = [empty EXCEPT ![p] = 0]
  /\ joinWait' = [joinWait EXCEPT ![p] = 0]
  /\ met' = [met EXCEPT ![p] = FALSE]
  /\ ClearStale(p)

\* Keep waiting; the wait was answered, so the run of errors is over.
Hold(p, secs) ==
  /\ Goto(p, "sleep", secs)
  /\ errors' = [errors EXCEPT ![p] = 0]
  /\ met' = [met EXCEPT ![p] = TRUE]

\* Mutant: silence is not cleared by an ordinary timeout.
OnTimeoutKeepsStale(p, h) ==
  IF MaxPolls # 0 /\ empty[p] + 1 >= MaxPolls
  THEN Exit(p, "off")
  ELSE /\ empty' = [empty EXCEPT ![p] = IF MaxPolls = 0 THEN 0 ELSE @ + 1]
       /\ Hold(p, Larger(h, MinSleep))
       /\ UNCHANGED <<joinWait, staleWait, announced>>

\* PausedByTimeout, with the server's hint h; empty_polls counts only towards
\* a bound.
OnTimeout(p, h) ==
  IF MaxPolls # 0 /\ empty[p] + 1 >= MaxPolls
  THEN Exit(p, "off")
  ELSE /\ empty' = [empty EXCEPT ![p] = IF MaxPolls = 0 THEN 0 ELSE @ + 1]
       /\ ClearStale(p)
       /\ Hold(p, Larger(h, MinSleep))
       /\ UNCHANGED joinWait

\* Mutant: a budget that is never compared with.
OnAwaitingUnbounded(p) ==
  LET secs == QuietBackoff(JoinBackoff, joinWait[p])
  IN  /\ joinWait' = [joinWait EXCEPT ![p] = @ + secs]
      /\ Hold(p, secs)
      /\ UNCHANGED <<empty, staleWait, announced>>

\* AwaitingCounterpart: hold through the join, up to the budget.
OnAwaiting(p) ==
  IF joinWait[p] >= MaxJoin
  THEN Exit(p, "off")
  ELSE LET secs == QuietBackoff(JoinBackoff, joinWait[p])
       IN  /\ joinWait' = [joinWait EXCEPT ![p] = @ + secs]
           /\ Hold(p, secs)
           /\ UNCHANGED <<empty, staleWait, announced>>

\* Mutant: the silent spell is announced anew and starts over at each look.
OnStaleAnew(p) ==
  /\ staleWait' = [staleWait EXCEPT ![p] = StaleBackoff]
  /\ announced' = [announced EXCEPT ![p] = TRUE]
  /\ Hold(p, QuietBackoff(StaleBackoff, 0))
  /\ UNCHANGED <<empty, joinWait>>

\* CounterpartStale: hold through the silence, up to the budget.
OnStale(p) ==
  IF staleWait[p] >= MaxStale
  THEN Exit(p, "gave up")
  ELSE LET secs == QuietBackoff(StaleBackoff, staleWait[p])
       IN  /\ staleWait' = [staleWait EXCEPT ![p] = @ + secs]
           /\ announced' = [announced EXCEPT ![p] = TRUE]
           /\ Hold(p, secs)
           /\ UNCHANGED <<empty, joinWait>>

-----------------------------------------------------------------------------
(* poll_until_event around wait_room.                                      *)

Running(p) == pc[p] \in {"call", "parked", "sleep"}

Launch(p) ==
  /\ ~Running(p)
  /\ Goto(p, "call", 0)
  /\ UNCHANGED <<roomVars, errors, budgets, met>>

\* What the gates do with a wait that has arrived.  A halted room and a silent
\* counterpart are drained of a message but not waited for; a lone caller is
\* not even drained; anybody else parks, less long behind an away counterpart.
ParkFor(p) ==
  /\ \E t \in IF Other(p) \in away THEN 1 .. Park ELSE {Park} : Goto(p, "parked", t)
  /\ met' = [met EXCEPT ![p] = TRUE]
  /\ UNCHANGED <<errors, budgets>>

Gates(p) ==
  \/ /\ p \in mail /\ (halted \/ Other(p) \in Roster)
     /\ mail' = mail \ {p}
     /\ Exit(p, "off")
  \/ /\ p \notin mail \/ (~halted /\ Other(p) \notin Roster)
     /\ UNCHANGED mail
     /\ \/ halted /\ Exit(p, "off")
        \/ ~halted /\ Other(p) \notin Roster /\ OnAwaiting(p)
        \/ ~halted /\ Silent(p) /\ Other(p) \notin away /\ OnStale(p)
        \/ /\ ~halted /\ Other(p) \in Roster /\ (Silent(p) => Other(p) \in away)
           /\ ParkFor(p)

\* Mutant: only a wait that gets past the lone-participant gate counts as a
\* poll.
CallTouchesLate(p) ==
  /\ pc[p] = "call" /\ p \in Roster
  /\ IF Other(p) \in Roster THEN Polled(p) ELSE UNCHANGED age
  /\ Gates(p)
  /\ UNCHANGED <<left, away, halted>>

\* The wait arrives: touch_last_poll first, then the gates.
Call(p) ==
  /\ pc[p] = "call" /\ p \in Roster
  /\ Polled(p)
  /\ Gates(p)
  /\ UNCHANGED <<left, away, halted>>

\* The parked wait is answered with a message or with the halted room.
Answered(p) ==
  /\ pc[p] = "parked"
  /\ \/ p \in mail /\ mail' = mail \ {p} /\ Exit(p, "off")
     \/ p \notin mail /\ halted /\ Exit(p, "off") /\ UNCHANGED mail
  /\ UNCHANGED <<age, left, away, halted>>

\* A proposal of the other agent, which has to be live, ends the wait.
Proposed(p) ==
  /\ pc[p] = "parked"
  /\ Other(p) \in Roster /\ ~Silent(p)
  /\ Exit(p, "off")
  /\ UNCHANGED roomVars

\* Its deadline passes: timeout_response looks at the counterpart again.
TimedOut(p) ==
  /\ pc[p] = "parked" /\ timer[p] = 0
  /\ p \notin mail /\ ~halted
  /\ IF Silent(p) /\ Other(p) \notin away
     THEN OnStale(p)
     ELSE \E h \in Hints : OnTimeout(p, h)
  /\ UNCHANGED roomVars

\* The wait fails: the daemon is down or restarting, or the caller is no
\* participant.
WaitFails(p) ==
  /\ pc[p] \in {"call", "parked"}
  /\ IF errors[p] + 1 >= MaxErrors
     THEN Exit(p, "off")
     ELSE /\ errors' = [errors EXCEPT ![p] = @ + 1]
          /\ Goto(p, "sleep", ErrorBackoff)
          /\ UNCHANGED <<budgets, met>>
  /\ UNCHANGED roomVars

Resume(p) ==
  /\ pc[p] = "sleep" /\ timer[p] = 0
  /\ Goto(p, "call", 0)
  /\ UNCHANGED <<roomVars, errors, budgets, met>>

\* The harness ends the background process.
Kill(p) ==
  /\ Running(p)
  /\ Exit(p, "off")
  /\ UNCHANGED roomVars

-----------------------------------------------------------------------------
\* Something a loop does before time goes on: it makes its call, wakes at its
\* deadline, or takes the answer that is there.
Due(p) ==
  \/ pc[p] = "call"
  \/ pc[p] \in {"parked", "sleep"} /\ timer[p] = 0
  \/ pc[p] = "parked" /\ (p \in mail \/ halted)

Tick ==
  /\ \A p \in Agents : ~Due(p)
  /\ age' = [p \in Roster |-> IF age[p] = Oldest THEN Oldest ELSE age[p] + 1]
  /\ timer' = [p \in Agents |-> IF timer[p] = 0 THEN 0 ELSE timer[p] - 1]
  /\ UNCHANGED <<left, mail, away, halted, pc, errors, budgets, met>>

LoopStep(p) ==
  Call(p) \/ Answered(p) \/ TimedOut(p) \/ WaitFails(p) \/ Resume(p)

Next ==
  \/ \E p \in Agents : \/ Join(p) \/ Prune(p) \/ Send(p)
                       \/ Launch(p) \/ LoopStep(p) \/ Proposed(p) \/ Kill(p)
  \/ Halt
  \/ Tick

\* Time passes, and a loop that is due runs; nothing else has to happen.
Fairness ==
  /\ WF_vars(Tick)
  /\ \A p \in Agents : WF_vars(LoopStep(p))

Spec == Init /\ [][Next]_vars /\ Fairness

-----------------------------------------------------------------------------
(* Properties.                                                             *)

\* Every variable has its type and stays within the loop's budgets.
TypeOK ==
  /\ age \in UNION {[S -> 0 .. Oldest] : S \in SUBSET Agents}
  /\ left \subseteq Agents /\ mail \subseteq Roster /\ away \subseteq Agents
  /\ halted \in BOOLEAN
  /\ pc \in [Agents -> {"off", "gave up", "call", "parked", "sleep"}]
  /\ timer \in [Agents -> 0 .. Park + LongestSleep + ErrorBackoff]
  /\ errors \in [Agents -> 0 .. MaxErrors - 1]
  /\ empty \in [Agents -> 0 .. MaxPolls]
  /\ joinWait \in [Agents -> 0 .. MaxJoin + LongestSleep]
  /\ staleWait \in [Agents -> 0 .. MaxStale + LongestSleep]
  /\ announced \in [Agents -> BOOLEAN] /\ met \in [Agents -> BOOLEAN]
  /\ \A p \in Agents : ~Running(p) => ~met[p] /\ ~announced[p]

\* An agent with a loop on the line is no ghost: whatever its waits return,
\* through parks, sleeps and runs of errors, its last poll is never older than
\* GHOST_AFTER, so it is neither called stale nor pruned.
LoopIsNoGhost ==
  \A p \in Roster : met[p] => age[p] <= GhostAfter

\* A loop that gives up on a silent counterpart has been through one unbroken
\* silence: the counterpart has not polled for GHOST_AFTER and then for as
\* long as the loop promises to hold.
GiveUpIsEarned ==
  [][\A p \in Agents :
       Running(p) /\ pc'[p] = "gave up"
         => age[Other(p)] > GhostAfter + MaxStale]_vars

\* A loop does not hold the line for ever for an agent that is gone without
\* having said so: in the end it exits, or the other one's loop runs again,
\* or it holds behind an away signal that stays.
HoldEnds ==
  \A p \in Agents : \/ []<>~Running(p)
                     \/ []<>Running(Other(p))
                     \/ <>[](Other(p) \in away)
=============================================================================
