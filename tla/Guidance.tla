------------------------------ MODULE Guidance ------------------------------
(* Two agents that do what the "next" field of every cbc tool tells them   *)
(* (mcp.rs, wait_status.rs), with the cbc_wait loop and not a background   *)
(* poll, against the daemon, whose requests are one step each here (their  *)
(* steps race in Delivery, Consensus and RoomLifecycle).  A response may   *)
(* be lost after its request took effect, a session may lose its memory    *)
(* and its process, and a silent agent becomes a ghost.  Room states that  *)
(* only time leads to count as "active" or "closed"; every message is a    *)
(* broadcast, as "next" never asks for a recipient.                        *)
EXTENDS Integers, Sequences, FiniteSets

CONSTANTS
  Agents,       \* two: the room is two-party
  Opener,       \* the one that opens the room
  Anchored,     \* the agents that pass their `as` label on every call
  None,         \* a source of identity that is not set
  SoftCap, HardCap, ExtendStep,
  MaxLog,       \* bound: rows in the log
  MaxCap,       \* bound: no vote to extend at or beyond it
  Signals,      \* bound: the sentinels that are posted
  MaxFaults     \* bound: responses lost, restarts and pauses

\* An agent and the number of its process, or 0 under its label.
Instances == Agents \X (0 .. MaxFaults + 1)

\* open_room refuses smaller caps.
ASSUME GuidanceAssumption ==
  /\ \E a, b \in Agents : a # b /\ Agents = {a, b}
  /\ Opener \in Agents /\ Anchored \subseteq Agents /\ None \notin Instances
  /\ SoftCap \in Nat /\ SoftCap >= 2 /\ HardCap \in Nat /\ HardCap >= 1
  /\ ExtendStep \in Nat \ {0}
  /\ Signals \subseteq {"waiting_user", "fold"} /\ {MaxLog, MaxCap, MaxFaults} \subseteq Nat
  /\ HardCap <= MaxCap + ExtendStep

VARIABLES
  room,       \* the rooms row: state and hard_cap
  log,        \* the messages, by seq
  rows,       \* the participants, by instance
  restarts,   \* per agent: how often its process is new
  todo,       \* per agent: what the last "next" told it to do
  owed,       \* per agent: the turn it owes the room
  mute,       \* messages dealt and never to be answered, as the agent was told; the
              \* turn that an agent owes from its join counts as 0
  faults      \* how much of its bound is used up

vars == <<room, log, rows, restarts, todo, owed, mute, faults>>

-----------------------------------------------------------------------------
(* Identity.                                                               *)

\* The first of four sources of identity that is set.
FirstSet(s) == s[CHOOSE n \in 1 .. 4 : s[n] # None /\ \A k \in 1 .. n - 1 : s[k] = None]

\* Mutant: the session outranks the label.
ResolveBySession(explicit, cbc, session, floor) == FirstSet(<<session, explicit, cbc, floor>>)

\* resolve_instance: the first source that is set.
ResolveInstance(explicit, cbc, session, floor) == FirstSet(<<explicit, cbc, session, floor>>)

\* detect_instance, with no CBC_INSTANCE.  The label outlives the process; the
\* session id and the pid, of which one stands for both, do not.
Instance(a) ==
  ResolveInstance(IF a \in Anchored THEN <<a, 0>> ELSE None, None,
                  <<a, restarts[a] + 1>>, <<a, restarts[a] + 1>>)

Member(a) == Instance(a) \in DOMAIN rows

RowsOf(a) == {i \in DOMAIN rows : i[1] = a}

-----------------------------------------------------------------------------
(* What the daemon computes.                                               *)

Kinds == {"msg", "waiting_user", "fold", "extend"}

Entry(i, k, h) == [from |-> i, kind |-> k, human |-> h]

Autonomous(l, n) == l[n].kind = "msg" /\ ~l[n].human

\* The rows that end a run of autonomous turns.
Breaks(l, n) == (l[n].kind = "msg" /\ l[n].human) \/ l[n].kind = "waiting_user"

\* consecutive_msg_count: the autonomous turns up to n since the last break.
Run(l, n) ==
  Cardinality({k \in 1 .. n : Autonomous(l, k) /\ \A b \in k .. n : ~Breaks(l, b)})

\* Mutant: the run is counted to the end of the log, not to the message dealt.
SurfacesByHead(n) == Run(log, Len(log)) = SoftCap - 1

\* The soft-cap signal of a delivery, computed when it is read.
Surfaces(n) == Run(log, n) = SoftCap - 1

CappedMessages == Cardinality({n \in 1 .. Len(log) : log[n].kind = "msg"})

Unread(i) == {n \in rows[i].cursor + 1 .. Len(log) : log[n].from # i}

FirstUnread(i) == CHOOSE n \in Unread(i) : \A k \in Unread(i) : n <= k

Live(r) == {i \in DOMAIN r : ~r[i].dark}

\* The quorum of the votes, "all" by default.
CloseAgreed(r)  == \A i \in Live(r) : r[i].close
ExtendAgreed(r) == \A i \in Live(r) : r[i].extend

CloseProposed(i) == ~rows[i].close /\ \E j \in Live(rows) \ {i} : rows[j].close

ExtendProposed(i) == ~rows[i].extend /\ \E j \in Live(rows) \ {i} : rows[j].extend

Halted == room.state \in {"paused", "closed"}

\* A request that proves its sender alive, and what it changes in its row.
Row(i, f) == [rows EXCEPT ![i] = f]

Voting(i, close, extend) ==
  Row(i, [rows[i] EXCEPT !.dark = FALSE, !.close = @ \/ close, !.extend = @ \/ extend])

\* The status of a wait that has no message to deliver.
Status(i) ==
  IF Halted THEN room.state
  ELSE IF DOMAIN rows = {i} THEN "awaiting_counterpart"
  ELSE IF CloseProposed(i) THEN "close_proposed"
  ELSE IF ExtendProposed(i) THEN "extend_proposed"
  ELSE IF Live(rows) \subseteq {i} THEN "counterpart_stale"
  ELSE "paused_by_timeout"

-----------------------------------------------------------------------------
(* The answer to a call.                                                   *)

\* The response arrives, and the agent goes on with "next" ...
Told(a, step, debt) ==
  /\ todo' = [todo EXCEPT ![a] = step]
  /\ owed' = [owed EXCEPT ![a] = debt]
  /\ UNCHANGED faults

\* ... or it is lost: the tool returns an error and the agent calls again.
Unheard(a) ==
  /\ faults < MaxFaults
  /\ faults' = faults + 1
  /\ UNCHANGED <<todo, owed>>

Answer(a, step, debt) == Told(a, step, debt) \/ Unheard(a)

\* WaitStatus: what a wait without a message may report.  The first three are
\* not a stop.
Holds      == {"paused_by_timeout", "awaiting_counterpart", "counterpart_stale"}
WaitStatus == Holds \cup {"close_proposed", "extend_proposed", "paused", "closed", "archived"}

\* The status travels as text; what the client does not know it does not follow.
FromWire(text) == IF text \in WaitStatus THEN text ELSE "unknown"

\* The guidance of a wait status.
Guidance(status) ==
  CASE status = "close_proposed"  -> "close or talk"
    [] status = "extend_proposed" -> "extend or talk"
    [] status \in Holds           -> "wait"
    [] OTHER                      -> "stop"

\* wait_next for a delivery: surfaced, the next turn is the user's.
Debt(a, n) == IF Surfaces(n) \/ owed[a] = "human" THEN "human" ELSE "turn"

-----------------------------------------------------------------------------
(* The tools.                                                              *)

\* cbc_open_room: go on and join.  (If the response is lost, the room stays
\* unused and the agent opens another.)
Open ==
  /\ todo[Opener] = "open"
  /\ room' = [state |-> "active", cap |-> HardCap]
  /\ Told(Opener, "join", "none")
  /\ UNCHANGED <<log, rows, restarts, mute>>

\* The user pastes the room id to the other agent.
Paste(a) ==
  /\ todo[a] = "idle" /\ room.state # "none"
  /\ Told(a, "join", "none")
  /\ UNCHANGED <<room, log, rows, restarts, mute>>

\* join_next: first recap, then a turn; the poll it asks for is the wait loop here.
JoinNext(a) == Answer(a, "recap", "turn")

\* send_next: await the reply.
SendNext(a) == Answer(a, "wait", "none")

\* cbc_join_room: a known instance resumes its row, a new one starts at the head
\* of the log; either way the agent is told to recap and then to send.
Join(a) ==
  /\ todo[a] = "join"
  /\ LET i     == Instance(a)
         fresh == [cursor |-> Len(log), start |-> Len(log),
                   dark |-> FALSE, close |-> FALSE, extend |-> FALSE]
     IN  rows' = [j \in DOMAIN rows \cup {i} |-> IF j \in DOMAIN rows THEN rows[j] ELSE fresh]
  /\ JoinNext(a)
  /\ UNCHANGED <<room, log, restarts, mute>>

\* cbc_recap shows the whole log, whatever the cursor, and moves no cursor.
Recap(a) ==
  /\ todo[a] = "recap"
  /\ Told(a, "talk", owed[a])
  /\ UNCHANGED <<room, log, rows, restarts, mute>>

MayTalk(a) == todo[a] \in {"talk", "close or talk", "extend or talk"}

\* cbc_send: refused in a halted room and at the hard cap; a turn that lands takes
\* back the sender's own votes.
Send(a) ==
  /\ MayTalk(a)
  /\ LET i == Instance(a)
     IN  \/ Halted /\ Told(a, "stop", owed[a]) /\ UNCHANGED <<log, rows>>
         \/ /\ ~Halted /\ CappedMessages >= room.cap
            /\ Told(a, "capped", owed[a])
            /\ UNCHANGED <<log, rows>>
         \/ /\ ~Halted /\ CappedMessages < room.cap /\ Len(log) < MaxLog
            /\ log' = Append(log, Entry(i, "msg", owed[a] = "human"))
            /\ rows' = Row(i, [rows[i] EXCEPT !.close = FALSE, !.extend = FALSE])
            /\ SendNext(a)
  /\ UNCHANGED <<room, restarts, mute>>

\* cbc_signal: uncapped, clears no vote, and the turn is still owed; after
\* waiting_user it is the user's.
Signal(a, kind) ==
  /\ todo[a] = "talk"
  /\ \/ Halted /\ Told(a, "stop", owed[a]) /\ UNCHANGED log
     \/ /\ ~Halted /\ Len(log) < MaxLog
        /\ log' = Append(log, Entry(Instance(a), kind, FALSE))
        /\ Answer(a, "talk", IF kind = "waiting_user" THEN "human" ELSE owed[a])
  /\ UNCHANGED <<room, rows, restarts, mute>>

\* The delivery of message n to i: a message of a halted room cannot be answered.
Deliver(a, i, n) ==
  /\ rows' = Row(i, [rows[i] EXCEPT !.dark = FALSE, !.cursor = n])
  /\ \/ /\ ~Halted
        /\ Told(a, "recap", Debt(a, n))
        /\ UNCHANGED mute
     \/ /\ Halted
        /\ Told(a, "wait", owed[a])
        /\ mute' = mute \cup {n}
     \/ Unheard(a) /\ mute' = mute \cup {n}

\* cbc_wait: alone in the room nothing is claimed; else the first unread message,
\* also when the room is halted; else a status.
Wait(a) ==
  /\ todo[a] = "wait"
  /\ LET i == Instance(a)
     IN  IF Unread(i) # {} /\ (Halted \/ DOMAIN rows # {i})
         THEN Deliver(a, i, FirstUnread(i))
         ELSE /\ rows' = Voting(i, FALSE, FALSE)
              /\ Told(a, Guidance(FromWire(Status(i))), owed[a])
              /\ UNCHANGED mute
  /\ UNCHANGED <<room, log, restarts>>

\* cbc_close: a vote, by an agent that is done or agrees; refused when closed.
\* A turn that is the user's is still owed if the room goes on.
Close(a) ==
  /\ \/ todo[a] \in {"close or talk", "extend or talk", "capped"}
     \/ todo[a] = "talk" /\ owed[a] # "human"
  /\ LET i   == Instance(a)
         r   == Voting(i, TRUE, FALSE)
         due == IF owed[a] = "human" THEN "human" ELSE "none"
     IN  \/ room.state = "closed" /\ Told(a, "stop", owed[a]) /\ UNCHANGED <<room, rows>>
         \/ /\ room.state # "closed" /\ CloseAgreed(r)
            /\ room' = [room EXCEPT !.state = "closed"]
            /\ rows' = [j \in DOMAIN r |-> [r[j] EXCEPT !.close = FALSE]]
            /\ Answer(a, "stop", due)
         \/ /\ room.state # "closed" /\ ~CloseAgreed(r)
            /\ rows' = r
            /\ Answer(a, "wait", due)
            /\ UNCHANGED room
  /\ UNCHANGED <<log, restarts, mute>>

\* Mutant: the cap is raised and nobody is told.
AnnouncedNot(i) == log

\* The extend message: it is a turn to read, and no capped one.
Announced(i) == Append(log, Entry(i, "extend", FALSE))

\* extend_room: the deciding vote raises the cap, clears the votes and posts the
\* message that sends the proposer back to its turn, unless the handler is cut off
\* before the post.
ExtendRoom(a, i) ==
  LET r == Voting(i, FALSE, TRUE)
  IN  \/ Halted /\ Told(a, "stop", owed[a]) /\ UNCHANGED <<room, log, rows>>
      \/ /\ ~Halted /\ ExtendAgreed(r) /\ room.cap < MaxCap /\ Len(log) < MaxLog
         /\ room' = [room EXCEPT !.cap = @ + ExtendStep]
         /\ rows' = [j \in DOMAIN r |-> [r[j] EXCEPT !.extend = FALSE]]
         /\ \/ /\ log' = Announced(i)
               /\ Answer(a, IF owed[a] = "none" THEN "wait" ELSE "talk", owed[a])
            \/ Unheard(a) /\ UNCHANGED log
      \/ /\ ~Halted /\ ~ExtendAgreed(r) /\ room.cap < MaxCap
         /\ rows' = r
         /\ Answer(a, "wait", owed[a])
         /\ UNCHANGED <<room, log>>

\* cbc_extend: at the wall, or in answer to a proposal.
Extend(a) ==
  /\ todo[a] \in {"capped", "extend or talk"}
  /\ ExtendRoom(a, Instance(a))
  /\ UNCHANGED <<restarts, mute>>

\* cbc_pause, at the wish of the user.
Pause(a) ==
  /\ todo[a] \in {"talk", "wait"} /\ room.state = "active"
  /\ faults < MaxFaults
  /\ faults' = faults + 1
  /\ room' = [room EXCEPT !.state = "paused"]
  /\ todo' = [todo EXCEPT ![a] = "stop"]
  /\ UNCHANGED <<log, rows, restarts, owed, mute>>

\* cbc_wake, likewise: the agent resumes the loop where it left it; in a room that
\* is active already it is to "just resume cbc_wait", whatever it owes.
Wake(a) ==
  /\ todo[a] = "stop" /\ room.state \in {"paused", "active"}
  /\ \/ /\ room.state = "paused"
        /\ room' = [room EXCEPT !.state = "active"]
        /\ Answer(a, IF owed[a] = "none" THEN "wait" ELSE "talk", owed[a])
        /\ UNCHANGED mute
     \/ /\ room.state = "active"
        /\ Told(a, "wait", "none")
        /\ mute' = IF owed[a] = "none" THEN mute ELSE mute \cup 0 .. Len(log)
        /\ UNCHANGED room
  /\ UNCHANGED <<log, rows, restarts>>

-----------------------------------------------------------------------------
(* What happens to an agent.                                               *)

\* The session is started anew, without its memory; its user names the room again.
Restart(a) ==
  /\ todo[a] \notin {"idle", "open"} /\ room.state # "closed"
  /\ faults < MaxFaults
  /\ faults' = faults + 1
  /\ restarts' = [restarts EXCEPT ![a] = @ + 1]
  /\ mute' = IF owed[a] = "human" THEN mute \cup 1 .. Len(log) ELSE mute
  /\ todo' = [todo EXCEPT ![a] = "join"]
  /\ owed' = [owed EXCEPT ![a] = "none"]
  /\ UNCHANGED <<room, log, rows>>

\* Fifteen minutes without a poll, a close vote or an extend vote.
GoDark(i) ==
  /\ \A a \in Agents : Instance(a) = i => todo[a] # "wait"
  /\ ~rows[i].dark
  /\ rows' = [rows EXCEPT ![i].dark = TRUE]
  /\ UNCHANGED <<room, log, restarts, todo, owed, mute, faults>>

Init ==
  /\ room = [state |-> "none", cap |-> HardCap]
  /\ log = <<>> /\ rows = [i \in {} |-> {}]
  /\ restarts = [a \in Agents |-> 0]
  /\ todo = [a \in Agents |-> IF a = Opener THEN "open" ELSE "idle"]
  /\ owed = [a \in Agents |-> "none"]
  /\ mute = {} /\ faults = 0

Next ==
  \/ Open
  \/ \E a \in Agents :
       \/ Paste(a) \/ Join(a) \/ Recap(a) \/ Send(a) \/ Wait(a) \/ Close(a) \/ Extend(a)
       \/ \E k \in Signals : Signal(a, k)
       \/ Pause(a) \/ Wake(a) \/ Restart(a)
  \/ \E i \in DOMAIN rows : GoDark(i)

Spec == Init /\ [][Next]_vars

-----------------------------------------------------------------------------
(* Properties.                                                             *)

\* An agent that passes its label is one participant through every restart
\* (detect_instance: "stable across that agent's calls"); the rest are types.
TypeOK ==
  /\ \A a \in Anchored : RowsOf(a) \subseteq {<<a, 0>>}
  /\ room.state \in {"none", "active", "paused", "closed"}
  /\ room.cap \in HardCap .. MaxCap + ExtendStep
  /\ log \in Seq([from : Instances, kind : Kinds, human : BOOLEAN]) /\ Len(log) <= MaxLog
  /\ DOMAIN rows \subseteq Instances
  /\ \A i \in DOMAIN rows :
       rows[i] \in [cursor : 0 .. Len(log), start : 0 .. Len(log),
                    dark : BOOLEAN, close : BOOLEAN, extend : BOOLEAN]
  /\ restarts \in [Agents -> 0 .. MaxFaults]
  /\ todo \in [Agents -> {"idle", "open", "join", "recap", "talk", "wait", "capped",
                          "close or talk", "extend or talk", "stop"}]
  /\ owed \in [Agents -> {"none", "turn", "human"}]
  /\ mute \subseteq 0 .. Len(log)
  /\ faults \in 0 .. MaxFaults

\* The agents do not run past the soft cap on their own: once there are SoftCap
\* autonomous turns in a row, the turn before them is either unread by its reader,
\* or that reader owes the user's answer; unless it was in the log when the reader
\* joined, or was dealt in a way that does not tell the reader (a lost response, a
\* halted room, a session that lost its memory): see mute.
ConsultedInTime ==
  \A a \in Agents, n \in 1 .. Len(log) :
    LET i == Instance(a)
    IN  /\ Member(a) /\ log[n].from[1] # a
        /\ Autonomous(log, n) /\ Run(log, n) = SoftCap - 1
        /\ \A b \in n .. Len(log) : ~Breaks(log, b)
        /\ Run(log, Len(log)) >= SoftCap
        => \/ rows[i].cursor < n
           \/ owed[a] = "human"
           \/ n <= rows[i].start
           \/ n \in mute

\* The agents never wait for each other: while both are in the loop of an active
\* room, one of them has a message or a proposal to learn of from its next wait,
\* also when a request took effect in part and was sent again; unless an agent was
\* dealt a message without the instruction to answer it, or told to wait instead
\* (see mute), or one without a label has left a row of its own behind.
FloorIsHeld ==
  /\ room.state = "active" /\ mute = {}
  /\ \A a \in Agents : Member(a) /\ Cardinality(RowsOf(a)) = 1
  /\ \A a \in Agents : todo[a] = "wait"
  => \E a \in Agents :
       LET i == Instance(a)
       IN  \/ Unread(i) # {}
           \/ ~rows[i].close /\ \E j \in DOMAIN rows \ {i} : rows[j].close
           \/ ~rows[i].extend /\ \E j \in DOMAIN rows \ {i} : rows[j].extend

\* "Fold signaled - the soft-cap counter is reset" (mcp.rs).
FoldResets ==
  [][Len(log') > Len(log) /\ log'[Len(log')].kind = "fold" => Run(log', Len(log')) = 0]_vars
=============================================================================
