------------------------------- MODULE Inbox -------------------------------
(***************************************************************************)
(* What a room promises about delivery, without polls, wakeups or races:   *)
(* an append-only log, and for every participant a cursor that starts      *)
(* somewhere in the log and moves, one message at a time, to the next      *)
(* message addressed to that participant.  No message is skipped and none  *)
(* is taken twice.  Delivery, where several waits of one handle race for   *)
(* the cursor, is shown to implement this.                                 *)
(***************************************************************************)
EXTENDS Integers, Sequences

CONSTANTS
  Participants,  \* handles
  Everyone       \* the recipient of a broadcast (recipient IS NULL)

VARIABLES
  log,     \* the room's messages; a message's seq is its index
  cursor   \* last_read_seq of each participants row (partial function)

ivars == <<log, cursor>>

Message == [from : Participants, to : Participants \cup {Everyone}]

\* The WHERE of next_unread: not my own, and to me or to all.
Addressed(m, p) == m.from # p /\ m.to \in {p, Everyone}

\* i is the first message after c that is addressed to p.
IsNext(l, p, c, i) ==
  /\ i \in c + 1 .. Len(l)
  /\ Addressed(l[i], p)
  /\ \A j \in c + 1 .. i - 1 : ~Addressed(l[j], p)

IInit == log = <<>> /\ cursor = [p \in {} |-> 0]

Post(m) == log' = Append(log, m) /\ UNCHANGED cursor

Join(p, start) ==
  /\ p \notin DOMAIN cursor
  /\ cursor' = [q \in DOMAIN cursor \cup {p} |-> IF q = p THEN start ELSE cursor[q]]
  /\ UNCHANGED log

Take(p) ==
  /\ p \in DOMAIN cursor
  /\ \E i \in 1 .. Len(log) :
       /\ IsNext(log, p, cursor[p], i)
       /\ cursor' = [cursor EXCEPT ![p] = i]
  /\ UNCHANGED log

Leave(p) ==
  /\ p \in DOMAIN cursor
  /\ cursor' = [q \in DOMAIN cursor \ {p} |-> cursor[q]]
  /\ UNCHANGED log

INext ==
  \/ \E m \in Message : Post(m)
  \/ \E p \in Participants :
       \/ Take(p) \/ Leave(p)
       \/ \E start \in 0 .. Len(log) : Join(p, start)

ISpec == IInit /\ [][INext]_ivars
=============================================================================
