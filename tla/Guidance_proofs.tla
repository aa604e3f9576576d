--------------------------- MODULE Guidance_proofs ---------------------------
(* Proofs about Guidance, for any two agents, caps and bounds: the types,   *)
(* with one participant per label; that the two agents never wait for each  *)
(* other; and that neither runs past the soft cap without its user.         *)
(*                                                                          *)
(* The argument about the floor follows the turn.  An agent that has read   *)
(* a message owes a turn, and a turn ends in a message, a vote or a debt    *)
(* that is kept, so that one of the two always has something to do or       *)
(* something to read.                                                       *)
EXTENDS Guidance, FiniteSetTheorems, WellFoundedInduction, TLAPS

-----------------------------------------------------------------------------
(* The invariants.                                                          *)

Steps == {"idle", "open", "join", "recap", "talk", "wait", "capped",
          "close or talk", "extend or talk", "stop"}

\* An agent that is not in the room yet, or not again.
Outside == {"idle", "open", "join"}

Debts == {"none", "turn", "human"}

Participant == [cursor : Nat, start : Nat, dark : BOOLEAN, close : BOOLEAN, extend : BOOLEAN]

Message == [from : Instances, kind : Kinds, human : BOOLEAN]

RoomOK == room \in [state : {"none", "active", "paused", "closed"},
                    cap : HardCap .. MaxCap + ExtendStep]

LogOK == log \in Seq(Message) /\ Len(log) <= MaxLog /\ mute \subseteq 0 .. Len(log)

\* A row was joined by a process that has been, under its agent's identity, and
\* nobody has read beyond the log.
RowsOK ==
  /\ rows \in [DOMAIN rows -> Participant]
  /\ DOMAIN rows \subseteq Instances
  /\ \A i \in DOMAIN rows :
       /\ rows[i].cursor <= Len(log) /\ rows[i].start <= Len(log)
       /\ i[1] \in Anchored => i[2] = 0
       /\ i[2] <= restarts[i[1]] + 1

AgentsOK ==
  /\ restarts \in [Agents -> 0 .. MaxFaults] /\ \A a \in Agents : restarts[a] <= faults
  /\ todo \in [Agents -> Steps] /\ owed \in [Agents -> Debts]
  /\ faults \in 0 .. MaxFaults

\* Where an agent is in the protocol says whether it has a row and owes a turn.
PlacedFor(a) ==
  /\ todo[a] \notin Outside => Member(a)
  /\ todo[a] \in Outside => owed[a] = "none"
  /\ todo[a] \in {"recap", "talk"} => owed[a] # "none"
  /\ todo[a] \notin {"idle", "open"} => room.state # "none"

Placed == \A a \in Agents : PlacedFor(a)

Inv == RoomOK /\ LogOK /\ RowsOK /\ AgentsOK /\ Placed

\* The two agents are in the room, each with one row, and each message that was
\* dealt is to be answered.
Settled ==
  /\ room.state # "closed" /\ mute = {}
  /\ \A a \in Agents : todo[a] \notin Outside /\ RowsOf(a) = {Instance(a)}

Mail == \E a \in Agents : Unread(Instance(a)) # {}

CloseVote == \E i \in DOMAIN rows : rows[i].close

ExtendVote == \E i \in DOMAIN rows : rows[i].extend

\* Two votes of two participants are a quorum.
NotBoth ==
  \A i, j \in DOMAIN rows :
    i # j /\ DOMAIN rows = {i, j}
      => ~(rows[i].close /\ rows[j].close) /\ ~(rows[i].extend /\ rows[j].extend)

\* The agent is about to do something else than to wait.
Busy(a) ==
  \/ owed[a] # "none" /\ todo[a] # "wait"
  \/ todo[a] \in {"capped", "close or talk", "extend or talk"} /\ room.state = "active"

\* With nothing to read and no debt there is a vote to close.
NoDebt == Settled /\ (\A a \in Agents : owed[a] = "none") => Mail \/ CloseVote

\* There is something to read or to agree to, or somebody is about to act.
Floor == Settled => Mail \/ CloseVote \/ ExtendVote \/ \E a \in Agents : Busy(a)

FloorOK == NotBoth /\ NoDebt /\ Floor

\* A turn that reached the soft cap is the user's until the user has been heard,
\* also before the other agent has said anything more.
ConsultedFor(a, n) ==
  LET i == Instance(a)
  IN  /\ Member(a) /\ log[n].from[1] # a
      /\ Autonomous(log, n) /\ Run(log, n) = SoftCap - 1
      /\ \A b \in n .. Len(log) : ~Breaks(log, b)
      => rows[i].cursor < n \/ owed[a] = "human" \/ n <= rows[i].start \/ n \in mute

Consulted == \A a \in Agents, n \in 1 .. Len(log) : ConsultedFor(a, n)


-----------------------------------------------------------------------------
(* The constants and the identities.                                        *)

LEMMA ConstantTypes ==
  /\ SoftCap \in Nat /\ SoftCap >= 2 /\ HardCap \in Nat /\ HardCap >= 1
  /\ ExtendStep \in Nat /\ ExtendStep > 0
  /\ MaxLog \in Nat /\ MaxCap \in Nat /\ MaxFaults \in Nat /\ HardCap <= MaxCap + ExtendStep
  /\ Anchored \subseteq Agents /\ Opener \in Agents
BY GuidanceAssumption

\* resolve_instance takes the label when there is one, and the session else.
LEMMA InstanceIs ==
  ASSUME NEW a \in Agents, AgentsOK
  PROVE  Instance(a) = <<a, IF a \in Anchored THEN 0 ELSE restarts[a] + 1>>
<1> DEFINE x == IF a \in Anchored THEN <<a, 0>> ELSE None
           y == <<a, restarts[a] + 1>>
           s == <<x, None, y, y>>
           First(n) == s[n] # None /\ \A k \in 1 .. n - 1 : s[k] = None
<1>1. <<a, 0>> \in Instances /\ y \in Instances /\ None \notin Instances
  <2>1. restarts[a] \in 0 .. MaxFaults /\ MaxFaults \in Nat
    BY ConstantTypes DEF AgentsOK
  <2>2. 0 \in 0 .. MaxFaults + 1 /\ restarts[a] + 1 \in 0 .. MaxFaults + 1
    BY <2>1
  <2> QED
    BY <2>2, GuidanceAssumption DEF Instances
<1>2. Instance(a) = s[CHOOSE n \in 1 .. 4 : First(n)]
  BY DEF Instance, ResolveInstance, FirstSet
<1>3. s[1] = x /\ s[2] = None /\ s[3] = y /\ s[4] = y
  OBVIOUS
<1> HIDE DEF s
<1>4. CASE a \in Anchored
  <2>1. x # None
    BY <1>1, <1>4
  <2>2. First(1)
    BY <1>3, <2>1
  <2>3. \A n \in 1 .. 4 : First(n) => n = 1
    BY <1>3, <2>1
  <2>4. (CHOOSE n \in 1 .. 4 : First(n)) = 1
    BY <2>2, <2>3
  <2> QED
    BY <1>2, <1>3, <1>4, <2>4
<1>5. CASE a \notin Anchored
  <2>1. x = None /\ y # None
    BY <1>1, <1>5
  <2>2. First(3)
    BY <1>3, <2>1
  <2>3. \A n \in 1 .. 4 : First(n) => n = 3
    BY <1>3, <2>1
  <2>4. (CHOOSE n \in 1 .. 4 : First(n)) = 3
    BY <2>2, <2>3
  <2> QED
    BY <1>2, <1>3, <1>5, <2>4
<1> QED
  BY <1>4, <1>5

\* The same of the next state.
Identified ==
  \A a \in Agents : Instance(a) = <<a, IF a \in Anchored THEN 0 ELSE restarts[a] + 1>>

LEMMA InstanceIsNext == AgentsOK' => Identified'
<1>1. AgentsOK => Identified
  BY InstanceIs DEF Identified
<1> QED
  BY <1>1, PTL

LEMMA InstanceFacts ==
  ASSUME NEW a \in Agents, AgentsOK
  PROVE  /\ Instance(a) \in Instances /\ Instance(a)[1] = a
         /\ a \in Anchored => Instance(a)[2] = 0
         /\ Instance(a)[2] <= restarts[a] + 1 /\ restarts[a] \in Nat
<1>1. restarts[a] \in 0 .. MaxFaults /\ MaxFaults \in Nat
  BY ConstantTypes DEF AgentsOK
<1>2. restarts[a] \in Nat /\ 0 \in 0 .. MaxFaults + 1 /\ restarts[a] + 1 \in 0 .. MaxFaults + 1
  BY <1>1
<1>3. CASE a \in Anchored
  <2>1. Instance(a) = <<a, 0>>
    BY <1>3, InstanceIs
  <2> QED
    BY <1>2, <1>3, <2>1 DEF Instances
<1>4. CASE a \notin Anchored
  <2>1. Instance(a) = <<a, restarts[a] + 1>>
    BY <1>4, InstanceIs
  <2> QED
    BY <1>2, <1>4, <2>1 DEF Instances
<1> QED
  BY <1>3, <1>4

\* An agent that has not been restarted is who it was.
LEMMA SameInstance ==
  ASSUME NEW a \in Agents, restarts'[a] = restarts[a]
  PROVE  Instance(a)' = Instance(a)
BY DEF Instance


-----------------------------------------------------------------------------
(* The parts of a step.                                                     *)

\* Nobody else is told anything.
Others(a) ==
  /\ todo' \in [Agents -> Steps] /\ owed' \in [Agents -> Debts]
  /\ \A b \in Agents : b # a => todo'[b] = todo[b] /\ owed'[b] = owed[b]

Goes(a, step, debt) == todo'[a] = step /\ owed'[a] = debt

\* The bound on faults, and what of it is left.
FaultsGrow == faults' \in 0 .. MaxFaults /\ faults <= faults'

LEMMA FaultsStay == ASSUME AgentsOK, UNCHANGED faults PROVE FaultsGrow
<1>1. faults \in 0 .. MaxFaults /\ MaxFaults \in Nat
  BY ConstantTypes DEF AgentsOK
<1> QED
  BY <1>1 DEF FaultsGrow

LEMMA OneFault == ASSUME AgentsOK, faults < MaxFaults, faults' = faults + 1 PROVE FaultsGrow
<1>1. faults \in 0 .. MaxFaults /\ MaxFaults \in Nat
  BY ConstantTypes DEF AgentsOK
<1> QED
  BY <1>1 DEF FaultsGrow

LEMMA ToldFacts ==
  ASSUME AgentsOK, NEW a \in Agents, NEW step \in Steps, NEW debt \in Debts, Told(a, step, debt)
  PROVE  Others(a) /\ Goes(a, step, debt) /\ FaultsGrow
<1>1. FaultsGrow
  BY FaultsStay DEF Told
<1>2. todo \in [Agents -> Steps] /\ owed \in [Agents -> Debts]
  BY DEF AgentsOK
<1> QED
  BY <1>1, <1>2 DEF Told, Others, Goes

LEMMA UnheardFacts ==
  ASSUME AgentsOK, NEW a \in Agents, Unheard(a)
  PROVE  Others(a) /\ Goes(a, todo[a], owed[a]) /\ FaultsGrow
<1>1. FaultsGrow
  BY OneFault DEF Unheard
<1>2. todo \in [Agents -> Steps] /\ owed \in [Agents -> Debts]
  BY DEF AgentsOK
<1> QED
  BY <1>1, <1>2 DEF Unheard, Others, Goes

LEMMA AnswerFacts ==
  ASSUME AgentsOK, NEW a \in Agents, NEW step \in Steps, NEW debt \in Debts, Answer(a, step, debt)
  PROVE  Others(a) /\ FaultsGrow /\ (Goes(a, step, debt) \/ Goes(a, todo[a], owed[a]))
BY ToldFacts, UnheardFacts DEF Answer

\* Everybody has read what they had read.
SameReads ==
  /\ DOMAIN rows' = DOMAIN rows /\ rows' \in [DOMAIN rows -> Participant]
  /\ \A j \in DOMAIN rows : rows'[j].cursor = rows[j].cursor /\ rows'[j].start = rows[j].start

\* Everybody else has the votes they had.
VotesOf(j) == rows'[j].close = rows[j].close /\ rows'[j].extend = rows[j].extend

OtherVotes(i) == \A j \in DOMAIN rows : j # i => VotesOf(j)

LEMMA RowFacts ==
  ASSUME RowsOK, NEW i \in DOMAIN rows, NEW f \in Participant
  PROVE  /\ Row(i, f) \in [DOMAIN rows -> Participant] /\ DOMAIN Row(i, f) = DOMAIN rows
         /\ Row(i, f)[i] = f /\ \A j \in DOMAIN rows : j # i => Row(i, f)[j] = rows[j]
BY DEF RowsOK, Row

LEMMA VotingFacts ==
  ASSUME RowsOK, NEW i \in DOMAIN rows, NEW close \in BOOLEAN, NEW extend \in BOOLEAN
  PROVE  LET r == Voting(i, close, extend)
         IN  /\ r \in [DOMAIN rows -> Participant] /\ DOMAIN r = DOMAIN rows
             /\ ~r[i].dark
             /\ r[i].close = (rows[i].close \/ close) /\ r[i].extend = (rows[i].extend \/ extend)
             /\ r[i].cursor = rows[i].cursor /\ r[i].start = rows[i].start
             /\ \A j \in DOMAIN rows : j # i => r[j] = rows[j]
<1> DEFINE f == [rows[i] EXCEPT !.dark = FALSE, !.close = @ \/ close, !.extend = @ \/ extend]
<1>1. rows[i] \in Participant
  BY DEF RowsOK
<1>2. /\ f \in Participant /\ ~f.dark
      /\ f.close = (rows[i].close \/ close) /\ f.extend = (rows[i].extend \/ extend)
      /\ f.cursor = rows[i].cursor /\ f.start = rows[i].start
  BY <1>1 DEF Participant
<1>3. Voting(i, close, extend) = Row(i, f)
  BY DEF Voting
<1> HIDE DEF f
<1> QED
  BY <1>2, <1>3, RowFacts

\* The votes of one kind are all taken back.
LEMMA CloseCleared ==
  ASSUME NEW r, r \in [DOMAIN rows -> Participant], DOMAIN r = DOMAIN rows,
         rows' = [j \in DOMAIN r |-> [r[j] EXCEPT !.close = FALSE]]
  PROVE  /\ DOMAIN rows' = DOMAIN rows /\ rows' \in [DOMAIN rows -> Participant]
         /\ \A j \in DOMAIN rows : /\ rows'[j].cursor = r[j].cursor /\ rows'[j].start = r[j].start
                                   /\ rows'[j].extend = r[j].extend /\ ~rows'[j].close
<1>1. \A j \in DOMAIN rows : rows'[j] = [r[j] EXCEPT !.close = FALSE] /\ r[j] \in Participant
  OBVIOUS
<1>2. \A j \in DOMAIN rows :
        /\ rows'[j] \in Participant
        /\ rows'[j].cursor = r[j].cursor /\ rows'[j].start = r[j].start
        /\ rows'[j].extend = r[j].extend /\ ~rows'[j].close
  BY <1>1 DEF Participant
<1> QED
  BY <1>2

LEMMA ExtendCleared ==
  ASSUME NEW r, r \in [DOMAIN rows -> Participant], DOMAIN r = DOMAIN rows,
         rows' = [j \in DOMAIN r |-> [r[j] EXCEPT !.extend = FALSE]]
  PROVE  /\ DOMAIN rows' = DOMAIN rows /\ rows' \in [DOMAIN rows -> Participant]
         /\ \A j \in DOMAIN rows : /\ rows'[j].cursor = r[j].cursor /\ rows'[j].start = r[j].start
                                   /\ rows'[j].close = r[j].close /\ ~rows'[j].extend
<1>1. \A j \in DOMAIN rows : rows'[j] = [r[j] EXCEPT !.extend = FALSE] /\ r[j] \in Participant
  OBVIOUS
<1>2. \A j \in DOMAIN rows :
        /\ rows'[j] \in Participant
        /\ rows'[j].cursor = r[j].cursor /\ rows'[j].start = r[j].start
        /\ rows'[j].close = r[j].close /\ ~rows'[j].extend
  BY <1>1 DEF Participant
<1> QED
  BY <1>2


-----------------------------------------------------------------------------
(* What each tool does.                                                     *)

\* An agent in the loop has a row.
LEMMA Within ==
  ASSUME Inv, NEW a \in Agents
  PROVE  /\ RoomOK /\ LogOK /\ RowsOK /\ AgentsOK /\ PlacedFor(a)
         /\ todo[a] \in Steps /\ owed[a] \in Debts /\ Instance(a) \in Instances
         /\ todo[a] \notin Outside => Instance(a) \in DOMAIN rows /\ rows[Instance(a)] \in Participant
BY InstanceFacts DEF Inv, Placed, PlacedFor, AgentsOK, RowsOK, Member

LEMMA SendEffect ==
  ASSUME Inv, NEW a \in Agents, Send(a)
  PROVE  /\ todo[a] \in {"talk", "close or talk", "extend or talk"}
         /\ UNCHANGED <<room, restarts, mute>> /\ Others(a) /\ FaultsGrow
         /\ \/ Halted /\ UNCHANGED <<log, rows>> /\ Goes(a, "stop", owed[a])
            \/ ~Halted /\ UNCHANGED <<log, rows>> /\ Goes(a, "capped", owed[a])
            \/ /\ ~Halted /\ Len(log) < MaxLog
               /\ log' = Append(log, Entry(Instance(a), "msg", owed[a] = "human"))
               /\ SameReads /\ OtherVotes(Instance(a))
               /\ ~rows'[Instance(a)].close /\ ~rows'[Instance(a)].extend
               /\ Goes(a, "wait", "none") \/ Goes(a, todo[a], owed[a])
<1> DEFINE i == Instance(a)
           f == [rows[i] EXCEPT !.close = FALSE, !.extend = FALSE]
<1>1. todo[a] \in {"talk", "close or talk", "extend or talk"}
  BY DEF Send, MayTalk
<1>2. /\ AgentsOK /\ RowsOK /\ owed[a] \in Debts /\ i \in DOMAIN rows /\ rows[i] \in Participant
  BY <1>1, Within DEF Outside
<1>3. UNCHANGED <<room, restarts, mute>>
  BY DEF Send
<1>4. CASE Halted /\ Told(a, "stop", owed[a]) /\ UNCHANGED <<log, rows>>
  BY <1>1, <1>2, <1>3, <1>4, ToldFacts DEF Steps
<1>5. CASE ~Halted /\ Told(a, "capped", owed[a]) /\ UNCHANGED <<log, rows>>
  BY <1>1, <1>2, <1>3, <1>5, ToldFacts DEF Steps
<1>6. CASE /\ ~Halted /\ Len(log) < MaxLog
           /\ log' = Append(log, Entry(i, "msg", owed[a] = "human"))
           /\ rows' = Row(i, f)
           /\ SendNext(a)
  <2>1. Others(a) /\ FaultsGrow /\ (Goes(a, "wait", "none") \/ Goes(a, todo[a], owed[a]))
    BY <1>2, <1>6, AnswerFacts DEF SendNext, Steps, Debts
  <2>2. /\ f \in Participant /\ f.cursor = rows[i].cursor /\ f.start = rows[i].start
        /\ ~f.close /\ ~f.extend
    BY <1>2 DEF Participant
  <2> HIDE DEF f
  <2>3. SameReads /\ OtherVotes(i) /\ ~rows'[i].close /\ ~rows'[i].extend
    <3>1. /\ rows' \in [DOMAIN rows -> Participant] /\ DOMAIN rows' = DOMAIN rows
          /\ rows'[i] = f /\ \A j \in DOMAIN rows : j # i => rows'[j] = rows[j]
      BY <1>2, <1>6, <2>2, RowFacts
    <3> QED
      BY <1>2, <2>2, <3>1 DEF SameReads, OtherVotes, VotesOf
  <2> QED
    BY <1>1, <1>3, <1>6, <2>1, <2>3
<1> QED
  BY <1>4, <1>5, <1>6 DEF Send

LEMMA SignalEffect ==
  ASSUME Inv, NEW a \in Agents, NEW k \in Signals, Signal(a, k)
  PROVE  /\ todo[a] = "talk" /\ UNCHANGED <<room, rows, restarts, mute>> /\ Others(a) /\ FaultsGrow
         /\ \/ UNCHANGED log /\ Goes(a, "stop", owed[a])
            \/ /\ Len(log) < MaxLog /\ log' = Append(log, Entry(Instance(a), k, FALSE))
               /\ Goes(a, "talk", "human") \/ Goes(a, "talk", owed[a])
<1>1. todo[a] = "talk" /\ UNCHANGED <<room, rows, restarts, mute>>
  BY DEF Signal
<1>2. AgentsOK /\ owed[a] \in Debts
  BY Within
<1>3. CASE Told(a, "stop", owed[a]) /\ UNCHANGED log
  BY <1>1, <1>2, <1>3, ToldFacts DEF Steps
<1>4. CASE /\ Len(log) < MaxLog /\ log' = Append(log, Entry(Instance(a), k, FALSE))
           /\ Answer(a, "talk", IF k = "waiting_user" THEN "human" ELSE owed[a])
  BY <1>1, <1>2, <1>4, AnswerFacts DEF Steps, Debts, Goes
<1> QED
  BY <1>3, <1>4 DEF Signal


LEMMA CloseEffect ==
  ASSUME Inv, NEW a \in Agents, Close(a)
  PROVE  /\ todo[a] \in {"talk", "capped", "close or talk", "extend or talk"}
         /\ UNCHANGED <<log, restarts, mute>> /\ Others(a) /\ FaultsGrow
         /\ owed'[a] = owed[a] \/ (owed[a] # "human" /\ owed'[a] = "none")
         /\ \/ UNCHANGED <<room, rows>> /\ Goes(a, "stop", owed[a]) /\ room.state = "closed"
            \/ /\ room' = [room EXCEPT !.state = "closed"] /\ room.state # "closed" /\ SameReads
               /\ \A j \in DOMAIN rows : rows'[j].extend = rows[j].extend /\ ~rows'[j].close
               /\ todo'[a] \in {"stop", todo[a]} /\ (todo'[a] = todo[a] => owed'[a] = owed[a])
            \/ /\ UNCHANGED room /\ SameReads /\ OtherVotes(Instance(a)) /\ room.state # "closed"
               /\ rows'[Instance(a)].close /\ rows'[Instance(a)].extend = rows[Instance(a)].extend
               /\ \E j \in DOMAIN rows : ~rows'[j].close
               /\ todo'[a] \in {"wait", todo[a]} /\ (todo'[a] = todo[a] => owed'[a] = owed[a])
<1> DEFINE i   == Instance(a)
           r   == Voting(i, TRUE, FALSE)
           due == IF owed[a] = "human" THEN "human" ELSE "none"
<1>1. /\ todo[a] \in {"talk", "capped", "close or talk", "extend or talk"}
      /\ UNCHANGED <<log, restarts, mute>>
  BY DEF Close
<1>2. /\ AgentsOK /\ RowsOK /\ owed[a] \in Debts /\ i \in DOMAIN rows /\ due \in Debts
  BY <1>1, Within DEF Outside, Debts
<1>3. CASE room.state = "closed" /\ Told(a, "stop", owed[a]) /\ UNCHANGED <<room, rows>>
  BY <1>1, <1>2, <1>3, ToldFacts DEF Steps, Goes
<1>4. /\ r \in [DOMAIN rows -> Participant] /\ DOMAIN r = DOMAIN rows
      /\ r[i].close /\ r[i].extend = rows[i].extend /\ rows[i].extend \in BOOLEAN
      /\ \A j \in DOMAIN rows : /\ r[j].cursor = rows[j].cursor /\ r[j].start = rows[j].start
                                /\ j # i => r[j] = rows[j]
  <2>1. rows[i].extend \in BOOLEAN
    BY <1>2 DEF RowsOK, Participant
  <2>2. /\ r \in [DOMAIN rows -> Participant] /\ DOMAIN r = DOMAIN rows
        /\ r[i].close = (rows[i].close \/ TRUE) /\ r[i].extend = (rows[i].extend \/ FALSE)
        /\ r[i].cursor = rows[i].cursor /\ r[i].start = rows[i].start
        /\ \A j \in DOMAIN rows : j # i => r[j] = rows[j]
    BY <1>2, VotingFacts
  <2> HIDE DEF r, i
  <2>3. r[i].close /\ r[i].extend = rows[i].extend
    BY <2>1, <2>2
  <2> QED
    BY <2>1, <2>2, <2>3
<1>5. /\ due = owed[a] \/ (owed[a] # "human" /\ due = "none")
  OBVIOUS
<1> HIDE DEF r, due
<1>6. CASE /\ room.state # "closed" /\ room' = [room EXCEPT !.state = "closed"]
           /\ rows' = [j \in DOMAIN r |-> [r[j] EXCEPT !.close = FALSE]]
           /\ Answer(a, "stop", due)
  <2>1. Others(a) /\ FaultsGrow /\ (Goes(a, "stop", due) \/ Goes(a, todo[a], owed[a]))
    BY <1>2, <1>6, AnswerFacts DEF Steps
  <2>2. /\ DOMAIN rows' = DOMAIN rows /\ rows' \in [DOMAIN rows -> Participant]
        /\ \A j \in DOMAIN rows : /\ rows'[j].cursor = r[j].cursor /\ rows'[j].start = r[j].start
                                  /\ rows'[j].extend = r[j].extend /\ ~rows'[j].close
    BY <1>4, <1>6, CloseCleared
  <2>3. SameReads
    BY <1>4, <2>2 DEF SameReads
  <2>4. \A j \in DOMAIN rows : rows'[j].extend = rows[j].extend /\ ~rows'[j].close
    BY <1>4, <2>2
  <2> QED
    BY <1>1, <1>5, <1>6, <2>1, <2>3, <2>4 DEF Goes
<1>7. CASE room.state # "closed" /\ ~CloseAgreed(r) /\ rows' = r /\ Answer(a, "wait", due) /\ UNCHANGED room
  <2>1. Others(a) /\ FaultsGrow /\ (Goes(a, "wait", due) \/ Goes(a, todo[a], owed[a]))
    BY <1>2, <1>7, AnswerFacts DEF Steps
  <2>2. SameReads /\ OtherVotes(i)
    BY <1>4, <1>7 DEF SameReads, OtherVotes, VotesOf
  <2>3. \E j \in DOMAIN rows : ~rows'[j].close
    BY <1>4, <1>7 DEF CloseAgreed, Live
  <2>4. rows'[i].close /\ rows'[i].extend = rows[i].extend
    BY <1>4, <1>7
  <2> QED
    BY <1>1, <1>5, <1>7, <2>1, <2>2, <2>3, <2>4 DEF Goes
<1> QED
  BY <1>3, <1>6, <1>7 DEF Close, r, due

LEMMA ExtendEffect ==
  ASSUME Inv, NEW a \in Agents, Extend(a)
  PROVE  /\ todo[a] \in {"capped", "extend or talk"}
         /\ UNCHANGED <<restarts, mute>> /\ Others(a) /\ FaultsGrow /\ owed'[a] = owed[a]
         /\ \/ Halted /\ UNCHANGED <<room, log, rows>> /\ todo'[a] = "stop"
            \/ /\ ~Halted /\ room.cap < MaxCap /\ room' = [room EXCEPT !.cap = @ + ExtendStep]
               /\ SameReads /\ \A j \in DOMAIN rows : rows'[j].close = rows[j].close /\ ~rows'[j].extend
               /\ \/ /\ Len(log) < MaxLog /\ log' = Append(log, Entry(Instance(a), "extend", FALSE))
                     /\ todo'[a] \in {todo[a], IF owed[a] = "none" THEN "wait" ELSE "talk"}
                  \/ UNCHANGED log /\ todo'[a] = todo[a]
            \/ /\ ~Halted /\ UNCHANGED <<room, log>>
               /\ SameReads /\ OtherVotes(Instance(a))
               /\ rows'[Instance(a)].extend /\ rows'[Instance(a)].close = rows[Instance(a)].close
               /\ \E j \in DOMAIN rows : ~rows'[j].extend
               /\ todo'[a] \in {"wait", todo[a]}
<1> DEFINE i    == Instance(a)
           r    == Voting(i, FALSE, TRUE)
           next == IF owed[a] = "none" THEN "wait" ELSE "talk"
<1>1. todo[a] \in {"capped", "extend or talk"} /\ UNCHANGED <<restarts, mute>>
  BY DEF Extend
<1>2. /\ AgentsOK /\ RowsOK /\ owed[a] \in Debts /\ i \in DOMAIN rows /\ next \in Steps
  BY <1>1, Within DEF Outside, Steps
<1>3. CASE Halted /\ Told(a, "stop", owed[a]) /\ UNCHANGED <<room, log, rows>>
  BY <1>1, <1>2, <1>3, ToldFacts DEF Steps, Goes
<1>4. /\ r \in [DOMAIN rows -> Participant] /\ DOMAIN r = DOMAIN rows
      /\ r[i].extend /\ r[i].close = rows[i].close /\ rows[i].close \in BOOLEAN
      /\ \A j \in DOMAIN rows : /\ r[j].cursor = rows[j].cursor /\ r[j].start = rows[j].start
                                /\ r[j].close = rows[j].close
                                /\ j # i => r[j] = rows[j]
  <2>1. rows[i].close \in BOOLEAN
    BY <1>2 DEF RowsOK, Participant
  <2>2. /\ r \in [DOMAIN rows -> Participant] /\ DOMAIN r = DOMAIN rows
        /\ r[i].close = (rows[i].close \/ FALSE) /\ r[i].extend = (rows[i].extend \/ TRUE)
        /\ r[i].cursor = rows[i].cursor /\ r[i].start = rows[i].start
        /\ \A j \in DOMAIN rows : j # i => r[j] = rows[j]
    BY <1>2, VotingFacts
  <2> HIDE DEF r, i
  <2>3. r[i].extend /\ r[i].close = rows[i].close
    BY <2>1, <2>2
  <2> QED
    BY <2>1, <2>2, <2>3
<1> HIDE DEF r, next
<1>5. CASE /\ ~Halted /\ room.cap < MaxCap /\ Len(log) < MaxLog
           /\ room' = [room EXCEPT !.cap = @ + ExtendStep]
           /\ rows' = [j \in DOMAIN r |-> [r[j] EXCEPT !.extend = FALSE]]
           /\ \/ log' = Announced(i) /\ Answer(a, next, owed[a])
              \/ Unheard(a) /\ UNCHANGED log
  <2>1. SameReads /\ \A j \in DOMAIN rows : rows'[j].close = rows[j].close /\ ~rows'[j].extend
    <3>1. /\ DOMAIN rows' = DOMAIN rows /\ rows' \in [DOMAIN rows -> Participant]
          /\ \A j \in DOMAIN rows : /\ rows'[j].cursor = r[j].cursor /\ rows'[j].start = r[j].start
                                    /\ rows'[j].close = r[j].close /\ ~rows'[j].extend
      BY <1>4, <1>5, ExtendCleared
    <3> QED
      BY <1>4, <3>1 DEF SameReads
  <2>2. CASE log' = Announced(i) /\ Answer(a, next, owed[a])
    <3>1. Others(a) /\ FaultsGrow /\ (Goes(a, next, owed[a]) \/ Goes(a, todo[a], owed[a]))
      BY <1>2, <2>2, AnswerFacts
    <3> QED
      BY <1>1, <1>5, <2>1, <2>2, <3>1 DEF Goes, Announced, next
  <2>3. CASE Unheard(a) /\ UNCHANGED log
    BY <1>1, <1>2, <1>5, <2>1, <2>3, UnheardFacts DEF Goes
  <2> QED
    BY <1>5, <2>2, <2>3
<1>6. CASE ~Halted /\ ~ExtendAgreed(r) /\ rows' = r /\ Answer(a, "wait", owed[a]) /\ UNCHANGED <<room, log>>
  <2>1. Others(a) /\ FaultsGrow /\ (Goes(a, "wait", owed[a]) \/ Goes(a, todo[a], owed[a]))
    BY <1>2, <1>6, AnswerFacts DEF Steps
  <2>2. SameReads /\ OtherVotes(i)
    BY <1>4, <1>6 DEF SameReads, OtherVotes, VotesOf
  <2>3. \E j \in DOMAIN rows : ~rows'[j].extend
    BY <1>4, <1>6 DEF ExtendAgreed, Live
  <2>4. rows'[i].extend /\ rows'[i].close = rows[i].close
    BY <1>4, <1>6
  <2> QED
    BY <1>1, <1>6, <2>1, <2>2, <2>3, <2>4 DEF Goes
<1> QED
  BY <1>3, <1>5, <1>6 DEF Extend, ExtendRoom, r, next


\* The message that a wait takes: the next one of somebody else.
Deals(a, n) ==
  LET i == Instance(a)
  IN  /\ n \in 1 .. Len(log) /\ rows[i].cursor < n /\ log[n].from # i
      /\ \A k \in 1 .. Len(log) : rows[i].cursor < k /\ k < n => log[k].from = i
      /\ DOMAIN rows' = DOMAIN rows /\ rows' \in [DOMAIN rows -> Participant]
      /\ rows'[i].cursor = n /\ rows'[i].start = rows[i].start
      /\ \A j \in DOMAIN rows : /\ VotesOf(j)
                                /\ j # i => rows'[j] = rows[j]

LEMMA FirstUnreadFacts ==
  ASSUME NEW i \in DOMAIN rows, RowsOK, LogOK, Unread(i) # {}
  PROVE  FirstUnread(i) \in Unread(i) /\ \A k \in Unread(i) : FirstUnread(i) <= k
<1>1. Unread(i) \subseteq Nat
  BY DEF Unread, RowsOK, Participant, LogOK
<1>2. PICK n \in Unread(i) : \A k \in Unread(i) : ~(<<k, n>> \in OpToRel(<, Nat))
  BY <1>1, NatLessThanWellFounded, WFMin
<1>3. ASSUME NEW k \in Unread(i), k < n PROVE FALSE
  <2>1. <<k, n>> \in Nat \X Nat
    BY <1>1
  <2> QED
    BY <1>2, <1>3, <2>1 DEF OpToRel
<1>4. \A k \in Unread(i) : n <= k
  BY <1>1, <1>3
<1> QED
  BY <1>2, <1>4 DEF FirstUnread


LEMMA WaitEffect ==
  ASSUME Inv, NEW a \in Agents, Wait(a)
  PROVE  /\ todo[a] = "wait" /\ UNCHANGED <<room, log, restarts>> /\ Others(a) /\ FaultsGrow
         /\ \/ \E n \in 1 .. Len(log) :
                 /\ Deals(a, n)
                 /\ \/ ~Halted /\ UNCHANGED mute /\ Goes(a, "recap", Debt(a, n))
                    \/ mute' = mute \cup {n} /\ Goes(a, "wait", owed[a])
            \/ /\ UNCHANGED mute /\ SameReads /\ \A j \in DOMAIN rows : VotesOf(j)
               /\ todo'[a] \in {"close or talk", "extend or talk", "wait", "stop"}
               /\ owed'[a] = owed[a]
<1> DEFINE i == Instance(a)
           n == FirstUnread(i)
<1>1. todo[a] = "wait" /\ UNCHANGED <<room, log, restarts>>
  BY DEF Wait
<1>2. /\ AgentsOK /\ RowsOK /\ LogOK /\ owed[a] \in Debts /\ i \in DOMAIN rows
      /\ rows[i] \in Participant
  BY <1>1, Within DEF Outside
<1>3. CASE Unread(i) # {} /\ Deliver(a, i, n)
  <2>1. /\ n \in Unread(i) /\ \A k \in Unread(i) : n <= k
    BY <1>2, <1>3, FirstUnreadFacts
  <2>2. /\ n \in 1 .. Len(log) /\ rows[i].cursor < n /\ log[n].from # i
        /\ \A k \in 1 .. Len(log) : rows[i].cursor < k /\ k < n => log[k].from = i
    <3>1. rows[i].cursor \in Nat /\ Len(log) \in Nat
      BY <1>2 DEF LogOK, Participant
    <3>2. n \in rows[i].cursor + 1 .. Len(log) /\ log[n].from # i
      BY <2>1 DEF Unread
    <3>3. \A k \in rows[i].cursor + 1 .. Len(log) : log[k].from # i => n <= k
      BY <2>1 DEF Unread
    <3> HIDE DEF n, i
    <3> QED
      BY <3>1, <3>2, <3>3
  <2> DEFINE f == [rows[i] EXCEPT !.dark = FALSE, !.cursor = n]
  <2>3. /\ f \in Participant /\ f.cursor = n /\ f.start = rows[i].start
        /\ f.close = rows[i].close /\ f.extend = rows[i].extend
    <3>1. n \in Nat
      BY <1>2, <2>2 DEF LogOK
    <3> HIDE DEF n
    <3> QED
      BY <1>2, <3>1 DEF Participant
  <2>4. rows' = Row(i, f)
    BY <1>3 DEF Deliver
  <2> HIDE DEF f
  <2>5. /\ rows' \in [DOMAIN rows -> Participant] /\ DOMAIN rows' = DOMAIN rows
        /\ rows'[i] = f /\ \A j \in DOMAIN rows : j # i => rows'[j] = rows[j]
    BY <1>2, <2>3, <2>4, RowFacts
  <2>6. Deals(a, n)
    BY <1>2, <2>2, <2>3, <2>5 DEF Deals, VotesOf
  <2>7. Debt(a, n) \in Debts
    BY DEF Debt, Debts
  <2>8. CASE ~Halted /\ Told(a, "recap", Debt(a, n)) /\ UNCHANGED mute
    BY <1>1, <1>2, <2>2, <2>6, <2>7, <2>8, ToldFacts DEF Steps
  <2>9. CASE Halted /\ Told(a, "wait", owed[a]) /\ mute' = mute \cup {n}
    BY <1>1, <1>2, <2>2, <2>6, <2>9, ToldFacts DEF Steps
  <2>10. CASE Unheard(a) /\ mute' = mute \cup {n}
    BY <1>1, <1>2, <2>2, <2>6, <2>10, UnheardFacts DEF Steps
  <2> QED
    BY <1>3, <2>8, <2>9, <2>10 DEF Deliver
<1>4. CASE /\ rows' = Voting(i, FALSE, FALSE)
           /\ Told(a, Guidance(FromWire(Status(i))), owed[a])
           /\ UNCHANGED mute
  <2> DEFINE next == Guidance(FromWire(Status(i)))
  <2>1. next \in {"close or talk", "extend or talk", "wait", "stop"}
    BY DEF Guidance
  <2> HIDE DEF next
  <2>2. Others(a) /\ FaultsGrow /\ Goes(a, next, owed[a])
    BY <1>2, <1>4, <2>1, ToldFacts DEF Steps, next
  <2>3. /\ rows' \in [DOMAIN rows -> Participant] /\ DOMAIN rows' = DOMAIN rows
        /\ rows'[i].close = (rows[i].close \/ FALSE) /\ rows'[i].extend = (rows[i].extend \/ FALSE)
        /\ rows'[i].cursor = rows[i].cursor /\ rows'[i].start = rows[i].start
        /\ \A j \in DOMAIN rows : j # i => rows'[j] = rows[j]
    BY <1>2, <1>4, VotingFacts
  <2>4. rows[i].close \in BOOLEAN /\ rows[i].extend \in BOOLEAN
    BY <1>2 DEF Participant
  <2> HIDE DEF i
  <2>5. rows'[i].close = rows[i].close /\ rows'[i].extend = rows[i].extend
    BY <2>3, <2>4
  <2>6. SameReads /\ \A j \in DOMAIN rows : VotesOf(j)
    BY <2>3, <2>5 DEF SameReads, VotesOf
  <2> QED
    BY <1>1, <1>4, <2>1, <2>2, <2>6 DEF Goes
<1> QED
  BY <1>3, <1>4 DEF Wait


-----------------------------------------------------------------------------
(* The types.                                                               *)

LEMMA InitInv == Init => Inv
<1> SUFFICES ASSUME Init PROVE Inv
  OBVIOUS
<1>1. RoomOK
  BY ConstantTypes DEF Init, RoomOK
<1>2. LogOK
  BY ConstantTypes DEF Init, LogOK
<1>3. RowsOK
  BY DEF Init, RowsOK
<1>4. AgentsOK
  BY ConstantTypes DEF Init, AgentsOK, Steps, Debts
<1>5. Placed
  BY DEF Init, Placed, PlacedFor, Outside
<1> QED
  BY <1>1, <1>2, <1>3, <1>4, <1>5 DEF Inv

LEMMA Grows ==
  ASSUME LogOK, Len(log) < MaxLog, NEW i \in Instances, NEW k \in Kinds, NEW h \in BOOLEAN,
         log' = Append(log, Entry(i, k, h))
  PROVE  /\ log' \in Seq(Message) /\ Len(log') <= MaxLog
         /\ Len(log) \in Nat /\ Len(log') = Len(log) + 1
         /\ log'[Len(log) + 1] = Entry(i, k, h)
         /\ \A n \in 1 .. Len(log) : log'[n] = log[n]
<1>1. Entry(i, k, h) \in Message
  BY DEF Entry, Message
<1>2. log \in Seq(Message) /\ Len(log) <= MaxLog /\ Len(log) \in Nat /\ MaxLog \in Nat
  BY ConstantTypes DEF LogOK
<1> QED
  BY <1>1, <1>2

\* The log has grown, by at most one message, or is as it was.
Longer == /\ Len(log) \in Nat /\ Len(log') \in Nat /\ Len(log) <= Len(log')
          /\ \A n \in 1 .. Len(log) : log'[n] = log[n]

LEMMA LogStays == ASSUME LogOK, UNCHANGED log PROVE Longer
<1>1. Len(log) \in Nat
  BY DEF LogOK
<1> QED
  BY <1>1 DEF Longer

LEMMA LogGrows ==
  ASSUME LogOK, Len(log) < MaxLog, NEW i \in Instances, NEW k \in Kinds, NEW h \in BOOLEAN,
         log' = Append(log, Entry(i, k, h)), UNCHANGED mute
  PROVE  LogOK' /\ Longer
<1>1. /\ log' \in Seq(Message) /\ Len(log') <= MaxLog /\ Len(log) \in Nat /\ Len(log') = Len(log) + 1
      /\ \A n \in 1 .. Len(log) : log'[n] = log[n]
  BY Grows
<1>2. mute' \subseteq 0 .. Len(log')
  BY <1>1 DEF LogOK
<1> QED
  BY <1>1, <1>2 DEF LogOK, Longer

LEMMA ReadsKept ==
  ASSUME LogOK, RowsOK, Longer, SameReads, UNCHANGED restarts
  PROVE  RowsOK'
<1>1. \A j \in DOMAIN rows' :
        /\ rows'[j].cursor = rows[j].cursor /\ rows'[j].start = rows[j].start
        /\ rows[j].cursor \in Nat /\ rows[j].start \in Nat
        /\ rows[j].cursor <= Len(log) /\ rows[j].start <= Len(log)
  BY DEF SameReads, RowsOK, Participant
<1>2. \A j \in DOMAIN rows' : rows'[j].cursor <= Len(log') /\ rows'[j].start <= Len(log')
  BY <1>1 DEF Longer
<1> QED
  BY <1>2 DEF RowsOK, SameReads

LEMMA RowsStay ==
  ASSUME RowsOK, UNCHANGED rows
  PROVE  SameReads /\ \A j \in DOMAIN rows : VotesOf(j)
BY DEF RowsOK, SameReads, VotesOf

LEMMA AgentsKept ==
  ASSUME AgentsOK, NEW a \in Agents, Others(a), FaultsGrow, UNCHANGED restarts
  PROVE  AgentsOK'
<1>1. \A b \in Agents : restarts'[b] <= faults'
  BY ConstantTypes DEF AgentsOK, FaultsGrow
<1> QED
  BY <1>1 DEF AgentsOK, FaultsGrow, Others

\* A step of one agent leaves the others where they are.
LEMMA OthersPlaced ==
  ASSUME Placed, NEW a \in Agents, Others(a), PlacedFor(a)',
         \A b \in Agents : b # a => restarts'[b] = restarts[b],
         DOMAIN rows \subseteq DOMAIN rows', room.state # "none" => room'.state # "none"
  PROVE  Placed'
<1>1. ASSUME NEW b \in Agents, b # a PROVE PlacedFor(b)'
  <2>1. Instance(b)' = Instance(b)
    BY <1>1, SameInstance
  <2>2. PlacedFor(b) /\ todo'[b] = todo[b] /\ owed'[b] = owed[b]
    BY <1>1 DEF Placed, Others
  <2> QED
    BY <2>1, <2>2 DEF PlacedFor, Member
<1> QED
  BY <1>1 DEF Placed

\* The step of an agent in the loop.
LEMMA LoopStep ==
  ASSUME Inv, NEW a \in Agents, todo[a] \notin Outside, Others(a), FaultsGrow, UNCHANGED restarts,
         RoomOK', LogOK', RowsOK', DOMAIN rows' = DOMAIN rows,
         room.state # "none" => room'.state # "none",
         todo'[a] \notin Outside, todo'[a] \in {"recap", "talk"} => owed'[a] # "none"
  PROVE  Inv'
<1>1. AgentsOK'
  BY AgentsKept DEF Inv
<1>2. Instance(a)' = Instance(a)
  BY SameInstance
<1>3. PlacedFor(a)'
  <2>1. PlacedFor(a) /\ todo[a] \notin {"idle", "open"}
    BY DEF Inv, Placed, Outside
  <2> QED
    BY <1>2, <2>1 DEF PlacedFor, Member, Outside
<1>4. Placed'
  BY <1>3, OthersPlaced DEF Inv
<1> QED
  BY <1>1, <1>4 DEF Inv


LEMMA InvSend == ASSUME Inv, NEW a \in Agents, Send(a) PROVE Inv'
<1>0. /\ RoomOK /\ LogOK /\ RowsOK /\ AgentsOK /\ PlacedFor(a) /\ Instance(a) \in Instances
  BY Within
<1>1. todo[a] \notin Outside /\ Others(a) /\ FaultsGrow /\ UNCHANGED <<room, restarts, mute>>
  BY SendEffect DEF Outside
<1>2. todo'[a] \notin Outside /\ (todo'[a] \in {"recap", "talk"} => owed'[a] # "none")
  BY <1>0, SendEffect DEF Goes, Outside, PlacedFor
<1>3. CASE UNCHANGED <<log, rows>>
  <2>1. RoomOK' /\ LogOK' /\ RowsOK' /\ DOMAIN rows' = DOMAIN rows
    BY <1>0, <1>1, <1>3 DEF RoomOK, LogOK, RowsOK
  <2> QED
    BY <1>1, <1>2, <2>1, LoopStep
<1>4. CASE /\ Len(log) < MaxLog /\ SameReads
           /\ log' = Append(log, Entry(Instance(a), "msg", owed[a] = "human"))
  <2>1. LogOK' /\ Longer
    <3>1. "msg" \in Kinds /\ (owed[a] = "human") \in BOOLEAN
      BY DEF Kinds
    <3> QED
      BY <1>0, <1>1, <1>4, <3>1, LogGrows
  <2>2. RowsOK'
    BY <1>0, <1>1, <1>4, <2>1, ReadsKept
  <2>3. RoomOK' /\ DOMAIN rows' = DOMAIN rows
    BY <1>0, <1>1, <1>4 DEF RoomOK, SameReads
  <2> QED
    BY <1>1, <1>2, <2>1, <2>2, <2>3, LoopStep
<1> QED
  BY <1>3, <1>4, SendEffect

LEMMA InvSignal == ASSUME Inv, NEW a \in Agents, NEW k \in Signals, Signal(a, k) PROVE Inv'
<1>0. /\ RoomOK /\ LogOK /\ RowsOK /\ AgentsOK /\ PlacedFor(a) /\ Instance(a) \in Instances
  BY Within
<1>1. /\ todo[a] = "talk" /\ todo[a] \notin Outside /\ Others(a) /\ FaultsGrow
      /\ UNCHANGED <<room, rows, restarts, mute>>
  BY SignalEffect DEF Outside
<1>2. todo'[a] \notin Outside /\ (todo'[a] \in {"recap", "talk"} => owed'[a] # "none")
  BY <1>0, <1>1, SignalEffect DEF Goes, Outside, PlacedFor
<1>3. LogOK' /\ Longer
  <2>1. k \in Kinds /\ FALSE \in BOOLEAN
    BY GuidanceAssumption DEF Kinds
  <2>2. CASE UNCHANGED log
    BY <1>0, <1>1, <2>2, LogStays DEF LogOK
  <2>3. CASE Len(log) < MaxLog /\ log' = Append(log, Entry(Instance(a), k, FALSE))
    BY <1>0, <1>1, <2>1, <2>3, LogGrows
  <2> QED
    BY <2>2, <2>3, SignalEffect
<1>4. RoomOK' /\ RowsOK' /\ DOMAIN rows' = DOMAIN rows
  BY <1>0, <1>1, <1>3, ReadsKept, RowsStay DEF RoomOK
<1> QED
  BY <1>1, <1>2, <1>3, <1>4, LoopStep

LEMMA InvWait == ASSUME Inv, NEW a \in Agents, Wait(a) PROVE Inv'
<1>0. /\ RoomOK /\ LogOK /\ RowsOK /\ AgentsOK /\ PlacedFor(a) /\ Instance(a) \in Instances
  BY Within
<1>1. /\ todo[a] = "wait" /\ todo[a] \notin Outside /\ Others(a) /\ FaultsGrow
      /\ UNCHANGED <<room, log, restarts>> /\ Instance(a) \in DOMAIN rows
  BY WaitEffect, Within DEF Outside
<1>2. RoomOK'
  BY <1>0, <1>1 DEF RoomOK
<1>3. CASE \E n \in 1 .. Len(log) :
             /\ Deals(a, n)
             /\ \/ ~Halted /\ UNCHANGED mute /\ Goes(a, "recap", Debt(a, n))
                \/ mute' = mute \cup {n} /\ Goes(a, "wait", owed[a])
  <2>1. PICK n \in 1 .. Len(log) :
             /\ Deals(a, n)
             /\ \/ ~Halted /\ UNCHANGED mute /\ Goes(a, "recap", Debt(a, n))
                \/ mute' = mute \cup {n} /\ Goes(a, "wait", owed[a])
    BY <1>3
  <2>2. todo'[a] \notin Outside /\ (todo'[a] \in {"recap", "talk"} => owed'[a] # "none")
    BY <2>1 DEF Goes, Outside, Debt
  <2>3. LogOK'
    <3>1. Len(log) \in Nat /\ n \in 0 .. Len(log)
      BY <1>0 DEF LogOK
    <3>2. mute' \subseteq mute \cup {n}
      BY <2>1
    <3> QED
      BY <1>0, <1>1, <3>1, <3>2 DEF LogOK
  <2>4. RowsOK' /\ DOMAIN rows' = DOMAIN rows
    <3>1. /\ DOMAIN rows' = DOMAIN rows /\ rows' \in [DOMAIN rows -> Participant]
          /\ rows'[Instance(a)].cursor = n /\ rows'[Instance(a)].start = rows[Instance(a)].start
          /\ \A j \in DOMAIN rows : j # Instance(a) => rows'[j] = rows[j]
      BY <2>1 DEF Deals
    <3>2. n <= Len(log)
      BY <1>0 DEF LogOK
    <3>3. \A j \in DOMAIN rows : rows'[j].cursor <= Len(log) /\ rows'[j].start <= Len(log)
      BY <1>0, <3>1, <3>2 DEF RowsOK
    <3> QED
      BY <1>0, <1>1, <3>1, <3>3 DEF RowsOK
  <2> QED
    BY <1>1, <1>2, <2>2, <2>3, <2>4, LoopStep
<1>4. CASE /\ UNCHANGED mute /\ SameReads
           /\ todo'[a] \in {"close or talk", "extend or talk", "wait", "stop"}
  <2>1. todo'[a] \notin Outside /\ todo'[a] \notin {"recap", "talk"}
    BY <1>4 DEF Outside
  <2>2. LogOK' /\ RowsOK' /\ DOMAIN rows' = DOMAIN rows
    BY <1>0, <1>1, <1>4, LogStays, ReadsKept DEF LogOK, SameReads
  <2> QED
    BY <1>1, <1>2, <2>1, <2>2, LoopStep
<1> QED
  BY <1>3, <1>4, WaitEffect

LEMMA InvClose == ASSUME Inv, NEW a \in Agents, Close(a) PROVE Inv'
<1>0. /\ RoomOK /\ LogOK /\ RowsOK /\ AgentsOK /\ PlacedFor(a) /\ Instance(a) \in Instances
  BY Within
<1>1. /\ todo[a] \notin Outside /\ Others(a) /\ FaultsGrow /\ UNCHANGED <<log, restarts, mute>>
  BY CloseEffect DEF Outside
<1>2. todo'[a] \notin Outside /\ (todo'[a] \in {"recap", "talk"} => owed'[a] # "none")
  BY <1>0, CloseEffect DEF Goes, Outside, PlacedFor
<1>3. RoomOK' /\ (room.state # "none" => room'.state # "none")
  BY <1>0, CloseEffect DEF RoomOK
<1>4. SameReads
  BY <1>0, CloseEffect, RowsStay
<1>5. LogOK' /\ RowsOK' /\ DOMAIN rows' = DOMAIN rows
  BY <1>0, <1>1, <1>4, LogStays, ReadsKept DEF LogOK, SameReads
<1> QED
  BY <1>1, <1>2, <1>3, <1>5, LoopStep

LEMMA InvExtend == ASSUME Inv, NEW a \in Agents, Extend(a) PROVE Inv'
<1>0. /\ RoomOK /\ LogOK /\ RowsOK /\ AgentsOK /\ PlacedFor(a) /\ Instance(a) \in Instances
  BY Within
<1>1. /\ todo[a] \notin Outside /\ Others(a) /\ FaultsGrow /\ UNCHANGED <<restarts, mute>>
  BY ExtendEffect DEF Outside
<1>2. todo'[a] \notin Outside /\ (todo'[a] \in {"recap", "talk"} => owed'[a] # "none")
  BY <1>0, ExtendEffect DEF Outside, PlacedFor
<1>3. RoomOK' /\ (room.state # "none" => room'.state # "none")
  <2>1. CASE UNCHANGED room
    BY <1>0, <2>1 DEF RoomOK
  <2>2. CASE room.cap < MaxCap /\ room' = [room EXCEPT !.cap = @ + ExtendStep]
    <3>1. room.cap \in HardCap .. MaxCap + ExtendStep
      BY <1>0 DEF RoomOK
    <3>2. room.cap + ExtendStep \in HardCap .. MaxCap + ExtendStep
      BY <2>2, <3>1, ConstantTypes
    <3> QED
      BY <1>0, <2>2, <3>2 DEF RoomOK
  <2> QED
    BY <2>1, <2>2, ExtendEffect
<1>4. SameReads
  BY <1>0, ExtendEffect, RowsStay
<1>5. LogOK' /\ Longer
  <2>1. "extend" \in Kinds /\ FALSE \in BOOLEAN
    BY DEF Kinds
  <2>2. CASE UNCHANGED log
    BY <1>0, <1>1, <2>2, LogStays DEF LogOK
  <2>3. CASE Len(log) < MaxLog /\ log' = Append(log, Entry(Instance(a), "extend", FALSE))
    BY <1>0, <1>1, <2>1, <2>3, LogGrows
  <2> QED
    BY <2>2, <2>3, ExtendEffect
<1>6. RowsOK' /\ DOMAIN rows' = DOMAIN rows
  BY <1>0, <1>1, <1>4, <1>5, ReadsKept DEF SameReads
<1> QED
  BY <1>1, <1>2, <1>3, <1>5, <1>6, LoopStep


\* The steps that change neither the log nor the rows.
LEMMA Elsewhere ==
  ASSUME Inv, UNCHANGED <<log, rows, restarts>>
  PROVE  /\ DOMAIN rows' = DOMAIN rows /\ RowsOK'
         /\ mute' \subseteq mute \cup 0 .. Len(log) => LogOK'
BY DEF Inv, RowsOK, LogOK

LEMMA InvOpen == ASSUME Inv, Open PROVE Inv'
<1> DEFINE a == Opener
<1>0. a \in Agents /\ AgentsOK /\ Placed
  BY ConstantTypes DEF Inv
<1>1. todo[a] = "open" /\ Others(a) /\ Goes(a, "join", "none") /\ FaultsGrow
  BY <1>0, ToldFacts DEF Open, Steps, Debts
<1>2. UNCHANGED <<log, rows, restarts, mute>> /\ room' = [state |-> "active", cap |-> HardCap]
  BY DEF Open
<1>3. RoomOK'
  BY <1>2, ConstantTypes DEF RoomOK
<1>4. LogOK' /\ RowsOK' /\ AgentsOK'
  BY <1>0, <1>1, <1>2, Elsewhere, AgentsKept
<1>5. PlacedFor(a)'
  BY <1>1, <1>2 DEF PlacedFor, Goes, Outside
<1>6. Placed'
  BY <1>0, <1>1, <1>2, <1>5, OthersPlaced
<1> QED
  BY <1>3, <1>4, <1>6 DEF Inv

LEMMA InvPaste == ASSUME Inv, NEW a \in Agents, Paste(a) PROVE Inv'
<1>0. AgentsOK /\ Placed /\ RoomOK
  BY DEF Inv
<1>1. room.state # "none" /\ Others(a) /\ Goes(a, "join", "none") /\ FaultsGrow
  BY <1>0, ToldFacts DEF Paste, Steps, Debts
<1>2. UNCHANGED <<room, log, rows, restarts, mute>>
  BY DEF Paste
<1>3. RoomOK' /\ LogOK' /\ RowsOK' /\ AgentsOK'
  BY <1>0, <1>1, <1>2, Elsewhere, AgentsKept DEF RoomOK
<1>4. PlacedFor(a)'
  BY <1>1, <1>2 DEF PlacedFor, Goes, Outside
<1>5. Placed'
  BY <1>0, <1>1, <1>2, <1>4, OthersPlaced
<1> QED
  BY <1>3, <1>5 DEF Inv

\* The row that a join leaves its agent with.
LEMMA JoinEffect ==
  ASSUME Inv, NEW a \in Agents, Join(a)
  PROVE  /\ todo[a] = "join" /\ UNCHANGED <<room, log, restarts, mute>> /\ Others(a) /\ FaultsGrow
         /\ Goes(a, "recap", "turn") \/ Goes(a, "join", "none")
         /\ DOMAIN rows' = DOMAIN rows \cup {Instance(a)}
         /\ rows' \in [DOMAIN rows' -> Participant]
         /\ \A j \in DOMAIN rows : rows'[j] = rows[j]
         /\ Instance(a) \notin DOMAIN rows =>
              rows'[Instance(a)] = [cursor |-> Len(log), start |-> Len(log),
                                    dark |-> FALSE, close |-> FALSE, extend |-> FALSE]
<1> DEFINE i     == Instance(a)
           fresh == [cursor |-> Len(log), start |-> Len(log),
                     dark |-> FALSE, close |-> FALSE, extend |-> FALSE]
<1>0. /\ LogOK /\ RowsOK /\ AgentsOK /\ PlacedFor(a)
  BY Within
<1>1. todo[a] = "join" /\ owed[a] = "none" /\ UNCHANGED <<room, log, restarts, mute>>
  BY <1>0 DEF Join, PlacedFor, Outside
<1>2. Others(a) /\ FaultsGrow /\ (Goes(a, "recap", "turn") \/ Goes(a, "join", "none"))
  <2>1. Answer(a, "recap", "turn")
    BY DEF Join, JoinNext
  <2> QED
    BY <1>0, <1>1, <2>1, AnswerFacts DEF Steps, Debts
<1>3. fresh \in Participant
  BY <1>0 DEF Participant, LogOK
<1>4. rows' = [j \in DOMAIN rows \cup {i} |-> IF j \in DOMAIN rows THEN rows[j] ELSE fresh]
  BY DEF Join
<1>5. \A j \in DOMAIN rows : rows[j] \in Participant
  BY <1>0 DEF RowsOK
<1> HIDE DEF i
<1>6. /\ DOMAIN rows' = DOMAIN rows \cup {i} /\ rows' \in [DOMAIN rows' -> Participant]
      /\ \A j \in DOMAIN rows : rows'[j] = rows[j]
      /\ i \notin DOMAIN rows => rows'[i] = fresh
  <2> HIDE DEF fresh
  <2> QED
    BY <1>3, <1>4, <1>5
<1> QED
  BY <1>1, <1>2, <1>6 DEF i

LEMMA InvJoin == ASSUME Inv, NEW a \in Agents, Join(a) PROVE Inv'
<1>0. RoomOK /\ LogOK /\ RowsOK /\ AgentsOK /\ Placed /\ PlacedFor(a)
  BY Within DEF Inv
<1>1. RoomOK' /\ LogOK' /\ AgentsOK'
  BY <1>0, JoinEffect, AgentsKept DEF RoomOK, LogOK
<1>2. RowsOK'
  <2>1. /\ Instance(a) \in Instances /\ (Instance(a)[1] \in Anchored => Instance(a)[2] = 0)
        /\ Instance(a)[2] <= restarts[Instance(a)[1]] + 1
    BY <1>0, InstanceFacts
  <2>2. Len(log) \in Nat /\ Len(log) <= Len(log)
    BY <1>0 DEF LogOK
  <2>3. \A j \in DOMAIN rows' :
          /\ rows'[j].cursor <= Len(log) /\ rows'[j].start <= Len(log)
          /\ j[1] \in Anchored => j[2] = 0
          /\ j[2] <= restarts[j[1]] + 1
    <3>1. ASSUME NEW j \in DOMAIN rows
          PROVE  /\ rows'[j].cursor <= Len(log) /\ rows'[j].start <= Len(log)
                 /\ j[1] \in Anchored => j[2] = 0
                 /\ j[2] <= restarts[j[1]] + 1
      <4>1. rows'[j] = rows[j]
        BY JoinEffect
      <4> QED
        BY <1>0, <4>1 DEF RowsOK
    <3>2. Instance(a) \notin DOMAIN rows =>
            rows'[Instance(a)].cursor = Len(log) /\ rows'[Instance(a)].start = Len(log)
      <4>1. Instance(a) \notin DOMAIN rows =>
              rows'[Instance(a)] = [cursor |-> Len(log), start |-> Len(log),
                                    dark |-> FALSE, close |-> FALSE, extend |-> FALSE]
        BY JoinEffect
      <4> QED
        BY <4>1
    <3>3. DOMAIN rows' = DOMAIN rows \cup {Instance(a)}
      BY JoinEffect
    <3> QED
      BY <2>1, <2>2, <3>1, <3>2, <3>3
  <2> QED
    BY <1>0, <2>1, <2>3, JoinEffect DEF RowsOK
<1>3. Instance(a)' = Instance(a)
  BY JoinEffect, SameInstance
<1>4. PlacedFor(a)'
  BY <1>0, <1>3, JoinEffect DEF PlacedFor, Goes, Outside, Member
<1>5. Placed'
  BY <1>0, <1>4, JoinEffect, OthersPlaced
<1> QED
  BY <1>1, <1>2, <1>5 DEF Inv

LEMMA InvRecap == ASSUME Inv, NEW a \in Agents, Recap(a) PROVE Inv'
<1>0. /\ RoomOK /\ AgentsOK /\ PlacedFor(a) /\ owed[a] \in Debts
  BY Within
<1>1. todo[a] = "recap" /\ Others(a) /\ Goes(a, "talk", owed[a]) /\ FaultsGrow
  BY <1>0, ToldFacts DEF Recap, Steps
<1>2. UNCHANGED <<room, log, rows, restarts, mute>>
  BY DEF Recap
<1>3. RoomOK' /\ LogOK' /\ RowsOK' /\ DOMAIN rows' = DOMAIN rows
  BY <1>0, <1>2, Elsewhere DEF RoomOK
<1>4. todo[a] \notin Outside /\ todo'[a] \notin Outside /\ owed'[a] # "none"
  BY <1>0, <1>1 DEF PlacedFor, Goes, Outside
<1> QED
  BY <1>1, <1>2, <1>3, <1>4, LoopStep


LEMMA PauseEffect ==
  ASSUME Inv, NEW a \in Agents, Pause(a)
  PROVE  /\ todo[a] \in {"talk", "wait"} /\ room.state = "active" /\ Others(a) /\ FaultsGrow
         /\ room' = [room EXCEPT !.state = "paused"] /\ UNCHANGED <<log, rows, restarts, mute>>
         /\ Goes(a, "stop", owed[a])
<1>1. /\ todo[a] \in {"talk", "wait"} /\ room.state = "active"
      /\ faults < MaxFaults /\ faults' = faults + 1
      /\ room' = [room EXCEPT !.state = "paused"] /\ UNCHANGED <<log, rows, restarts, owed, mute>>
      /\ todo' = [todo EXCEPT ![a] = "stop"]
  BY DEF Pause
<1>2. AgentsOK
  BY Within
<1>3. FaultsGrow
  BY <1>1, <1>2, OneFault
<1>4. Others(a) /\ Goes(a, "stop", owed[a])
  BY <1>1, <1>2 DEF AgentsOK, Others, Goes, Steps
<1> QED
  BY <1>1, <1>3, <1>4

LEMMA WakeEffect ==
  ASSUME Inv, NEW a \in Agents, Wake(a)
  PROVE  /\ todo[a] = "stop" /\ Others(a) /\ FaultsGrow /\ UNCHANGED <<log, rows, restarts>>
         /\ \/ /\ room.state = "paused" /\ room' = [room EXCEPT !.state = "active"]
               /\ UNCHANGED mute /\ owed'[a] = owed[a]
               /\ todo'[a] \in {"stop", IF owed[a] = "none" THEN "wait" ELSE "talk"}
            \/ /\ room.state = "active" /\ UNCHANGED room /\ Goes(a, "wait", "none")
               /\ mute' = IF owed[a] = "none" THEN mute ELSE mute \cup 0 .. Len(log)
<1> DEFINE next == IF owed[a] = "none" THEN "wait" ELSE "talk"
<1>1. todo[a] = "stop" /\ UNCHANGED <<log, rows, restarts>>
  BY DEF Wake
<1>2. AgentsOK /\ owed[a] \in Debts /\ next \in Steps
  BY Within DEF Steps
<1>3. CASE /\ room.state = "paused" /\ room' = [room EXCEPT !.state = "active"]
           /\ Answer(a, next, owed[a]) /\ UNCHANGED mute
  <2> HIDE DEF next
  <2>1. Others(a) /\ FaultsGrow /\ (Goes(a, next, owed[a]) \/ Goes(a, todo[a], owed[a]))
    BY <1>2, <1>3, AnswerFacts
  <2>2. todo'[a] \in {"stop", next} /\ owed'[a] = owed[a]
    BY <1>1, <2>1 DEF Goes
  <2> QED
    BY <1>1, <1>3, <2>1, <2>2 DEF next
<1>4. CASE /\ room.state = "active" /\ Told(a, "wait", "none") /\ UNCHANGED room
           /\ mute' = IF owed[a] = "none" THEN mute ELSE mute \cup 0 .. Len(log)
  <2>1. Others(a) /\ Goes(a, "wait", "none") /\ FaultsGrow
    BY <1>2, <1>4, ToldFacts DEF Steps, Debts
  <2> QED
    BY <1>1, <1>4, <2>1
<1> QED
  BY <1>3, <1>4 DEF Wake

LEMMA RestartEffect ==
  ASSUME Inv, NEW a \in Agents, Restart(a)
  PROVE  /\ todo[a] \notin {"idle", "open"} /\ room.state # "closed"
         /\ Others(a) /\ FaultsGrow /\ UNCHANGED <<room, log, rows>>
         /\ mute' = IF owed[a] = "human" THEN mute \cup 1 .. Len(log) ELSE mute
         /\ Goes(a, "join", "none")
         /\ restarts' \in [Agents -> 0 .. MaxFaults] /\ restarts'[a] = restarts[a] + 1
         /\ \A b \in Agents : b # a => restarts'[b] = restarts[b]
         /\ \A b \in Agents : restarts'[b] <= faults'
<1>1. /\ todo[a] \notin {"idle", "open"} /\ room.state # "closed" /\ UNCHANGED <<room, log, rows>>
      /\ faults < MaxFaults /\ faults' = faults + 1
      /\ restarts' = [restarts EXCEPT ![a] = @ + 1]
      /\ mute' = IF owed[a] = "human" THEN mute \cup 1 .. Len(log) ELSE mute
      /\ todo' = [todo EXCEPT ![a] = "join"] /\ owed' = [owed EXCEPT ![a] = "none"]
  BY DEF Restart
<1>2. AgentsOK
  BY Within
<1>3. FaultsGrow
  BY <1>1, <1>2, OneFault
<1>4. Others(a) /\ Goes(a, "join", "none")
  BY <1>1, <1>2 DEF AgentsOK, Others, Goes, Steps, Debts
<1>5. /\ restarts[a] \in 0 .. MaxFaults /\ restarts[a] <= faults
      /\ MaxFaults \in Nat /\ faults \in 0 .. MaxFaults
  BY <1>2, ConstantTypes DEF AgentsOK
<1>6. restarts[a] + 1 \in 0 .. MaxFaults /\ restarts[a] + 1 <= faults'
  BY <1>1, <1>5
<1>7. /\ restarts' \in [Agents -> 0 .. MaxFaults] /\ restarts'[a] = restarts[a] + 1
      /\ \A b \in Agents : b # a => restarts'[b] = restarts[b]
  BY <1>1, <1>2, <1>6 DEF AgentsOK
<1>8. ASSUME NEW b \in Agents PROVE restarts'[b] <= faults'
  <2>1. restarts[b] \in Nat /\ restarts[b] <= faults
    BY <1>2, ConstantTypes DEF AgentsOK
  <2> QED
    BY <1>1, <1>5, <1>6, <1>7, <2>1
<1> QED
  BY <1>1, <1>3, <1>4, <1>7, <1>8

LEMMA InvPause == ASSUME Inv, NEW a \in Agents, Pause(a) PROVE Inv'
<1>1. RoomOK' /\ room'.state # "none"
  BY PauseEffect DEF Inv, RoomOK
<1>2. LogOK' /\ RowsOK' /\ DOMAIN rows' = DOMAIN rows
  BY PauseEffect, Elsewhere
<1>3. todo[a] \notin Outside /\ todo'[a] = "stop" /\ todo'[a] \notin Outside
  BY PauseEffect DEF Outside, Goes
<1> QED
  BY <1>1, <1>2, <1>3, PauseEffect, LoopStep

LEMMA InvWake == ASSUME Inv, NEW a \in Agents, Wake(a) PROVE Inv'
<1>0. RoomOK
  BY DEF Inv
<1>1. RoomOK' /\ room'.state # "none"
  BY <1>0, WakeEffect DEF RoomOK
<1>2. mute' \subseteq mute \cup 0 .. Len(log)
  BY WakeEffect
<1>3. LogOK' /\ RowsOK' /\ DOMAIN rows' = DOMAIN rows
  BY <1>2, WakeEffect, Elsewhere
<1>4. /\ todo[a] \notin Outside /\ todo'[a] \notin Outside
      /\ todo'[a] \in {"recap", "talk"} => owed'[a] # "none"
  BY WakeEffect DEF Outside, Goes
<1> QED
  BY <1>1, <1>3, <1>4, WakeEffect, LoopStep

LEMMA InvRestart == ASSUME Inv, NEW a \in Agents, Restart(a) PROVE Inv'
<1>0. RoomOK /\ LogOK /\ RowsOK /\ AgentsOK /\ Placed /\ PlacedFor(a)
  BY Within DEF Inv
<1>1. RoomOK'
  BY <1>0, RestartEffect DEF RoomOK
<1>2. LogOK'
  <2>1. 1 .. Len(log) \subseteq 0 .. Len(log)
    BY <1>0 DEF LogOK
  <2> QED
    BY <1>0, <2>1, RestartEffect DEF LogOK
<1>3. RowsOK'
  <2>1. \A b \in Agents : restarts'[b] \in Nat /\ restarts[b] \in Nat /\ restarts[b] <= restarts'[b]
    <3>1. restarts \in [Agents -> Nat]
      BY <1>0, ConstantTypes DEF AgentsOK
    <3> QED
      BY <3>1, RestartEffect
  <2>2. ASSUME NEW j \in DOMAIN rows PROVE j[2] <= restarts'[j[1]] + 1
    <3>1. j[1] \in Agents /\ j[2] \in Nat /\ j[2] <= restarts[j[1]] + 1
      BY <1>0, ConstantTypes DEF RowsOK, Instances
    <3>2. restarts'[j[1]] \in Nat /\ restarts[j[1]] \in Nat /\ restarts[j[1]] <= restarts'[j[1]]
      BY <2>1, <3>1
    <3> QED
      BY <3>1, <3>2
  <2> QED
    BY <1>0, <2>2, RestartEffect DEF RowsOK
<1>4. AgentsOK'
  BY RestartEffect DEF AgentsOK, Others, FaultsGrow
<1>5. PlacedFor(a)'
  BY <1>0, RestartEffect DEF PlacedFor, Goes, Outside
<1>6. Placed'
  BY <1>0, <1>5, RestartEffect, OthersPlaced
<1> QED
  BY <1>1, <1>2, <1>3, <1>4, <1>6 DEF Inv


LEMMA DarkEffect ==
  ASSUME Inv, NEW i \in DOMAIN rows, GoDark(i)
  PROVE  /\ UNCHANGED <<room, log, restarts, todo, owed, mute, faults>>
         /\ SameReads /\ \A j \in DOMAIN rows : VotesOf(j)
<1>1. RowsOK /\ rows[i] \in Participant
  BY DEF Inv, RowsOK
<1>2. \A j \in DOMAIN rows : rows'[j] = IF j = i THEN [rows[i] EXCEPT !.dark = TRUE] ELSE rows[j]
  BY <1>1 DEF GoDark
<1>3. DOMAIN rows' = DOMAIN rows /\ rows' = [j \in DOMAIN rows |-> rows'[j]]
  BY DEF GoDark
<1> DEFINE f == [rows[i] EXCEPT !.dark = TRUE]
<1>4. /\ f \in Participant /\ f.cursor = rows[i].cursor /\ f.start = rows[i].start
      /\ f.close = rows[i].close /\ f.extend = rows[i].extend
  BY <1>1 DEF Participant
<1>5. \A j \in DOMAIN rows : rows[j] \in Participant
  BY <1>1 DEF RowsOK
<1>6. \A j \in DOMAIN rows : rows'[j] = IF j = i THEN f ELSE rows[j]
  BY <1>2
<1> HIDE DEF f
<1>7. \A j \in DOMAIN rows :
        /\ rows'[j] \in Participant /\ VotesOf(j)
        /\ rows'[j].cursor = rows[j].cursor /\ rows'[j].start = rows[j].start
  BY <1>4, <1>5, <1>6 DEF VotesOf
<1> QED
  BY <1>3, <1>7 DEF SameReads, GoDark

\* What a step that tells nobody anything does to the rest.
LEMMA InvDark == ASSUME Inv, NEW i \in DOMAIN rows, GoDark(i) PROVE Inv'
<1>1. RoomOK /\ LogOK /\ RowsOK /\ AgentsOK /\ Placed
  BY DEF Inv
<1>2. RowsOK' /\ LogOK' /\ RoomOK' /\ AgentsOK'
  BY <1>1, DarkEffect, LogStays, ReadsKept DEF LogOK, RoomOK, AgentsOK
<1>3. ASSUME NEW a \in Agents PROVE PlacedFor(a)'
  <2>1. Instance(a)' = Instance(a) /\ DOMAIN rows' = DOMAIN rows
    BY DarkEffect, SameInstance DEF SameReads
  <2> QED
    BY <1>1, <2>1, DarkEffect DEF Placed, PlacedFor, Member
<1> QED
  BY <1>2, <1>3 DEF Inv, Placed

LEMMA InvStutter == ASSUME Inv, UNCHANGED vars PROVE Inv'
<1>1. UNCHANGED <<room, log, rows, restarts, todo, owed, mute, faults>>
  BY DEF vars
<1>2. \A a \in Agents : Instance(a)' = Instance(a)
  BY <1>1, SameInstance
<1> QED
  BY <1>1, <1>2
  DEF Inv, RoomOK, LogOK, RowsOK, AgentsOK, Placed, PlacedFor, Member

LEMMA InvStep == Inv /\ [Next]_vars => Inv'
<1> SUFFICES ASSUME Inv, [Next]_vars PROVE Inv'
  OBVIOUS
<1>1. CASE Open
  BY <1>1, InvOpen
<1>2. ASSUME NEW a \in Agents,
             \/ Paste(a) \/ Join(a) \/ Recap(a) \/ Send(a) \/ Wait(a) \/ Close(a) \/ Extend(a)
             \/ \E k \in Signals : Signal(a, k)
             \/ Pause(a) \/ Wake(a) \/ Restart(a)
      PROVE  Inv'
  BY <1>2, InvPaste, InvJoin, InvRecap, InvSend, InvWait, InvClose, InvExtend, InvSignal,
     InvPause, InvWake, InvRestart
<1>3. ASSUME NEW i \in DOMAIN rows, GoDark(i) PROVE Inv'
  BY <1>3, InvDark
<1>4. CASE UNCHANGED vars
  BY <1>4, InvStutter
<1> QED
  BY <1>1, <1>2, <1>3, <1>4 DEF Next

LEMMA InvAlways == Spec => []Inv
BY InitInv, InvStep, PTL DEF Spec

LEMMA InvTypes == Inv => TypeOK
<1> SUFFICES ASSUME Inv PROVE TypeOK
  OBVIOUS
<1>0. RoomOK /\ LogOK /\ RowsOK /\ AgentsOK
  BY DEF Inv
<1>1. ASSUME NEW a \in Anchored PROVE RowsOf(a) \subseteq {<<a, 0>>}
  <2>1. ASSUME NEW i \in DOMAIN rows, i[1] = a PROVE i = <<a, 0>>
    <3>1. i \in Agents \X (0 .. MaxFaults + 1) /\ i[2] = 0
      BY <1>0, <1>1, <2>1 DEF RowsOK, Instances
    <3> QED
      BY <2>1, <3>1
  <2> QED
    BY <2>1 DEF RowsOf
<1>2. ASSUME NEW i \in DOMAIN rows
      PROVE  rows[i] \in [cursor : 0 .. Len(log), start : 0 .. Len(log),
                          dark : BOOLEAN, close : BOOLEAN, extend : BOOLEAN]
  <2>1. rows[i] \in Participant /\ rows[i].cursor <= Len(log) /\ rows[i].start <= Len(log)
    BY <1>0 DEF RowsOK
  <2>2. Len(log) \in Nat
    BY <1>0 DEF LogOK
  <2>3. rows[i].cursor \in 0 .. Len(log) /\ rows[i].start \in 0 .. Len(log)
    BY <2>1, <2>2 DEF Participant
  <2> QED
    BY <2>1, <2>3 DEF Participant
<1>3. room.state \in {"none", "active", "paused", "closed"} /\ room.cap \in HardCap .. MaxCap + ExtendStep
  BY <1>0 DEF RoomOK
<1>4. log \in Seq([from : Instances, kind : Kinds, human : BOOLEAN]) /\ Len(log) <= MaxLog
  BY <1>0 DEF LogOK, Message
<1> QED
  BY <1>0, <1>1, <1>2, <1>3, <1>4 DEF TypeOK, LogOK, RowsOK, AgentsOK, Steps, Debts

\* Every behaviour keeps the types, and an agent that passes its label on every
\* call is one participant through every lost join and every restart
\* (detect_instance, join_room).
THEOREM GuidanceTypes == Spec => []TypeOK
BY InvAlways, InvTypes, PTL


-----------------------------------------------------------------------------
(* The soft cap.                                                            *)

\* What is counted up to a message stays as it was when the log grows.
LEMMA RunStays ==
  ASSUME Longer, NEW n \in 1 .. Len(log)
  PROVE  Run(log', n) = Run(log, n) /\ (Autonomous(log', n) <=> Autonomous(log, n))
<1>1. n \in Nat /\ \A k \in 1 .. n : log'[k] = log[k]
  BY DEF Longer
<1>2. \A k \in 1 .. n : /\ Autonomous(log', k) <=> Autonomous(log, k)
                        /\ \A b \in k .. n : Breaks(log', b) <=> Breaks(log, b)
  BY <1>1 DEF Autonomous, Breaks
<1>3. {k \in 1 .. n : Autonomous(log', k) /\ \A b \in k .. n : ~Breaks(log', b)}
        = {k \in 1 .. n : Autonomous(log, k) /\ \A b \in k .. n : ~Breaks(log, b)}
  BY <1>2
<1>4. n \in 1 .. n
  BY <1>1
<1> QED
  BY <1>2, <1>3, <1>4 DEF Run

\* An agent that owes the user's answer goes on owing it, until the user has been
\* heard or it is noted that it never will be.
Remembers(b) ==
  owed[b] = "human" =>
    \/ owed'[b] = "human"
    \/ 1 .. Len(log) \subseteq mute'
    \/ Breaks(log', Len(log'))

LEMMA AskedStays ==
  ASSUME Inv, Consulted, Longer, NEW b \in Agents, Instance(b)' = Instance(b),
         Instance(b) \in DOMAIN rows' =>
           /\ Instance(b) \in DOMAIN rows
           /\ rows'[Instance(b)].cursor = rows[Instance(b)].cursor
           /\ rows'[Instance(b)].start = rows[Instance(b)].start,
         mute \subseteq mute', Remembers(b)
  PROVE  \A n \in 1 .. Len(log') : ConsultedFor(b, n)'
<1> DEFINE i == Instance(b)
<1> SUFFICES ASSUME NEW n \in 1 .. Len(log'), i \in DOMAIN rows', log'[n].from[1] # b,
                    Autonomous(log', n), Run(log', n) = SoftCap - 1,
                    \A k \in n .. Len(log') : ~Breaks(log', k)
             PROVE  \/ rows'[i].cursor < n \/ owed'[b] = "human"
                    \/ n <= rows'[i].start \/ n \in mute'
  BY DEF ConsultedFor, Member
<1>1. Len(log) \in Nat /\ Len(log') \in Nat /\ Len(log) <= Len(log')
  BY DEF Longer
<1>2. i \in DOMAIN rows /\ rows[i].cursor \in Nat /\ rows[i].cursor <= Len(log)
  BY DEF Inv, RowsOK, Participant
<1>3. CASE n \in 1 .. Len(log)
  <2>1. /\ log[n].from[1] # b /\ Autonomous(log, n) /\ Run(log, n) = SoftCap - 1
        /\ \A k \in n .. Len(log) : ~Breaks(log, k)
    <3>1. log'[n] = log[n] /\ \A k \in n .. Len(log) : log'[k] = log[k] /\ k \in n .. Len(log')
      BY <1>1, <1>3 DEF Longer
    <3>2. Autonomous(log, n) /\ Run(log, n) = SoftCap - 1
      BY <1>3, RunStays
    <3> QED
      BY <3>1, <3>2 DEF Breaks
  <2>2. rows[i].cursor < n \/ owed[b] = "human" \/ n <= rows[i].start \/ n \in mute
    BY <1>2, <1>3, <2>1 DEF Consulted, ConsultedFor, Member
  <2>3. ~Breaks(log', Len(log'))
    BY <1>1
  <2> QED
    BY <1>3, <2>2, <2>3 DEF Remembers
<1>4. CASE n > Len(log)
  <2>1. rows'[i].cursor < n
    BY <1>1, <1>2, <1>4
  <2> QED
    BY <2>1
<1> QED
  BY <1>1, <1>3, <1>4


\* The same of a step that leaves the rows' cursors alone.
LEMMA AskedKept ==
  ASSUME Inv, Consulted, Longer, SameReads, UNCHANGED restarts, NEW b \in Agents,
         mute \subseteq mute', Remembers(b)
  PROVE  \A n \in 1 .. Len(log') : ConsultedFor(b, n)'
BY SameInstance, AskedStays DEF SameReads

\* The delivery of a message that reaches the soft cap makes the turn the user's.
LEMMA AskedDealt ==
  ASSUME Inv, Consulted, NEW a \in Agents, Wait(a), NEW m \in 1 .. Len(log), Deals(a, m),
         \/ UNCHANGED mute /\ Goes(a, "recap", Debt(a, m))
         \/ mute' = mute \cup {m} /\ Goes(a, "wait", owed[a])
  PROVE  \A n \in 1 .. Len(log') : ConsultedFor(a, n)'
<1> DEFINE i == Instance(a)
<1>1. /\ UNCHANGED <<log, restarts>> /\ i \in DOMAIN rows /\ Instance(a)' = i
      /\ i[1] = a
  BY WaitEffect, Within, SameInstance, InstanceFacts DEF Outside
<1> SUFFICES ASSUME NEW n \in 1 .. Len(log), log[n].from[1] # a,
                    Autonomous(log, n), Run(log, n) = SoftCap - 1,
                    \A k \in n .. Len(log) : ~Breaks(log, k)
             PROVE  \/ rows'[i].cursor < n \/ owed'[a] = "human"
                    \/ n <= rows'[i].start \/ n \in mute'
  BY <1>1 DEF ConsultedFor, Member
<1>2. rows'[i].cursor = m /\ rows'[i].start = rows[i].start /\ mute \subseteq mute'
  BY DEF Deals
<1>3. /\ rows[i].cursor \in Nat /\ Len(log) \in Nat
      /\ \A k \in 1 .. Len(log) : rows[i].cursor < k /\ k < m => log[k].from = i
  BY <1>1 DEF Inv, RowsOK, Participant, LogOK, Deals
<1>4. CASE n = m
  <2>1. Surfaces(m)
    BY <1>4 DEF Surfaces
  <2> QED
    BY <1>4, <2>1 DEF Goes, Debt
<1>5. CASE m < n
  BY <1>2, <1>5
<1>6. CASE n < m
  <2>1. rows[i].cursor < n => FALSE
    BY <1>1, <1>3, <1>6
  <2>2. owed[a] = "human" \/ n <= rows[i].start \/ n \in mute
    BY <1>1, <2>1 DEF Consulted, ConsultedFor, Member
  <2>3. owed[a] = "human" => owed'[a] = "human"
    BY DEF Goes, Debt
  <2> QED
    BY <1>2, <2>2, <2>3
<1> QED
  BY <1>3, <1>4, <1>5, <1>6


LEMMA OthersRemember ==
  ASSUME NEW a \in Agents, Others(a), NEW b \in Agents, b # a
  PROVE  Remembers(b)
BY DEF Others, Remembers

\* The step of an agent that reads nothing.
LEMMA ConsultedLoop ==
  ASSUME Inv, Consulted, Longer, SameReads, UNCHANGED restarts, NEW a \in Agents, Others(a),
         mute \subseteq mute', Remembers(a)
  PROVE  Consulted'
<1>1. \A b \in Agents : Remembers(b)
  BY OthersRemember
<1>2. ASSUME NEW b \in Agents PROVE \A n \in 1 .. Len(log') : ConsultedFor(b, n)'
  BY <1>1, AskedKept
<1> QED
  BY <1>2 DEF Consulted

LEMMA ConsultedSend == ASSUME Inv, Consulted, NEW a \in Agents, Send(a) PROVE Consulted'
<1>0. LogOK /\ RowsOK /\ Instance(a) \in Instances
  BY Within
<1>1. Others(a) /\ UNCHANGED <<restarts, mute>>
  BY SendEffect
<1>2. CASE UNCHANGED <<log, rows>> /\ owed'[a] = owed[a]
  <2>1. Longer /\ SameReads
    BY <1>0, <1>2, LogStays, RowsStay
  <2> QED
    BY <1>1, <1>2, <2>1, ConsultedLoop DEF Remembers
<1>3. CASE /\ Len(log) < MaxLog /\ SameReads
           /\ log' = Append(log, Entry(Instance(a), "msg", owed[a] = "human"))
  <2>1. "msg" \in Kinds /\ (owed[a] = "human") \in BOOLEAN
    BY DEF Kinds
  <2>2. Longer /\ log'[Len(log')] = Entry(Instance(a), "msg", owed[a] = "human")
    BY <1>0, <1>1, <1>3, <2>1, LogGrows, Grows
  <2>3. ASSUME owed[a] = "human" PROVE Breaks(log', Len(log'))
    <3>1. (owed[a] = "human") = TRUE
      BY <2>3
    <3>2. log'[Len(log')] = Entry(Instance(a), "msg", TRUE)
      BY <2>2, <3>1
    <3> QED
      BY <3>2 DEF Breaks, Entry
  <2> QED
    BY <1>1, <1>3, <2>2, <2>3, ConsultedLoop DEF Remembers
<1> QED
  BY <1>2, <1>3, SendEffect DEF Goes

LEMMA ConsultedSignal ==
  ASSUME Inv, Consulted, NEW a \in Agents, NEW k \in Signals, Signal(a, k) PROVE Consulted'
<1>0. LogOK /\ RowsOK /\ Instance(a) \in Instances /\ k \in Kinds /\ FALSE \in BOOLEAN
  BY Within, GuidanceAssumption DEF Kinds
<1>1. Others(a) /\ UNCHANGED <<rows, restarts, mute>>
  BY SignalEffect
<1>2. Longer
  BY <1>0, <1>1, SignalEffect, LogStays, LogGrows
<1>3. Remembers(a)
  BY SignalEffect DEF Remembers, Goes
<1> QED
  BY <1>0, <1>1, <1>2, <1>3, RowsStay, ConsultedLoop

LEMMA ConsultedWait == ASSUME Inv, Consulted, NEW a \in Agents, Wait(a) PROVE Consulted'
<1>0. LogOK /\ RowsOK /\ AgentsOK
  BY Within
<1>1. Others(a) /\ UNCHANGED <<log, restarts>> /\ Longer
  BY <1>0, WaitEffect, LogStays
<1>2. CASE UNCHANGED mute /\ SameReads /\ owed'[a] = owed[a]
  BY <1>1, <1>2, ConsultedLoop DEF Remembers
<1>3. ASSUME NEW m \in 1 .. Len(log), Deals(a, m),
             \/ ~Halted /\ UNCHANGED mute /\ Goes(a, "recap", Debt(a, m))
             \/ mute' = mute \cup {m} /\ Goes(a, "wait", owed[a])
      PROVE  Consulted'
  <2>1. \A n \in 1 .. Len(log') : ConsultedFor(a, n)'
    BY <1>3, AskedDealt
  <2>2. ASSUME NEW b \in Agents, b # a PROVE \A n \in 1 .. Len(log') : ConsultedFor(b, n)'
    <3>1. Instance(b) # Instance(a) /\ Instance(b)' = Instance(b)
      BY <1>0, <1>1, <2>2, InstanceFacts, SameInstance
    <3>2. DOMAIN rows' = DOMAIN rows /\ (Instance(b) \in DOMAIN rows => rows'[Instance(b)] = rows[Instance(b)])
      BY <1>3, <3>1 DEF Deals
    <3>3. Remembers(b) /\ mute \subseteq mute'
      BY <1>1, <1>3, <2>2, OthersRemember
    <3> QED
      BY <1>1, <3>1, <3>2, <3>3, AskedStays
  <2> QED
    BY <2>1, <2>2 DEF Consulted
<1> QED
  BY <1>2, <1>3, WaitEffect

LEMMA ConsultedClose == ASSUME Inv, Consulted, NEW a \in Agents, Close(a) PROVE Consulted'
<1>0. LogOK /\ RowsOK
  BY Within
<1>1. Others(a) /\ UNCHANGED <<log, restarts, mute>> /\ Longer /\ SameReads
  BY <1>0, CloseEffect, LogStays, RowsStay
<1>2. Remembers(a)
  BY CloseEffect DEF Remembers
<1> QED
  BY <1>1, <1>2, ConsultedLoop

LEMMA ConsultedExtend == ASSUME Inv, Consulted, NEW a \in Agents, Extend(a) PROVE Consulted'
<1>0. LogOK /\ RowsOK /\ Instance(a) \in Instances /\ "extend" \in Kinds /\ FALSE \in BOOLEAN
  BY Within DEF Kinds
<1>1. Others(a) /\ UNCHANGED <<restarts, mute>> /\ SameReads /\ Remembers(a)
  BY <1>0, ExtendEffect, RowsStay DEF Remembers
<1>2. Longer
  BY <1>0, <1>1, ExtendEffect, LogStays, LogGrows
<1> QED
  BY <1>1, <1>2, ConsultedLoop

LEMMA ConsultedAside ==
  ASSUME Inv, Consulted, NEW a \in Agents, Paste(a) \/ Recap(a) \/ Pause(a) \/ Wake(a)
  PROVE  Consulted'
<1>0. LogOK /\ RowsOK /\ AgentsOK /\ PlacedFor(a) /\ owed[a] \in Debts
  BY Within
<1>1. UNCHANGED <<log, rows, restarts>> /\ mute \subseteq mute'
  BY PauseEffect, WakeEffect DEF Paste, Recap
<1>2. Others(a) /\ Remembers(a)
  <2>1. CASE Paste(a)
    BY <1>0, <2>1, ToldFacts DEF Paste, PlacedFor, Outside, Steps, Debts, Remembers
  <2>2. CASE Recap(a)
    BY <1>0, <2>2, ToldFacts DEF Recap, Steps, Remembers, Goes
  <2>3. CASE Pause(a)
    BY <2>3, PauseEffect DEF Remembers, Goes
  <2>4. CASE Wake(a)
    <3>1. 1 .. Len(log) \subseteq 0 .. Len(log)
      BY <1>0 DEF LogOK
    <3> QED
      BY <2>4, <3>1, WakeEffect DEF Remembers
  <2> QED
    BY <2>1, <2>2, <2>3, <2>4
<1> QED
  BY <1>0, <1>1, <1>2, LogStays, RowsStay, ConsultedLoop


LEMMA ConsultedJoin == ASSUME Inv, Consulted, NEW a \in Agents, Join(a) PROVE Consulted'
<1>0. LogOK /\ RowsOK /\ AgentsOK /\ PlacedFor(a)
  BY Within
<1>1. Others(a) /\ UNCHANGED <<log, restarts, mute>> /\ Longer
  BY <1>0, JoinEffect, LogStays
<1>2. ASSUME NEW b \in Agents, b # a \/ Instance(a) \in DOMAIN rows
      PROVE  \A n \in 1 .. Len(log') : ConsultedFor(b, n)'
  <2>1. Instance(b)' = Instance(b) /\ (b # a => Instance(b) # Instance(a))
    BY <1>0, <1>1, InstanceFacts, SameInstance
  <2>2. Instance(b) \in DOMAIN rows' =>
          Instance(b) \in DOMAIN rows /\ rows'[Instance(b)] = rows[Instance(b)]
    <3>1. /\ DOMAIN rows' = DOMAIN rows \cup {Instance(a)}
          /\ \A j \in DOMAIN rows : rows'[j] = rows[j]
      BY JoinEffect
    <3>2. Instance(b) \in DOMAIN rows \/ Instance(b) # Instance(a)
      BY <1>2, <2>1
    <3> QED
      BY <3>1, <3>2
  <2>3. Remembers(b)
    <3>1. todo[a] = "join" /\ owed[a] = "none"
      BY <1>0, JoinEffect DEF PlacedFor, Outside
    <3> QED
      BY <1>1, <3>1, OthersRemember DEF Remembers
  <2> QED
    BY <1>1, <2>1, <2>2, <2>3, AskedStays
<1>3. ASSUME Instance(a) \notin DOMAIN rows, NEW n \in 1 .. Len(log') PROVE ConsultedFor(a, n)'
  <2>1. Instance(a)' = Instance(a)
    BY <1>1, SameInstance
  <2>2. rows'[Instance(a)] = [cursor |-> Len(log), start |-> Len(log),
                              dark |-> FALSE, close |-> FALSE, extend |-> FALSE]
    BY <1>3, JoinEffect
  <2>3. rows'[Instance(a)].start = Len(log)
    BY <2>2
  <2>4. n <= rows'[Instance(a)].start
    BY <1>0, <1>1, <2>3 DEF LogOK
  <2> QED
    BY <2>1, <2>4 DEF ConsultedFor
<1> QED
  BY <1>2, <1>3 DEF Consulted

\* An agent that comes back with its label is who it was, and one without is
\* somebody new, who has read nothing.
LEMMA ConsultedRestart == ASSUME Inv, Consulted, NEW a \in Agents, Restart(a) PROVE Consulted'
<1>0. LogOK /\ RowsOK /\ AgentsOK
  BY Within
<1>1. Others(a) /\ UNCHANGED <<log, rows>> /\ Longer /\ mute \subseteq mute'
  BY <1>0, RestartEffect, LogStays
<1>2. ASSUME NEW b \in Agents, Instance(b)' = Instance(b)
      PROVE  \A n \in 1 .. Len(log') : ConsultedFor(b, n)'
  <2>1. Remembers(b)
    BY <1>1, OthersRemember, RestartEffect DEF Remembers
  <2> QED
    BY <1>1, <1>2, <2>1, AskedStays
<1>3. ASSUME NEW b \in Agents, Instance(b)' # Instance(b) PROVE ~Member(b)'
  <2>1. b = a
    BY <1>3, SameInstance, RestartEffect
  <2>2. AgentsOK'
    BY RestartEffect, InvRestart, Within DEF Inv
  <2>3. Instance(a)' = <<a, IF a \in Anchored THEN 0 ELSE restarts'[a] + 1>>
    BY <2>2, InstanceIsNext DEF Identified
  <2>4. a \notin Anchored
    BY <1>0, <1>3, <2>1, <2>3, InstanceIs
  <2>5. restarts[a] \in Nat /\ restarts'[a] = restarts[a] + 1
    BY <1>0, InstanceFacts, RestartEffect
  <2>6. <<a, restarts[a] + 2>> \notin DOMAIN rows
    <3>1. ASSUME <<a, restarts[a] + 2>> \in DOMAIN rows PROVE FALSE
      <4>1. <<a, restarts[a] + 2>>[2] <= restarts[<<a, restarts[a] + 2>>[1]] + 1
        BY <1>0, <3>1 DEF RowsOK
      <4> QED
        BY <2>5, <4>1
    <3> QED
      BY <3>1
  <2> QED
    BY <1>1, <2>1, <2>3, <2>4, <2>5, <2>6 DEF Member
<1> QED
  BY <1>2, <1>3 DEF Consulted, ConsultedFor

LEMMA ConsultedStep == Inv /\ Consulted /\ [Next]_vars => Consulted'
<1> SUFFICES ASSUME Inv, Consulted, [Next]_vars PROVE Consulted'
  OBVIOUS
<1>0. LogOK /\ RowsOK
  BY DEF Inv
<1>1. CASE Open
  <2>1. /\ UNCHANGED <<log, rows, restarts, mute>> /\ Others(Opener) /\ Opener \in Agents
        /\ Goes(Opener, "join", "none") /\ PlacedFor(Opener) /\ todo[Opener] = "open"
    BY <1>1, ConstantTypes, ToldFacts DEF Open, Steps, Debts, Inv, Placed
  <2>2. Remembers(Opener)
    BY <2>1 DEF Remembers, PlacedFor, Outside
  <2> QED
    BY <1>0, <2>1, <2>2, LogStays, RowsStay, ConsultedLoop
<1>2. ASSUME NEW a \in Agents,
             \/ Paste(a) \/ Join(a) \/ Recap(a) \/ Send(a) \/ Wait(a) \/ Close(a) \/ Extend(a)
             \/ \E k \in Signals : Signal(a, k)
             \/ Pause(a) \/ Wake(a) \/ Restart(a)
      PROVE  Consulted'
  BY <1>2, ConsultedAside, ConsultedJoin, ConsultedSend, ConsultedWait, ConsultedClose,
     ConsultedExtend, ConsultedSignal, ConsultedRestart
<1>3. CASE (\E i \in DOMAIN rows : GoDark(i)) \/ UNCHANGED vars
  <2>1. UNCHANGED <<log, restarts, owed, mute>> /\ SameReads
    BY <1>0, <1>3, DarkEffect, RowsStay DEF vars
  <2>2. ASSUME NEW b \in Agents PROVE \A n \in 1 .. Len(log') : ConsultedFor(b, n)'
    BY <1>0, <2>1, LogStays, AskedKept DEF Remembers
  <2> QED
    BY <2>2 DEF Consulted
<1> QED
  BY <1>1, <1>2, <1>3 DEF Next

LEMMA ConsultedAlways == Spec => []Consulted
<1>1. Init => Consulted
  BY DEF Init, Consulted, ConsultedFor, Member
<1> QED
  BY <1>1, InvAlways, ConsultedStep, PTL DEF Spec

\* Once there are SoftCap autonomous turns in a row, somebody's user is being
\* asked: the delivery of the turn before them told its reader so (wait_next),
\* and the reader has owed the user's answer ever since, or the turn is unread,
\* older than the reader, or noted as dealt in a way that tells nobody.
THEOREM UserConsulted == Spec => []ConsultedInTime
<1>1. Consulted => ConsultedInTime
  BY DEF Consulted, ConsultedFor, ConsultedInTime
<1> QED
  BY <1>1, ConsultedAlways, PTL


-----------------------------------------------------------------------------
(* The floor.                                                               *)

\* In a settled room there are two rows, one of each agent.
LEMMA Pair ==
  ASSUME Inv, Settled, NEW a \in Agents
  PROVE  \E b \in Agents : /\ a # b /\ Agents = {a, b}
                           /\ DOMAIN rows = {Instance(a), Instance(b)} /\ Instance(a) # Instance(b)
<1>1. PICK b \in Agents : a # b /\ Agents = {a, b}
  BY GuidanceAssumption
<1>2. RowsOK /\ AgentsOK
  BY Within
<1>3. Instance(a)[1] = a /\ Instance(b)[1] = b
  BY <1>2, InstanceFacts
<1>4. RowsOf(a) = {Instance(a)} /\ RowsOf(b) = {Instance(b)}
  BY DEF Settled
<1>5. \A j \in DOMAIN rows : j[1] \in Agents
  BY <1>2 DEF RowsOK, Instances
<1>6. \A j \in DOMAIN rows : j \in RowsOf(a) \/ j \in RowsOf(b)
  BY <1>1, <1>5 DEF RowsOf
<1>7. Instance(a) \in DOMAIN rows /\ Instance(b) \in DOMAIN rows
  BY <1>4 DEF RowsOf
<1> QED
  BY <1>1, <1>3, <1>4, <1>6, <1>7

\* A room that is settled after the step of an agent in the loop was so before.
LEMMA SettledBefore ==
  ASSUME Settled', NEW a \in Agents, Others(a), todo[a] \notin Outside, UNCHANGED restarts,
         DOMAIN rows' = DOMAIN rows, mute \subseteq mute',
         room.state = "closed" => room'.state = "closed"
  PROVE  Settled
<1>1. ASSUME NEW b \in Agents PROVE todo[b] \notin Outside /\ RowsOf(b) = {Instance(b)}
  <2>1. Instance(b)' = Instance(b)
    BY SameInstance
  <2>2. RowsOf(b)' = RowsOf(b)
    BY DEF RowsOf
  <2> QED
    BY <2>1, <2>2 DEF Settled, Others
<1> QED
  BY <1>1 DEF Settled

\* What is unread stays unread until it is read.
LEMMA MailStays ==
  ASSUME Inv, Longer, SameReads, UNCHANGED restarts, Settled, Mail
  PROVE  Mail'
<1>1. PICK b \in Agents : Unread(Instance(b)) # {}
  BY DEF Mail
<1> DEFINE i == Instance(b)
<1>2. Instance(b)' = i /\ i \in DOMAIN rows
  BY SameInstance, Within DEF Settled
<1>3. PICK n \in rows[i].cursor + 1 .. Len(log) : log[n].from # i
  BY <1>1 DEF Unread
<1>4. rows[i].cursor \in Nat
  BY <1>2 DEF Inv, RowsOK, Participant
<1>5. /\ n \in 1 .. Len(log) /\ n \in rows[i].cursor + 1 .. Len(log') /\ log'[n] = log[n]
      /\ rows'[i].cursor = rows[i].cursor
  BY <1>2, <1>3, <1>4 DEF Longer, SameReads
<1>6. n \in Unread(Instance(b))'
  BY <1>2, <1>3, <1>5 DEF Unread
<1> QED
  BY <1>6 DEF Mail

\* A message is mail for the other agent.
LEMMA MailPosted ==
  ASSUME Inv, Settled, NEW a \in Agents, SameReads, UNCHANGED restarts, Len(log) < MaxLog,
         NEW k \in Kinds, NEW h \in BOOLEAN, log' = Append(log, Entry(Instance(a), k, h))
  PROVE  Mail'
<1>1. PICK b \in Agents : DOMAIN rows = {Instance(a), Instance(b)} /\ Instance(a) # Instance(b)
  BY Pair
<1>2. /\ Len(log) \in Nat /\ Len(log') = Len(log) + 1
      /\ log'[Len(log) + 1] = Entry(Instance(a), k, h)
  BY Within, Grows
<1>3. Instance(b)' = Instance(b)
  BY SameInstance
<1>4. rows'[Instance(b)].cursor \in Nat /\ rows'[Instance(b)].cursor <= Len(log)
  BY <1>1 DEF SameReads, Inv, RowsOK, Participant
<1>5. Len(log) + 1 \in rows'[Instance(b)].cursor + 1 .. Len(log')
  BY <1>2, <1>4
<1>6. log'[Len(log) + 1].from # Instance(b)
  BY <1>1, <1>2 DEF Entry
<1>7. Len(log) + 1 \in Unread(Instance(b))'
  BY <1>3, <1>5, <1>6 DEF Unread
<1> QED
  BY <1>7 DEF Mail

\* Votes that are only taken back.
LEMMA NotBothLess ==
  ASSUME NotBoth, DOMAIN rows' = DOMAIN rows,
         \A j \in DOMAIN rows : /\ rows'[j].close => rows[j].close
                                /\ rows'[j].extend => rows[j].extend
  PROVE  NotBoth'
BY DEF NotBoth

\* A step that takes no mail, no vote and no business away.
LEMMA FloorCalm ==
  ASSUME Inv, FloorOK, NEW a \in Agents, Others(a), todo[a] \notin Outside, UNCHANGED restarts,
         Longer, SameReads, mute \subseteq mute',
         \A j \in DOMAIN rows : VotesOf(j),
         room'.state \in {room.state, "active"}, room.state = "closed" => room'.state = "closed",
         Settled /\ Busy(a) => Busy(a)',
         Settled /\ owed'[a] = "none" => owed[a] = "none"
  PROVE  FloorOK'
<1>1. DOMAIN rows' = DOMAIN rows
  BY DEF SameReads
<1>2. NotBoth'
  BY <1>1, NotBothLess DEF FloorOK, VotesOf
<1>3. Settled' => Settled
  BY <1>1, SettledBefore
<1>4. Settled => (Mail => Mail')
  BY MailStays
<1>5. (CloseVote => CloseVote') /\ (ExtendVote => ExtendVote')
  BY <1>1 DEF CloseVote, ExtendVote, VotesOf
<1>6. ASSUME NEW b \in Agents, Settled, Busy(b) PROVE Busy(b)'
  <2>1. CASE b = a
    BY <1>6, <2>1
  <2>2. CASE b # a
    <3>1. todo'[b] = todo[b] /\ owed'[b] = owed[b]
      BY <2>2 DEF Others
    <3> QED
      BY <1>6, <3>1 DEF Busy
  <2> QED
    BY <2>1, <2>2
<1>7. ASSUME Settled, \A b \in Agents : owed'[b] = "none" PROVE \A b \in Agents : owed[b] = "none"
  BY <1>7 DEF Others
<1>8. NoDebt'
  BY <1>3, <1>4, <1>5, <1>7 DEF FloorOK, NoDebt
<1>9. Floor'
  BY <1>3, <1>4, <1>5, <1>6 DEF FloorOK, Floor
<1> QED
  BY <1>2, <1>8, <1>9 DEF FloorOK


\* A message settles the matter: the other agent has it to read.
LEMMA FloorPosted ==
  ASSUME Inv, NotBoth', NEW a \in Agents, Others(a), todo[a] \notin Outside, UNCHANGED restarts,
         SameReads, UNCHANGED mute, room.state = "closed" => room'.state = "closed",
         Len(log) < MaxLog, NEW k \in Kinds, NEW h \in BOOLEAN,
         log' = Append(log, Entry(Instance(a), k, h))
  PROVE  FloorOK'
<1>1. Settled' => Settled
  BY SettledBefore DEF SameReads
<1>2. Settled' => Mail'
  BY <1>1, MailPosted
<1> QED
  BY <1>2 DEF FloorOK, NoDebt, Floor

\* An agent that keeps its debt, and its place if it is to vote, stays busy.
LEMMA StaysBusy ==
  ASSUME NEW a \in Agents, Busy(a), owed'[a] = owed[a], todo'[a] # "wait",
         Halted \/ (todo'[a] \in {"capped", "close or talk", "extend or talk"} /\ UNCHANGED room)
  PROVE  Busy(a)'
<1>1. CASE owed[a] # "none"
  BY <1>1 DEF Busy
<1>2. CASE owed[a] = "none"
  <2>1. room.state = "active"
    BY <1>2 DEF Busy
  <2>2. todo'[a] \in {"capped", "close or talk", "extend or talk"} /\ room'.state = "active"
    BY <2>1 DEF Halted
  <2> QED
    BY <2>2 DEF Busy
<1> QED
  BY <1>1, <1>2

LEMMA FloorSend == ASSUME Inv, FloorOK, NEW a \in Agents, Send(a) PROVE FloorOK'
<1>1. /\ todo[a] \in {"talk", "close or talk", "extend or talk"}
      /\ UNCHANGED <<room, restarts, mute>> /\ Others(a) /\ FaultsGrow
      /\ \/ Halted /\ UNCHANGED <<log, rows>> /\ Goes(a, "stop", owed[a])
         \/ ~Halted /\ UNCHANGED <<log, rows>> /\ Goes(a, "capped", owed[a])
         \/ /\ ~Halted /\ Len(log) < MaxLog
            /\ log' = Append(log, Entry(Instance(a), "msg", owed[a] = "human"))
            /\ SameReads /\ OtherVotes(Instance(a))
            /\ ~rows'[Instance(a)].close /\ ~rows'[Instance(a)].extend
            /\ Goes(a, "wait", "none") \/ Goes(a, todo[a], owed[a])
  BY SendEffect
<1>2. todo[a] \notin Outside /\ RowsOK /\ LogOK
  BY <1>1, Within DEF Outside
<1>3. CASE \/ Halted /\ UNCHANGED <<log, rows>> /\ Goes(a, "stop", owed[a])
           \/ ~Halted /\ UNCHANGED <<log, rows>> /\ Goes(a, "capped", owed[a])
  <2>1. Longer /\ SameReads /\ \A j \in DOMAIN rows : VotesOf(j)
    BY <1>2, <1>3, LogStays, RowsStay
  <2>2. Busy(a) => Busy(a)'
    BY <1>1, <1>3, StaysBusy DEF Goes
  <2>3. owed'[a] = owed[a]
    BY <1>3 DEF Goes
  <2> QED
    BY <1>1, <1>2, <2>1, <2>2, <2>3, FloorCalm
<1>4. CASE /\ Len(log) < MaxLog
           /\ log' = Append(log, Entry(Instance(a), "msg", owed[a] = "human"))
           /\ SameReads /\ OtherVotes(Instance(a))
           /\ ~rows'[Instance(a)].close /\ ~rows'[Instance(a)].extend
  <2>1. NotBoth'
    BY <1>1, <1>4, NotBothLess DEF FloorOK, SameReads, OtherVotes, VotesOf
  <2>2. (owed[a] = "human") \in BOOLEAN /\ "msg" \in Kinds
    BY DEF Kinds
  <2> QED
    BY <1>1, <1>2, <1>4, <2>1, <2>2, FloorPosted
<1> QED
  BY <1>1, <1>3, <1>4

LEMMA FloorSignal ==
  ASSUME Inv, FloorOK, NEW a \in Agents, NEW k \in Signals, Signal(a, k)
  PROVE  FloorOK'
<1>1. /\ todo[a] = "talk" /\ UNCHANGED <<room, rows, restarts, mute>> /\ Others(a) /\ FaultsGrow
      /\ \/ UNCHANGED log /\ Goes(a, "stop", owed[a])
         \/ /\ Len(log) < MaxLog /\ log' = Append(log, Entry(Instance(a), k, FALSE))
            /\ Goes(a, "talk", "human") \/ Goes(a, "talk", owed[a])
  BY SignalEffect
<1>2. /\ todo[a] \notin Outside /\ RowsOK /\ LogOK
      /\ SameReads /\ \A j \in DOMAIN rows : VotesOf(j)
  BY <1>1, Within, RowsStay DEF Outside
<1>3. CASE UNCHANGED log /\ Goes(a, "stop", owed[a])
  <2>1. Longer
    BY <1>2, <1>3, LogStays
  <2>2. Busy(a) => Busy(a)'
    BY <1>1, <1>3 DEF Goes, Busy
  <2>3. owed'[a] = owed[a]
    BY <1>3 DEF Goes
  <2> QED
    BY <1>1, <1>2, <2>1, <2>2, <2>3, FloorCalm
<1>4. CASE Len(log) < MaxLog /\ log' = Append(log, Entry(Instance(a), k, FALSE))
  <2>1. NotBoth'
    BY <1>1, NotBothLess DEF FloorOK
  <2>2. k \in Kinds
    BY GuidanceAssumption DEF Kinds
  <2> QED
    BY <1>1, <1>2, <1>4, <2>1, <2>2, FloorPosted
<1> QED
  BY <1>1, <1>3, <1>4


LEMMA FloorWait == ASSUME Inv, FloorOK, NEW a \in Agents, Wait(a) PROVE FloorOK'
<1>1. /\ todo[a] = "wait" /\ UNCHANGED <<room, log, restarts>> /\ Others(a) /\ FaultsGrow
      /\ \/ \E n \in 1 .. Len(log) :
              /\ Deals(a, n)
              /\ \/ ~Halted /\ UNCHANGED mute /\ Goes(a, "recap", Debt(a, n))
                 \/ mute' = mute \cup {n} /\ Goes(a, "wait", owed[a])
         \/ /\ UNCHANGED mute /\ SameReads /\ \A j \in DOMAIN rows : VotesOf(j)
            /\ todo'[a] \in {"close or talk", "extend or talk", "wait", "stop"}
            /\ owed'[a] = owed[a]
  BY WaitEffect
<1>2. CASE UNCHANGED mute /\ SameReads /\ (\A j \in DOMAIN rows : VotesOf(j)) /\ owed'[a] = owed[a]
  <2>1. Longer /\ todo[a] \notin Outside
    BY <1>1, Within, LogStays DEF Outside
  <2>2. ~Busy(a)
    BY <1>1 DEF Busy
  <2> QED
    BY <1>1, <1>2, <2>1, <2>2, FloorCalm
<1>3. ASSUME NEW n \in 1 .. Len(log), Deals(a, n) PROVE NotBoth'
  <2>1. DOMAIN rows' = DOMAIN rows /\ \A j \in DOMAIN rows : VotesOf(j)
    BY <1>3 DEF Deals
  <2> QED
    BY <2>1, NotBothLess DEF FloorOK, VotesOf
<1>4. ASSUME NEW n \in 1 .. Len(log), Goes(a, "recap", Debt(a, n)) PROVE NoDebt' /\ Floor'
  <2>1. owed'[a] # "none" /\ Busy(a)'
    BY <1>4 DEF Goes, Debt, Busy
  <2> QED
    BY <2>1 DEF NoDebt, Floor
<1>5. ASSUME NEW n \in 1 .. Len(log), mute' = mute \cup {n} PROVE NoDebt' /\ Floor'
  BY <1>5 DEF NoDebt, Floor, Settled
<1> QED
  BY <1>1, <1>2, <1>3, <1>4, <1>5 DEF FloorOK

\* A step that changes no debt and takes no mail and no vote to close away.
LEMMA NoDebtKept ==
  ASSUME Inv, NoDebt, NEW a \in Agents, Others(a), todo[a] \notin Outside, UNCHANGED restarts,
         Longer, SameReads, mute \subseteq mute', owed'[a] = owed[a],
         \A j \in DOMAIN rows : rows[j].close => rows'[j].close,
         room.state = "closed" => room'.state = "closed"
  PROVE  NoDebt'
<1>1. (Settled' => Settled) /\ DOMAIN rows' = DOMAIN rows
  BY SettledBefore DEF SameReads
<1>2. Settled => (Mail => Mail')
  BY MailStays
<1>3. CloseVote => CloseVote'
  BY <1>1 DEF CloseVote
<1>4. \A b \in Agents : owed'[b] = owed[b]
  BY DEF Others
<1> QED
  BY <1>1, <1>2, <1>3, <1>4 DEF NoDebt

LEMMA FloorClose == ASSUME Inv, FloorOK, NEW a \in Agents, Close(a) PROVE FloorOK'
<1> DEFINE i == Instance(a)
<1>1. /\ todo[a] \in {"talk", "capped", "close or talk", "extend or talk"}
      /\ UNCHANGED <<log, restarts, mute>> /\ Others(a) /\ FaultsGrow
      /\ owed'[a] = owed[a] \/ (owed[a] # "human" /\ owed'[a] = "none")
      /\ \/ UNCHANGED <<room, rows>> /\ Goes(a, "stop", owed[a]) /\ room.state = "closed"
         \/ /\ room' = [room EXCEPT !.state = "closed"] /\ room.state # "closed" /\ SameReads
            /\ \A j \in DOMAIN rows : rows'[j].extend = rows[j].extend /\ ~rows'[j].close
            /\ todo'[a] \in {"stop", todo[a]} /\ (todo'[a] = todo[a] => owed'[a] = owed[a])
         \/ /\ UNCHANGED room /\ SameReads /\ OtherVotes(i) /\ room.state # "closed"
            /\ rows'[i].close /\ rows'[i].extend = rows[i].extend
            /\ \E j \in DOMAIN rows : ~rows'[j].close
            /\ todo'[a] \in {"wait", todo[a]} /\ (todo'[a] = todo[a] => owed'[a] = owed[a])
  BY CloseEffect
<1>2. NotBoth /\ i \in DOMAIN rows /\ RoomOK
  BY <1>1, Within DEF FloorOK, Outside
<1>3. ASSUME room'.state = "closed" PROVE NoDebt' /\ Floor'
  BY <1>3 DEF NoDebt, Floor, Settled
<1>4. CASE UNCHANGED <<room, rows>> /\ room.state = "closed"
  <2>1. NotBoth'
    BY <1>2, <1>4, NotBothLess
  <2> QED
    BY <1>3, <1>4, <2>1 DEF FloorOK
<1>5. CASE /\ room' = [room EXCEPT !.state = "closed"] /\ SameReads
           /\ \A j \in DOMAIN rows : rows'[j].extend = rows[j].extend /\ ~rows'[j].close
  <2>1. room'.state = "closed"
    BY <1>2, <1>5 DEF RoomOK
  <2>2. NotBoth'
    BY <1>2, <1>5, NotBothLess DEF SameReads
  <2> QED
    BY <1>3, <2>1, <2>2 DEF FloorOK
<1>6. CASE /\ SameReads /\ OtherVotes(i) /\ rows'[i].close /\ rows'[i].extend = rows[i].extend
           /\ \E j \in DOMAIN rows : ~rows'[j].close
  <2>1. DOMAIN rows' = DOMAIN rows /\ \A j \in DOMAIN rows : rows'[j].extend = rows[j].extend
    BY <1>6 DEF SameReads, OtherVotes, VotesOf
  <2> HIDE DEF i
  <2>2. NotBoth'
    BY <1>2, <1>6, <2>1 DEF NotBoth
  <2>3. CloseVote'
    BY <1>2, <1>6, <2>1 DEF CloseVote
  <2> QED
    BY <2>2, <2>3 DEF FloorOK, NoDebt, Floor
<1> QED
  BY <1>1, <1>4, <1>5, <1>6

LEMMA FloorExtend == ASSUME Inv, FloorOK, NEW a \in Agents, Extend(a) PROVE FloorOK'
<1> DEFINE i    == Instance(a)
           next == IF owed[a] = "none" THEN "wait" ELSE "talk"
<1>1. /\ todo[a] \in {"capped", "extend or talk"}
      /\ UNCHANGED <<restarts, mute>> /\ Others(a) /\ FaultsGrow /\ owed'[a] = owed[a]
      /\ \/ Halted /\ UNCHANGED <<room, log, rows>> /\ todo'[a] = "stop"
         \/ /\ ~Halted /\ room.cap < MaxCap /\ room' = [room EXCEPT !.cap = @ + ExtendStep]
            /\ SameReads /\ \A j \in DOMAIN rows : rows'[j].close = rows[j].close /\ ~rows'[j].extend
            /\ \/ /\ Len(log) < MaxLog /\ log' = Append(log, Entry(i, "extend", FALSE))
                  /\ todo'[a] \in {todo[a], next}
               \/ UNCHANGED log /\ todo'[a] = todo[a]
         \/ /\ ~Halted /\ UNCHANGED <<room, log>>
            /\ SameReads /\ OtherVotes(i)
            /\ rows'[i].extend /\ rows'[i].close = rows[i].close
            /\ \E j \in DOMAIN rows : ~rows'[j].extend
            /\ todo'[a] \in {"wait", todo[a]}
  BY ExtendEffect
<1>2. /\ NotBoth /\ NoDebt /\ i \in DOMAIN rows /\ RoomOK /\ RowsOK /\ LogOK
      /\ todo[a] \notin Outside /\ room.state # "none"
  BY <1>1, Within DEF FloorOK, Outside, PlacedFor
<1> HIDE DEF next
<1>3. CASE Halted /\ UNCHANGED <<room, log, rows>> /\ todo'[a] = "stop"
  <2>1. Longer /\ SameReads /\ \A j \in DOMAIN rows : VotesOf(j)
    BY <1>2, <1>3, LogStays, RowsStay
  <2>2. Busy(a) => Busy(a)'
    BY <1>1, <1>3, StaysBusy
  <2> QED
    BY <1>1, <1>2, <1>3, <2>1, <2>2, FloorCalm
<1>4. CASE /\ ~Halted /\ room' = [room EXCEPT !.cap = @ + ExtendStep]
           /\ SameReads /\ \A j \in DOMAIN rows : rows'[j].close = rows[j].close /\ ~rows'[j].extend
           /\ \/ Len(log) < MaxLog /\ log' = Append(log, Entry(i, "extend", FALSE))
              \/ UNCHANGED log /\ todo'[a] = todo[a]
  <2>1. room'.state = room.state /\ room.state = "active"
    BY <1>2, <1>4 DEF RoomOK, Halted
  <2>2. NotBoth'
    BY <1>2, <1>4, NotBothLess DEF SameReads
  <2>3. CASE Len(log) < MaxLog /\ log' = Append(log, Entry(i, "extend", FALSE))
    <3>1. "extend" \in Kinds /\ FALSE \in BOOLEAN
      BY DEF Kinds
    <3> QED
      BY <1>1, <1>2, <1>4, <2>1, <2>2, <2>3, <3>1, FloorPosted
  <2>4. CASE UNCHANGED log /\ todo'[a] = todo[a]
    <3>1. NoDebt'
      BY <1>1, <1>2, <1>4, <2>1, <2>4, LogStays, NoDebtKept
    <3>2. Busy(a)'
      BY <1>1, <2>1, <2>4 DEF Busy
    <3> QED
      BY <2>2, <3>1, <3>2 DEF FloorOK, Floor
  <2> QED
    BY <1>4, <2>3, <2>4
<1>5. CASE /\ UNCHANGED <<room, log>> /\ SameReads /\ OtherVotes(i)
           /\ rows'[i].extend /\ rows'[i].close = rows[i].close
           /\ \E j \in DOMAIN rows : ~rows'[j].extend
  <2>1. DOMAIN rows' = DOMAIN rows /\ \A j \in DOMAIN rows : rows'[j].close = rows[j].close
    BY <1>5 DEF SameReads, OtherVotes, VotesOf
  <2> HIDE DEF i
  <2>2. NotBoth'
    BY <1>2, <1>5, <2>1 DEF NotBoth
  <2>3. NoDebt'
    BY <1>1, <1>2, <1>5, <2>1, LogStays, NoDebtKept
  <2>4. ExtendVote'
    BY <1>2, <1>5, <2>1 DEF ExtendVote
  <2> QED
    BY <2>2, <2>3, <2>4 DEF FloorOK, Floor
<1> QED
  BY <1>1, <1>3, <1>4, <1>5


LEMMA FloorPause == ASSUME Inv, FloorOK, NEW a \in Agents, Pause(a) PROVE FloorOK'
<1>1. /\ todo[a] \in {"talk", "wait"} /\ room.state = "active" /\ Others(a) /\ FaultsGrow
      /\ room' = [room EXCEPT !.state = "paused"] /\ UNCHANGED <<log, rows, restarts, mute>>
      /\ Goes(a, "stop", owed[a])
  BY PauseEffect
<1>2. /\ todo[a] \notin Outside /\ RowsOK /\ LogOK /\ PlacedFor(a)
      /\ Longer /\ SameReads /\ \A j \in DOMAIN rows : VotesOf(j)
  BY <1>1, Within, LogStays, RowsStay DEF Outside
<1>3. NotBoth'
  BY <1>1, NotBothLess DEF FloorOK
<1>4. NoDebt'
  BY <1>1, <1>2, NoDebtKept DEF FloorOK, Goes
<1>5. ASSUME Settled' PROVE Mail' \/ CloseVote' \/ ExtendVote' \/ \E b \in Agents : Busy(b)'
  <2>1. Settled
    BY <1>1, <1>2, <1>5, SettledBefore
  <2>2. (Mail => Mail') /\ (CloseVote => CloseVote') /\ (ExtendVote => ExtendVote')
    BY <1>1, <1>2, <2>1, MailStays DEF CloseVote, ExtendVote
  <2>3. CASE \E b \in Agents : owed[b] # "none" /\ todo[b] # "wait"
    BY <1>1, <2>3 DEF Others, Goes, Busy
  <2>4. CASE owed[a] # "none"
    BY <1>1, <2>4 DEF Goes, Busy
  <2>5. CASE owed[a] = "none" /\ \A b \in Agents : owed[b] = "none" \/ todo[b] = "wait"
    <3>1. todo[a] = "wait"
      BY <1>1, <1>2, <2>5 DEF PlacedFor
    <3>2. CASE \A b \in Agents : owed[b] = "none"
      <4>1. Mail \/ CloseVote
        BY <2>1, <3>2 DEF FloorOK, NoDebt
      <4> QED
        BY <2>2, <4>1
    <3>3. CASE \E b \in Agents : owed[b] # "none"
      <4>1. PICK b \in Agents : owed[b] # "none" /\ todo[b] = "wait"
        BY <2>5, <3>3
      <4>2. \A c \in Agents : todo[c] = "wait"
        BY <2>5, <3>1, <4>1, GuidanceAssumption
      <4>3. ~ \E c \in Agents : Busy(c)
        BY <4>2 DEF Busy
      <4>4. Mail \/ CloseVote \/ ExtendVote
        BY <2>1, <4>3 DEF FloorOK, Floor
      <4> QED
        BY <2>2, <4>4
    <3> QED
      BY <3>2, <3>3
  <2> QED
    BY <2>3, <2>4, <2>5
<1> QED
  BY <1>3, <1>4, <1>5 DEF FloorOK, Floor

LEMMA FloorWake == ASSUME Inv, FloorOK, NEW a \in Agents, Wake(a) PROVE FloorOK'
<1>1. /\ todo[a] = "stop" /\ Others(a) /\ FaultsGrow /\ UNCHANGED <<log, rows, restarts>>
      /\ \/ /\ room.state = "paused" /\ room' = [room EXCEPT !.state = "active"]
            /\ UNCHANGED mute /\ owed'[a] = owed[a]
            /\ todo'[a] \in {"stop", IF owed[a] = "none" THEN "wait" ELSE "talk"}
         \/ /\ room.state = "active" /\ UNCHANGED room /\ Goes(a, "wait", "none")
            /\ mute' = IF owed[a] = "none" THEN mute ELSE mute \cup 0 .. Len(log)
  BY WakeEffect
<1>2. /\ todo[a] \notin Outside /\ RowsOK /\ LogOK /\ RoomOK
      /\ Longer /\ SameReads /\ \A j \in DOMAIN rows : VotesOf(j)
  BY <1>1, Within, LogStays, RowsStay DEF Outside
<1>3. CASE /\ room.state = "paused" /\ room' = [room EXCEPT !.state = "active"]
           /\ UNCHANGED mute /\ owed'[a] = owed[a]
           /\ todo'[a] \in {"stop", IF owed[a] = "none" THEN "wait" ELSE "talk"}
  <2>1. room'.state = "active"
    BY <1>2, <1>3 DEF RoomOK
  <2>2. Busy(a) => Busy(a)'
    BY <1>1, <1>3 DEF Busy
  <2> QED
    BY <1>1, <1>2, <1>3, <2>1, <2>2, FloorCalm
<1>4. CASE UNCHANGED <<room, mute>> /\ owed[a] = "none"
  <2>1. ~Busy(a)
    BY <1>1, <1>4 DEF Busy
  <2> QED
    BY <1>1, <1>2, <1>4, <2>1, FloorCalm
<1>5. CASE mute' = mute \cup 0 .. Len(log)
  <2>1. 0 \in 0 .. Len(log)
    BY <1>2 DEF LogOK
  <2>2. ~Settled'
    BY <1>5, <2>1 DEF Settled
  <2>3. NotBoth'
    BY <1>1, NotBothLess DEF FloorOK
  <2> QED
    BY <2>2, <2>3 DEF FloorOK, NoDebt, Floor
<1> QED
  BY <1>1, <1>3, <1>4, <1>5

LEMMA FloorJoin == ASSUME Inv, FloorOK, NEW a \in Agents, Join(a) PROVE FloorOK'
<1> DEFINE i     == Instance(a)
           fresh == [cursor |-> Len(log), start |-> Len(log),
                     dark |-> FALSE, close |-> FALSE, extend |-> FALSE]
<1>1. /\ todo[a] = "join" /\ UNCHANGED <<room, log, restarts, mute>> /\ Others(a) /\ FaultsGrow
      /\ Goes(a, "recap", "turn") \/ Goes(a, "join", "none")
      /\ DOMAIN rows' = DOMAIN rows \cup {i}
      /\ rows' \in [DOMAIN rows' -> Participant]
      /\ \A j \in DOMAIN rows : rows'[j] = rows[j]
      /\ i \notin DOMAIN rows => rows'[i] = fresh
  BY JoinEffect
<1>2. NotBoth /\ (i \notin DOMAIN rows => ~rows'[i].close /\ ~rows'[i].extend)
  BY <1>1 DEF FloorOK
<1>3. NotBoth'
  <2> HIDE DEF i
  <2> QED
    BY <1>1, <1>2 DEF NotBoth
<1>4. CASE Goes(a, "recap", "turn")
  <2>1. Busy(a)' /\ owed'[a] # "none"
    BY <1>4 DEF Goes, Busy
  <2> QED
    BY <1>3, <2>1 DEF FloorOK, NoDebt, Floor
<1>5. CASE Goes(a, "join", "none")
  <2>1. ~Settled'
    BY <1>5 DEF Goes, Settled, Outside
  <2> QED
    BY <1>3, <2>1 DEF FloorOK, NoDebt, Floor
<1> QED
  BY <1>1, <1>4, <1>5

LEMMA FloorRecap == ASSUME Inv, FloorOK, NEW a \in Agents, Recap(a) PROVE FloorOK'
<1>0. /\ LogOK /\ RowsOK /\ AgentsOK /\ PlacedFor(a) /\ owed[a] \in Debts
  BY Within
<1>1. todo[a] = "recap" /\ Others(a) /\ Goes(a, "talk", owed[a])
  BY <1>0, ToldFacts DEF Recap, Steps
<1>2. UNCHANGED <<room, log, rows, restarts, mute>>
  BY DEF Recap
<1>3. Busy(a)' /\ owed'[a] = owed[a]
  BY <1>0, <1>1 DEF PlacedFor, Goes, Busy
<1>4. /\ todo[a] \notin Outside
      /\ Longer /\ SameReads /\ \A j \in DOMAIN rows : VotesOf(j)
  BY <1>0, <1>1, <1>2, LogStays, RowsStay DEF Outside
<1> QED
  BY <1>1, <1>2, <1>3, <1>4, FloorCalm

\* While an agent is outside nothing is settled.
LEMMA FloorOutside ==
  ASSUME FloorOK, UNCHANGED rows, NEW a \in Agents, todo'[a] = "join"
  PROVE  FloorOK'
<1>1. NotBoth'
  BY NotBothLess DEF FloorOK
<1>2. ~Settled'
  BY DEF Settled, Outside
<1> QED
  BY <1>1, <1>2 DEF FloorOK, NoDebt, Floor

LEMMA FloorSame ==
  ASSUME Inv, FloorOK, UNCHANGED <<room, log, restarts, todo, owed, mute>>, SameReads,
         \A j \in DOMAIN rows : VotesOf(j)
  PROVE  FloorOK'
<1>1. DOMAIN rows' = DOMAIN rows /\ \A b \in Agents : Instance(b)' = Instance(b)
  BY SameInstance DEF SameReads
<1>2. NotBoth'
  BY <1>1, NotBothLess DEF FloorOK, VotesOf
<1>3. Settled' => Settled
  BY <1>1 DEF Settled, RowsOf
<1>4. Settled => (Mail => Mail')
  BY LogStays, MailStays DEF Inv
<1>5. (CloseVote => CloseVote') /\ (ExtendVote => ExtendVote')
  BY <1>1 DEF CloseVote, ExtendVote, VotesOf
<1>6. \A b \in Agents : Busy(b) => Busy(b)'
  BY DEF Busy
<1>7. NoDebt'
  BY <1>3, <1>4, <1>5 DEF FloorOK, NoDebt
<1>8. Floor'
  BY <1>3, <1>4, <1>5, <1>6 DEF FloorOK, Floor
<1> QED
  BY <1>2, <1>7, <1>8 DEF FloorOK

LEMMA FloorStep == Inv /\ FloorOK /\ [Next]_vars => FloorOK'
<1> SUFFICES ASSUME Inv, FloorOK, [Next]_vars PROVE FloorOK'
  OBVIOUS
<1>1. CASE Open
  <2>1. Opener \in Agents /\ todo'[Opener] = "join" /\ UNCHANGED rows
    BY <1>1, ConstantTypes, ToldFacts DEF Open, Inv, Steps, Debts, Goes
  <2> QED
    BY <2>1, FloorOutside
<1>2. ASSUME NEW a \in Agents, Paste(a) PROVE FloorOK'
  <2>1. todo'[a] = "join" /\ UNCHANGED rows
    BY <1>2, ToldFacts DEF Paste, Inv, Steps, Debts, Goes
  <2> QED
    BY <2>1, FloorOutside
<1>3. ASSUME NEW a \in Agents, Restart(a) PROVE FloorOK'
  <2>1. todo'[a] = "join" /\ UNCHANGED rows
    BY <1>3, RestartEffect DEF Goes
  <2> QED
    BY <2>1, FloorOutside
<1>4. ASSUME NEW a \in Agents,
             \/ Join(a) \/ Recap(a) \/ Send(a) \/ Wait(a) \/ Close(a) \/ Extend(a)
             \/ \E k \in Signals : Signal(a, k)
             \/ Pause(a) \/ Wake(a)
      PROVE  FloorOK'
  BY <1>4, FloorJoin, FloorRecap, FloorSend, FloorWait, FloorClose, FloorExtend, FloorSignal,
     FloorPause, FloorWake
<1>5. ASSUME NEW i \in DOMAIN rows, GoDark(i) PROVE FloorOK'
  BY <1>5, DarkEffect, FloorSame
<1>6. CASE UNCHANGED vars
  <2>1. RowsOK
    BY DEF Inv
  <2>2. UNCHANGED <<room, log, rows, restarts, todo, owed, mute>>
    BY <1>6 DEF vars
  <2>3. SameReads /\ \A j \in DOMAIN rows : VotesOf(j)
    BY <2>1, <2>2, RowsStay
  <2> QED
    BY <2>2, <2>3, FloorSame
<1> QED
  BY <1>1, <1>2, <1>3, <1>4, <1>5, <1>6 DEF Next

LEMMA InitFloor == Init => FloorOK
<1> SUFFICES ASSUME Init PROVE FloorOK
  OBVIOUS
<1>1. DOMAIN rows = {}
  BY DEF Init
<1>2. NotBoth
  BY <1>1 DEF NotBoth
<1>3. Opener \in Agents /\ todo[Opener] = "open"
  BY ConstantTypes DEF Init
<1>4. ~Settled
  BY <1>3 DEF Settled, Outside
<1> QED
  BY <1>2, <1>4 DEF FloorOK, NoDebt, Floor

LEMMA FloorAlways == Spec => []FloorOK
<1> QED
  BY InitFloor, InvAlways, FloorStep, PTL DEF Spec


LEMMA OnlyRow ==
  ASSUME Inv, NEW a \in Agents, Member(a), Cardinality(RowsOf(a)) = 1
  PROVE  RowsOf(a) = {Instance(a)}
<1>1. 0 \in Int /\ MaxFaults + 1 \in Int
  BY ConstantTypes
<1>2. IsFiniteSet(0 .. MaxFaults + 1)
  BY <1>1, FS_Interval
<1>3. IsFiniteSet({a})
  BY FS_Singleton
<1>4. IsFiniteSet({a} \X (0 .. MaxFaults + 1))
  BY <1>2, <1>3, FS_Product
<1>5. RowsOf(a) \subseteq {a} \X (0 .. MaxFaults + 1)
  BY DEF RowsOf, Inv, RowsOK, Instances
<1>6. IsFiniteSet(RowsOf(a))
  BY <1>4, <1>5, FS_Subset
<1>7. PICK i : RowsOf(a) = {i}
  BY <1>6, FS_Singleton
<1>8. Instance(a) \in RowsOf(a)
  BY InstanceFacts DEF Member, RowsOf, Inv
<1> QED
  BY <1>7, <1>8

\* The agents never wait for each other: while both are in the loop of an active
\* room, one of them learns of a message or of a proposal from its next wait
\* (mcp.rs, "next" of every tool, against consensus.rs and the log).
THEOREM FloorHeld == Spec => []FloorIsHeld
<1>1. Inv /\ FloorOK => FloorIsHeld
  <2> SUFFICES ASSUME Inv, FloorOK, room.state = "active", mute = {},
                      \A a \in Agents : Member(a) /\ Cardinality(RowsOf(a)) = 1,
                      \A a \in Agents : todo[a] = "wait"
               PROVE  \E a \in Agents :
                        \/ Unread(Instance(a)) # {}
                        \/ /\ ~rows[Instance(a)].close
                           /\ \E j \in DOMAIN rows \ {Instance(a)} : rows[j].close
                        \/ /\ ~rows[Instance(a)].extend
                           /\ \E j \in DOMAIN rows \ {Instance(a)} : rows[j].extend
    BY DEF FloorIsHeld
  <2>1. \A a \in Agents : RowsOf(a) = {Instance(a)}
    BY OnlyRow
  <2>2. Settled
    BY <2>1 DEF Settled, Outside
  <2>3. \A a \in Agents : ~Busy(a)
    BY DEF Busy
  <2>4. Mail \/ CloseVote \/ ExtendVote
    BY <2>2, <2>3 DEF FloorOK, Floor
  <2>5. PICK a, b \in Agents : /\ DOMAIN rows = {Instance(a), Instance(b)}
                               /\ Instance(a) # Instance(b)
    <3>1. Opener \in Agents
      BY ConstantTypes
    <3>2. \E b \in Agents : /\ Opener # b /\ Agents = {Opener, b}
                            /\ DOMAIN rows = {Instance(Opener), Instance(b)}
                            /\ Instance(Opener) # Instance(b)
      BY <2>2, <3>1, Pair
    <3> QED
      BY <3>1, <3>2
  <2>6. /\ ~(rows[Instance(a)].close /\ rows[Instance(b)].close)
        /\ ~(rows[Instance(a)].extend /\ rows[Instance(b)].extend)
    BY <2>5 DEF FloorOK, NotBoth
  <2>7. CASE Mail
    BY <2>7 DEF Mail
  <2>8. CASE CloseVote \/ ExtendVote
    BY <2>5, <2>6, <2>8 DEF CloseVote, ExtendVote
  <2> QED
    BY <2>4, <2>7, <2>8
<1> QED
  BY <1>1, InvAlways, FloorAlways, PTL
=============================================================================
