--------------------------- MODULE Delivery_proofs ---------------------------
(***************************************************************************)
(* For any number of participants, requests and waits and any channel      *)
(* capacity: the types of Delivery, that the racing claims implement the   *)
(* one-step cursor of Inbox, the fate of every claimed message, and that   *)
(* no wakeup is lost.                                                      *)
(***************************************************************************)
EXTENDS Delivery, TLAPS

-----------------------------------------------------------------------------
(* The inductive invariant: what a handler and a wait may rely on.         *)

\* A request that has arrived has a sender.
SenderKnown == \A s \in Requests : rpc[s] # "unborn" => by[s] \in Participants

\* A wait in progress keeps its participant on the roster (Prune's guard).
WaiterOnRoster == \A w \in Waits : wpc[w] # "idle" => who[w] \in Roster

\* The message found is still the next one after the cursor that was read,
\* whatever has been appended since; what has been claimed is a message.
FoundIsNext ==
  \A w \in Waits :
    /\ wpc[w] = "cas" => Inboxes!IsNext(log, who[w], cur[w], got[w])
    /\ wpc[w] = "answer" => got[w] > 0

\* A participant joins once: neither on the roster nor pruned while it joins.
Joining == DOMAIN start \cap (Roster \cup left) = {}

Sound == TypeOK /\ SenderKnown /\ WaiterOnRoster /\ FoundIsNext /\ Joining

-----------------------------------------------------------------------------
(* Steps that leave a part of the state alone.                             *)

LEMMA RoomFrame == ASSUME RoomTypes, UNCHANGED <<room, roster>> PROVE RoomTypes'
BY DEF RoomTypes, room, roster, Roster

LEMMA RequestFrame ==
  ASSUME RequestTypes, SenderKnown, UNCHANGED <<log, reqVars>> PROVE RequestTypes' /\ SenderKnown'
BY DEF RequestTypes, SenderKnown, reqVars

LEMMA HistoryFrame ==
  ASSUME HistoryTypes, UNCHANGED <<log, history, drops>> PROVE HistoryTypes'
BY DEF HistoryTypes, history

LEMMA WaitFrame ==
  ASSUME WaitTypes, FoundIsNext, UNCHANGED <<log, waitVars>> PROVE WaitTypes' /\ FoundIsNext'
BY DEF WaitTypes, FoundIsNext, waitVars

LEMMA RosterFrame ==
  ASSUME WaiterOnRoster, UNCHANGED <<who, wpc>>, Roster \subseteq Roster' PROVE WaiterOnRoster'
BY DEF WaiterOnRoster

LEMMA JoinFrame == ASSUME Joining, UNCHANGED <<start, left>>, Roster' = Roster PROVE Joining'
BY DEF Joining

-----------------------------------------------------------------------------
(* Type correctness, one lemma per group of actions.                       *)

LEMMA SoundInit == Init => Sound
BY DeliveryAssumption
DEF Init, Sound, TypeOK, RoomTypes, RequestTypes, WaitTypes, HistoryTypes, SenderKnown,
    WaiterOnRoster, FoundIsNext, Roster, AllKinds, Joining

LEMMA MembershipSound ==
  ASSUME Sound, NEW p \in Participants, Membership(p)
  PROVE  Sound'
<1> USE DEF Sound, TypeOK
<1>0. RequestTypes' /\ SenderKnown' /\ WaitTypes' /\ FoundIsNext' /\ Len(log) \in Nat
  <2>1. UNCHANGED <<log, reqVars, waitVars>>
    BY DEF Membership, JoinRead, JoinInsert, Prune, room
  <2>2. QED BY <2>1, RequestFrame, WaitFrame DEF RoomTypes
<1>1. CASE JoinRead(p)
  <2>1. HistoryTypes' /\ WaiterOnRoster'
    BY <1>1, HistoryFrame, RosterFrame DEF JoinRead, room, waitVars, Roster
  <2>2. RoomTypes'
    BY <1>0, <1>1 DEF JoinRead, RoomTypes, Extend, room, Roster
  <2>3. Joining'
    BY <1>1 DEF JoinRead, Joining, Extend, room, Roster
  <2>4. QED BY <1>0, <2>1, <2>2, <2>3
<1>2. CASE JoinInsert(p)
  <2>1. HistoryTypes'
    BY <1>2 DEF JoinInsert, HistoryTypes, RoomTypes, room
  <2>2. RoomTypes'
    BY <1>2 DEF JoinInsert, RoomTypes, Extend, Without, room, Roster
  <2>3. WaiterOnRoster'
    BY <1>2, RosterFrame DEF JoinInsert, Extend, Roster, waitVars
  <2>4. Joining'
    BY <1>2 DEF JoinInsert, Joining, Extend, Without, room, Roster
  <2>5. QED BY <1>0, <2>1, <2>2, <2>3, <2>4
<1>3. CASE Prune(p)
  <2>1. HistoryTypes'
    BY <1>3, HistoryFrame DEF Prune
  <2>2. RoomTypes'
    BY <1>3 DEF Prune, RoomTypes, Without, Roster
  <2>3. WaiterOnRoster'
    BY <1>3 DEF Prune, WaiterOnRoster, Without, Roster, waitVars
  <2>4. Joining'
    BY <1>3 DEF Prune, Joining, Without, Roster
  <2>5. QED BY <1>0, <2>1, <2>2, <2>3, <2>4
<1>4. QED BY <1>1, <1>2, <1>3 DEF Membership

\* A message appended to the log leaves the messages before it in place.
LEMMA Appended ==
  ASSUME NEW l \in Seq(Inboxes!Message), NEW m \in Inboxes!Message
  PROVE  /\ Append(l, m) \in Seq(Inboxes!Message)
         /\ Len(l) \in Nat /\ Len(Append(l, m)) = Len(l) + 1
         /\ \A i \in 1 .. Len(l) : Append(l, m)[i] = l[i]
OBVIOUS

LEMMA InsertSound ==
  ASSUME Sound, NEW s \in Requests, Insert(s)
  PROVE  Sound'
<1> USE DEF Sound, TypeOK
<1> DEFINE m == [from |-> by[s], to |-> to[s]]
<1>1. m \in Inboxes!Message
  BY DEF Insert, SenderKnown, RequestTypes, Inboxes!Message
<1>2. log' = Append(log, m) /\ log \in Seq(Inboxes!Message)
  BY DEF Insert, RoomTypes
<1>3. /\ log' \in Seq(Inboxes!Message) /\ Len(log) \in Nat /\ Len(log') = Len(log) + 1
      /\ \A i \in 1 .. Len(log) : log'[i] = log[i]
  BY <1>1, <1>2, Appended
<1>4. RoomTypes'
  BY <1>3 DEF Insert, RoomTypes, roster, Roster
<1>5. RequestTypes' /\ SenderKnown'
  BY <1>3 DEF Insert, RequestTypes, SenderKnown, RGoto
<1>6. UNCHANGED <<roster, who, wpc, zero, told, cur, got, pings, base, delivered, lost, last, drops>>
  BY DEF Insert, waitVars, history
<1>7. WaitTypes'
  BY <1>3, <1>6 DEF WaitTypes
<1>8. HistoryTypes'
  BY <1>3, <1>6 DEF HistoryTypes
<1>9. WaiterOnRoster'
  BY <1>6 DEF WaiterOnRoster, roster, Roster
<1>10. FoundIsNext'
  <2> SUFFICES ASSUME NEW w \in Waits, wpc[w] = "cas"
               PROVE  Inboxes!IsNext(log', who[w], cur[w], got[w])
    BY <1>6 DEF FoundIsNext
  <2>1. Inboxes!IsNext(log, who[w], cur[w], got[w]) /\ cur[w] \in Nat
    BY <1>3 DEF FoundIsNext, WaitTypes
  <2>2. QED BY <1>3, <2>1 DEF Inboxes!IsNext
<1>11. Joining'
  BY <1>6, JoinFrame DEF roster, Roster
<1>12. QED BY <1>4, <1>5, <1>7, <1>8, <1>9, <1>10, <1>11

\* Any other step of a handler rings the hub at most.
LEMMA RequestSound ==
  ASSUME Sound,
         \/ \E s \in Requests : \/ Vote(s) \/ Commit(s) \/ CommitMiss(s) \/ Clear(s)
                                \/ Notify(s) \/ DropRequest(s)
         \/ \E s \in Requests, k \in Kinds \ {"archive"}, p \in Participants,
               q \in Participants \cup {Everyone} : Arrive(s, k, p, q)
         \/ Archive
  PROVE  Sound'
<1> USE DEF Sound, TypeOK
<1>1. UNCHANGED <<log, roster, who, wpc, zero, told, cur, got, history>>
  BY DEF Vote, Commit, CommitMiss, Clear, Notify, DropRequest, Arrive, Archive, room, waitVars
<1>2. WaiterOnRoster' /\ Joining'
  BY <1>1, RosterFrame, JoinFrame DEF roster, Roster
<1>3. FoundIsNext'
  BY <1>1 DEF FoundIsNext
<1>4. ASSUME NEW s \in Requests, Vote(s) \/ Commit(s) \/ CommitMiss(s) \/ Clear(s)
      PROVE  Sound'
  <2>1. WaitTypes' /\ HistoryTypes'
    BY <1>4, WaitFrame, HistoryFrame DEF Vote, Commit, CommitMiss, Clear, room
  <2>2. RequestTypes' /\ SenderKnown'
    BY <1>1, <1>4 DEF Vote, Commit, CommitMiss, Clear, RGoto, RequestTypes, SenderKnown
  <2>3. RoomTypes'
    BY <1>1, <1>4 DEF Vote, Commit, CommitMiss, Clear, RoomTypes, roster, Roster, room
  <2>4. QED BY <1>2, <1>3, <2>1, <2>2, <2>3
<1>5. ASSUME NEW s \in Requests, Notify(s) PROVE Sound'
  <2>1. RoomTypes' /\ HistoryTypes'
    BY <1>5, RoomFrame, HistoryFrame DEF Notify, room
  <2>2. RequestTypes' /\ SenderKnown'
    BY <1>1, <1>5 DEF Notify, RGoto, RequestTypes, SenderKnown
  <2>3. pings' \in [Waits -> 0 .. ChannelSize + 1]
    BY <1>5, DeliveryAssumption DEF Notify, WaitTypes
  <2>4. WaitTypes'
    BY <1>1, <2>3 DEF WaitTypes
  <2>5. QED BY <1>2, <1>3, <2>1, <2>2, <2>4
<1>6. ASSUME NEW s \in Requests, DropRequest(s) PROVE Sound'
  <2>1. RoomTypes' /\ WaitTypes'
    BY <1>6, RoomFrame, WaitFrame DEF DropRequest, room
  <2>2. RequestTypes' /\ SenderKnown'
    BY <1>1, <1>6 DEF DropRequest, RGoto, RequestTypes, SenderKnown
  <2>3. HistoryTypes'
    BY <1>1, <1>6, DeliveryAssumption DEF DropRequest, HistoryTypes, history
  <2>4. QED BY <1>2, <1>3, <2>1, <2>2, <2>3
<1>7. ASSUME NEW s \in Requests, NEW k \in Kinds \ {"archive"}, NEW p \in Participants,
             NEW q \in Participants \cup {Everyone}, Arrive(s, k, p, q)
      PROVE  Sound'
  <2>1. RoomTypes' /\ WaitTypes' /\ HistoryTypes'
    BY <1>7, RoomFrame, WaitFrame, HistoryFrame DEF Arrive, room
  <2>2. k \in AllKinds
    BY DeliveryAssumption
  <2>3. RequestTypes'
    BY <1>1, <1>7, <2>2 DEF Arrive, RGoto, RequestTypes
  <2>4. SenderKnown'
    BY <1>7 DEF Arrive, RGoto, RequestTypes, SenderKnown
  <2>5. QED BY <1>2, <1>3, <2>1, <2>3, <2>4
<1>8. ASSUME Archive PROVE Sound'
  <2>1. RequestTypes' /\ SenderKnown' /\ WaitTypes' /\ HistoryTypes'
    BY <1>8, RequestFrame, WaitFrame, HistoryFrame DEF Archive
  <2>2. RoomTypes'
    BY <1>1, <1>8 DEF Archive, RoomTypes, roster, Roster
  <2>3. QED BY <1>2, <1>3, <2>1, <2>2
<1>9. QED BY <1>4, <1>5, <1>6, <1>7, <1>8

\* A finished wait.
LEMMA RestTypes ==
  ASSUME WaitTypes, FoundIsNext, WaiterOnRoster, NEW w \in Waits, Rest(w),
         UNCHANGED <<log, cursor, who>>
  PROVE  WaitTypes' /\ FoundIsNext' /\ WaiterOnRoster'
<1>1. wpc' = [wpc EXCEPT ![w] = "idle"] /\ zero' = [zero EXCEPT ![w] = FALSE]
      /\ told' = [told EXCEPT ![w] = FALSE] /\ cur' = [cur EXCEPT ![w] = 0]
      /\ got' = [got EXCEPT ![w] = 0] /\ pings' = [pings EXCEPT ![w] = 0]
  BY DEF Rest, WGoto
<1>2. 0 \in 0 .. Len(log) /\ 0 \in 0 .. ChannelSize + 1
  BY DeliveryAssumption DEF WaitTypes
<1>3. WaitTypes'
  BY <1>1, <1>2 DEF WaitTypes
<1>4. FoundIsNext' /\ WaiterOnRoster'
  BY <1>1 DEF WaitTypes, FoundIsNext, WaiterOnRoster, Roster
<1>5. QED BY <1>3, <1>4

\* The steps of a wait that end it, and the one that starts it.
LEMMA EndsSound ==
  ASSUME Sound, NEW w \in Waits, Alone(w) \/ Report(w) \/ Answer(w) \/ DropWait(w)
  PROVE  Sound'
<1> USE DEF Sound, TypeOK
<1>1. Rest(w) /\ UNCHANGED <<room, roster, reqVars, who>>
  BY DEF Alone, Report, Answer, DropWait
<1>2. RoomTypes' /\ RequestTypes' /\ SenderKnown' /\ Joining'
  BY <1>1, RoomFrame, RequestFrame, JoinFrame DEF room, roster, Roster
<1>3. WaitTypes' /\ FoundIsNext' /\ WaiterOnRoster'
  BY <1>1, RestTypes DEF room, roster
<1>4. CASE Alone(w) \/ Report(w)
  BY <1>1, <1>2, <1>3, <1>4, HistoryFrame DEF Alone, Report, room
<1>5. ASSUME wpc[w] = "answer" PROVE got[w] \in 1 .. Len(log)
  BY <1>5 DEF WaitTypes, FoundIsNext, RoomTypes
<1>6. CASE Answer(w)
  <2>1. UNCHANGED <<log, base, lost, drops>> /\ got[w] \in 1 .. Len(log)
    BY <1>5, <1>6 DEF Answer, room
  <2>2. delivered' \in [Participants -> SUBSET (1 .. Len(log))]
    BY <1>6, <2>1 DEF Answer, HistoryTypes
  <2>3. last' \in [Waits -> 0 .. Len(log)]
    BY <1>6, <2>1 DEF Answer, HistoryTypes
  <2>4. HistoryTypes'
    BY <2>1, <2>2, <2>3 DEF HistoryTypes
  <2>5. QED BY <1>2, <1>3, <2>4
<1>7. CASE DropWait(w)
  <2>1. UNCHANGED <<log, base, delivered, last>>
    BY <1>7 DEF DropWait, room
  <2>2. lost' \in [Participants -> SUBSET (1 .. Len(log))]
    BY <1>5, <1>7 DEF DropWait, HistoryTypes
  <2>3. drops' \in 0 .. MaxDrops
    BY <1>7, DeliveryAssumption DEF DropWait, HistoryTypes
  <2>4. HistoryTypes'
    BY <2>1, <2>2, <2>3 DEF HistoryTypes
  <2>5. QED BY <1>2, <1>3, <2>4
<1>8. QED BY <1>4, <1>6, <1>7

\* The steps of a wait on its way to the claim and from there to the park.
LEMMA RunsSound ==
  ASSUME Sound, NEW w \in Waits,
         \/ \E p \in Participants : Enter(w, p)
         \/ Gate(w) \/ Subscribe(w) \/ Check(w) \/ Wake(w) \/ Expire(w)
         \/ ReadCursor(w) \/ FindNext(w) \/ AdvanceMiss(w)
  PROVE  Sound'
<1> USE DEF Sound, TypeOK
<1>1. UNCHANGED <<room, roster, reqVars, history, drops>>
  BY DEF Enter, Gate, Subscribe, Check, Wake, Expire, ReadCursor, FindNext, AdvanceMiss
<1>2. RoomTypes' /\ RequestTypes' /\ SenderKnown' /\ HistoryTypes' /\ Joining'
  BY <1>1, RoomFrame, RequestFrame, HistoryFrame, JoinFrame DEF room, roster, Roster
<1>3. Len(log) \in Nat /\ UNCHANGED <<log, cursor>>
  BY <1>1 DEF RoomTypes, room, roster
<1>4. ASSUME NEW p \in Participants, Enter(w, p) PROVE Sound'
  <2>1. WaitTypes'
    BY <1>3, <1>4 DEF Enter, WGoto, WaitTypes
  <2>2. WaiterOnRoster' /\ FoundIsNext'
    BY <1>3, <1>4 DEF Enter, WGoto, WaitTypes, WaiterOnRoster, FoundIsNext, Roster
  <2>3. QED BY <1>2, <2>1, <2>2
<1>5. CASE Gate(w) \/ Subscribe(w) \/ Check(w) \/ Wake(w) \/ Expire(w)
  <2>1. UNCHANGED <<who, told, cur, got>> /\ zero' \in [Waits -> BOOLEAN]
    BY <1>5 DEF Gate, Subscribe, Check, Wake, Expire, WaitTypes
  <2>2. pings' \in [Waits -> 0 .. ChannelSize + 1]
    <3>1. CASE Wake(w)
      <4>1. pings[w] - 1 \in 0 .. ChannelSize + 1
        BY <3>1, DeliveryAssumption DEF Wake, WaitTypes
      <4>2. QED BY <3>1, <4>1 DEF Wake, WaitTypes
    <3>2. CASE pings' = pings
      BY <3>2 DEF WaitTypes
    <3>3. QED BY <1>5, <3>1, <3>2 DEF Gate, Subscribe, Check, Expire
  <2>3. \E l \in {"subscribe", "read", "report", "parked"} : wpc' = [wpc EXCEPT ![w] = l]
    BY <1>5 DEF Gate, Subscribe, Check, Wake, Expire, WGoto
  <2>4. WaitTypes'
    BY <1>3, <2>1, <2>2, <2>3 DEF WaitTypes
  <2>5. WaiterOnRoster' /\ FoundIsNext'
    BY <1>3, <1>5, <2>1, <2>3 DEF Gate, Subscribe, Check, Wake, Expire, WaitTypes,
                                  WaiterOnRoster, FoundIsNext, Roster
  <2>6. QED BY <1>2, <2>4, <2>5
<1>6. CASE ReadCursor(w)
  <2>1. cursor[who[w]] \in 0 .. Len(log)
    BY <1>6 DEF ReadCursor, WaiterOnRoster, RoomTypes
  <2>2. WaitTypes'
    BY <1>3, <1>6, <2>1 DEF ReadCursor, WGoto, WaitTypes
  <2>3. WaiterOnRoster' /\ FoundIsNext'
    BY <1>3, <1>6 DEF ReadCursor, WGoto, WaitTypes, WaiterOnRoster, FoundIsNext, Roster
  <2>4. QED BY <1>2, <2>2, <2>3
<1>7. CASE FindNext(w)
  <2>1. UNCHANGED <<who, zero, told, pings>>
    BY <1>7 DEF FindNext
  <2>2. /\ got' \in [Waits -> 0 .. Len(log)] /\ cur' \in [Waits -> 0 .. Len(log)]
        /\ \E l \in {"cas", "check"} : wpc' = [wpc EXCEPT ![w] = l]
    <3>1. ASSUME NEW i \in 1 .. Len(log), got' = [got EXCEPT ![w] = i], WGoto(w, "cas"), UNCHANGED cur
          PROVE  /\ got' \in [Waits -> 0 .. Len(log)] /\ cur' \in [Waits -> 0 .. Len(log)]
                 /\ \E l \in {"cas", "check"} : wpc' = [wpc EXCEPT ![w] = l]
      BY <1>3, <3>1 DEF WGoto, WaitTypes
    <3>2. ASSUME WGoto(w, "check"), cur' = [cur EXCEPT ![w] = 0], UNCHANGED got
          PROVE  /\ got' \in [Waits -> 0 .. Len(log)] /\ cur' \in [Waits -> 0 .. Len(log)]
                 /\ \E l \in {"cas", "check"} : wpc' = [wpc EXCEPT ![w] = l]
      BY <1>3, <3>2 DEF WGoto, WaitTypes
    <3>3. QED BY <1>7, <3>1, <3>2 DEF FindNext
  <2>3. WaitTypes'
    BY <1>3, <2>1, <2>2 DEF WaitTypes
  <2>4. WaiterOnRoster'
    BY <1>3, <1>7 DEF FindNext, WGoto, WaitTypes, WaiterOnRoster, Roster
  <2>5. FoundIsNext'
    BY <1>3, <1>7 DEF FindNext, WGoto, WaitTypes, FoundIsNext
  <2>6. QED BY <1>2, <2>3, <2>4, <2>5
<1>8. CASE AdvanceMiss(w)
  <2>1. WaitTypes'
    BY <1>3, <1>8 DEF AdvanceMiss, WGoto, WaitTypes
  <2>2. WaiterOnRoster' /\ FoundIsNext'
    BY <1>3, <1>8 DEF AdvanceMiss, WGoto, WaitTypes, WaiterOnRoster, FoundIsNext, Roster
  <2>3. QED BY <1>2, <2>1, <2>2
<1>9. QED BY <1>4, <1>5, <1>6, <1>7, <1>8

\* What a successful compare-and-swap moves the cursor to.
LEMMA Claimed ==
  ASSUME Sound, NEW w \in Waits, Advance(w)
  PROVE  /\ who[w] \in Roster /\ who[w] \in Participants
         /\ got[w] \in 1 .. Len(log)
         /\ Inboxes!IsNext(log, who[w], cursor[who[w]], got[w])
         /\ cursor' = [cursor EXCEPT ![who[w]] = got[w]]
         /\ Roster' = Roster
         /\ UNCHANGED <<log, who, got, base, delivered, lost, last>>
<1> USE DEF Sound, TypeOK
<1>1. who[w] \in Roster /\ who[w] \in Participants /\ cursor[who[w]] \in Nat
  BY DEF Advance, WaiterOnRoster, RoomTypes
<1>2. Inboxes!IsNext(log, who[w], cursor[who[w]], got[w])
  BY DEF Advance, FoundIsNext
<1>3. QED BY <1>1, <1>2 DEF Advance, Inboxes!IsNext, Roster, room, history

LEMMA AdvanceSound ==
  ASSUME Sound, NEW w \in Waits, Advance(w)
  PROVE  Sound'
<1>0. /\ who[w] \in Roster /\ who[w] \in Participants /\ got[w] \in 1 .. Len(log)
      /\ cursor' = [cursor EXCEPT ![who[w]] = got[w]]
      /\ Roster' = Roster
      /\ UNCHANGED <<log, who, got>>
  BY Claimed
<1> USE DEF Sound, TypeOK
<1>1. RequestTypes' /\ SenderKnown' /\ HistoryTypes' /\ Joining'
  BY <1>0, RequestFrame, HistoryFrame, JoinFrame DEF Advance, room
<1>2. RoomTypes'
  <2>1. UNCHANGED <<log, halt, votes, start, left>>
    BY DEF Advance, room
  <2>2. cursor' \in [Roster -> 0 .. Len(log)]
    BY <1>0 DEF RoomTypes
  <2>3. QED BY <1>0, <2>1, <2>2 DEF RoomTypes
<1>3. /\ wpc' = [wpc EXCEPT ![w] = "answer"] /\ cur' = [cur EXCEPT ![w] = 0]
      /\ UNCHANGED <<zero, told, pings>>
  BY DEF Advance, WGoto
<1>4. WaitTypes'
  BY <1>0, <1>3 DEF WaitTypes
<1>5. WaiterOnRoster'
  BY <1>0, <1>3 DEF WaiterOnRoster, WaitTypes, Advance
<1>6. FoundIsNext'
  BY <1>0, <1>3 DEF FoundIsNext, WaitTypes
<1>7. QED BY <1>1, <1>2, <1>4, <1>5, <1>6

LEMMA StutterSound == ASSUME Sound, UNCHANGED vars PROVE Sound'
BY RoomFrame, RequestFrame, WaitFrame, HistoryFrame, RosterFrame, JoinFrame
DEF Sound, TypeOK, vars, room, roster, waitVars, Roster

LEMMA StepSound == ASSUME Sound, [Next]_vars PROVE Sound'
BY MembershipSound, InsertSound, RequestSound, EndsSound, RunsSound, AdvanceSound, StutterSound
DEF Next, Handle, Poll, Claim

\* The messages, cursors, requests, waits and their history stay well typed;
\* in particular a wait reads the cursor of a participant that has one.
THEOREM DeliveryTypeCorrect == Spec => []TypeOK
<1>1. Sound => TypeOK
  BY DEF Sound
<1>2. QED BY <1>1, SoundInit, StepSound, PTL DEF Spec

THEOREM DeliverySound == Spec => []Sound
BY SoundInit, StepSound, PTL DEF Spec

-----------------------------------------------------------------------------
(* Delivery implements Inbox.                                              *)

\* Whatever waits race for a cursor and wherever they are cut off, the log and
\* the cursors move as in Inbox: a message is appended, a row comes or goes, or
\* one cursor moves to the next message addressed to its participant.
THEOREM DeliveryRefinesInbox == Spec => ImplementsInbox
<1>1. Init => Inboxes!IInit
  BY DEF Init, Inboxes!IInit
<1>2. ASSUME Sound, [Next]_vars
      PROVE  [Inboxes!INext]_<<log, cursor>>
  <2>1. ASSUME NEW s \in Requests, Insert(s) PROVE Inboxes!INext
    <3>1. [from |-> by[s], to |-> to[s]] \in Inboxes!Message
      BY <1>2, <2>1 DEF Insert, Sound, TypeOK, SenderKnown, RequestTypes, Inboxes!Message
    <3>2. Inboxes!Post([from |-> by[s], to |-> to[s]])
      BY <2>1 DEF Insert, roster, Inboxes!Post
    <3>3. QED BY <3>1, <3>2 DEF Inboxes!INext
  <2>2. ASSUME NEW p \in Participants, JoinInsert(p) PROVE Inboxes!INext
    <3>1. p \notin DOMAIN cursor /\ start[p] \in 0 .. Len(log)
      BY <1>2, <2>2 DEF JoinInsert, Sound, TypeOK, RoomTypes, Joining, Roster
    <3>2. Inboxes!Join(p, start[p])
      BY <2>2, <3>1 DEF JoinInsert, Extend, room, Inboxes!Join
    <3>3. QED BY <3>1, <3>2 DEF Inboxes!INext
  <2>3. ASSUME NEW p \in Participants, Prune(p) PROVE Inboxes!INext
    <3>1. Inboxes!Leave(p)
      BY <2>3 DEF Prune, Without, Roster, Inboxes!Leave
    <3>2. QED BY <3>1 DEF Inboxes!INext
  <2>4. ASSUME NEW w \in Waits, Advance(w) PROVE Inboxes!INext
    <3>1. who[w] \in Participants /\ Inboxes!Take(who[w])
      BY <1>2, <2>4, Claimed DEF Inboxes!Take, Roster
    <3>2. QED BY <3>1 DEF Inboxes!INext
  <2>5. CASE \/ \E p \in Participants : JoinRead(p)
             \/ \E s \in Requests : \/ Vote(s) \/ Commit(s) \/ CommitMiss(s) \/ Clear(s)
                                    \/ Notify(s) \/ DropRequest(s)
             \/ \E s \in Requests, k \in Kinds \ {"archive"}, p \in Participants,
                   q \in Participants \cup {Everyone} : Arrive(s, k, p, q)
             \/ Archive
    BY <2>5 DEF JoinRead, Vote, Commit, CommitMiss, Clear, Notify, DropRequest, Arrive, Archive,
                room, roster
  <2>6. CASE \E w \in Waits :
               \/ \E p \in Participants : Enter(w, p)
               \/ Alone(w) \/ Gate(w) \/ Subscribe(w) \/ ReadCursor(w) \/ FindNext(w)
               \/ AdvanceMiss(w) \/ Check(w) \/ Wake(w) \/ Expire(w) \/ Report(w) \/ Answer(w)
               \/ DropWait(w)
    BY <2>6 DEF Enter, Alone, Gate, Subscribe, ReadCursor, FindNext, AdvanceMiss, Check, Wake,
                Expire, Report, Answer, DropWait, room, roster
  <2>7. CASE UNCHANGED vars
    BY <2>7 DEF vars, room, roster
  <2>8. QED BY <1>2, <2>1, <2>2, <2>3, <2>4, <2>5, <2>6, <2>7
            DEF Next, Membership, Handle, Poll, Claim
<1>3. QED BY <1>1, <1>2, DeliverySound, PTL
          DEF Spec, ImplementsInbox, Inboxes!ISpec, Inboxes!ivars

-----------------------------------------------------------------------------
(* The fate of every message.                                              *)

FateOf(p) ==
  /\ Taken(p) = delivered[p] \cup {got[w] : w \in Holding(p)} \cup lost[p]
  /\ delivered[p] \cap lost[p] = {}
  /\ \A w \in Holding(p) : got[w] \notin delivered[p] \cup lost[p]
  /\ \A v, w \in Holding(p) : got[v] = got[w] => v = w

\* Who has not been on the roster has received nothing, and a cursor never
\* falls behind its start.
Newcomers ==
  /\ \A p \in Participants \ (Roster \cup left) : delivered[p] = {} /\ lost[p] = {}
  /\ \A p \in Roster : base[p] <= cursor[p]

Fated == OneFate /\ Newcomers

LEMMA FateSplit == OneFate <=> \A p \in Roster : FateOf(p)
BY DEF OneFate, FateOf

\* A step that neither claims nor ends a claim.
LEMMA FateFrame ==
  ASSUME Sound, NEW p \in Roster, FateOf(p), p \in Roster', cursor'[p] = cursor[p],
         UNCHANGED <<log, base, delivered, lost>>,
         \A w \in Waits : wpc'[w] = "answer" <=> wpc[w] = "answer",
         \A w \in Waits : wpc[w] = "answer" => got'[w] = got[w] /\ who'[w] = who[w]
  PROVE  FateOf(p)'
<1>1. Taken(p)' = Taken(p)
  BY DEF Taken
<1>2. Holding(p)' = Holding(p) /\ \A w \in Holding(p) : got'[w] = got[w]
  BY DEF Holding
<1>3. QED BY <1>1, <1>2 DEF FateOf

LEMMA QuietFated ==
  ASSUME Sound, Fated, NEW w \in Waits,
         \/ \E p \in Participants : Enter(w, p)
         \/ Alone(w) \/ Gate(w) \/ Subscribe(w) \/ ReadCursor(w) \/ FindNext(w)
         \/ AdvanceMiss(w) \/ Check(w) \/ Wake(w) \/ Expire(w) \/ Report(w)
         \/ DropWait(w) /\ wpc[w] # "answer"
  PROVE  Fated'
<1>1. UNCHANGED <<log, cursor, left, base, delivered, lost>>
  BY DEF Enter, Alone, Gate, Subscribe, ReadCursor, FindNext, AdvanceMiss, Check, Wake, Expire,
         Report, DropWait, room, roster, history
<1>2. /\ wpc[w] # "answer" /\ wpc'[w] # "answer"
      /\ \A v \in Waits \ {w} : wpc'[v] = wpc[v] /\ got'[v] = got[v] /\ who'[v] = who[v]
  <2> USE DEF Sound, TypeOK, WaitTypes
  <2>1. CASE \E p \in Participants : Enter(w, p)
    BY <2>1 DEF Enter, WGoto
  <2>2. CASE \/ Alone(w) \/ Report(w)
             \/ DropWait(w) /\ wpc[w] # "answer"
    BY <2>2 DEF Alone, Report, DropWait, Rest, WGoto
  <2>3. CASE Gate(w) \/ Subscribe(w) \/ ReadCursor(w) \/ AdvanceMiss(w)
    BY <2>3 DEF Gate, Subscribe, ReadCursor, AdvanceMiss, WGoto
  <2>4. CASE FindNext(w)
    BY <2>4 DEF FindNext, WGoto
  <2>5. CASE Check(w) \/ Wake(w) \/ Expire(w)
    BY <2>5 DEF Check, Wake, Expire, WGoto
  <2>6. QED BY <2>1, <2>2, <2>3, <2>4, <2>5
<1>3. OneFate'
  <2>1. ASSUME NEW p \in Roster PROVE FateOf(p)'
    BY <1>1, <1>2, FateSplit, FateFrame DEF Fated, Roster
  <2>2. QED BY <1>1, <2>1 DEF OneFate, FateOf, Roster
<1>4. Newcomers'
  BY <1>1 DEF Fated, Newcomers, Roster
<1>5. QED BY <1>3, <1>4 DEF Fated

\* Requests touch neither cursors nor claims.
LEMMA RequestFated ==
  ASSUME Sound, Fated,
         \/ \E s \in Requests : \/ Vote(s) \/ Commit(s) \/ CommitMiss(s) \/ Clear(s)
                                \/ Notify(s) \/ DropRequest(s)
         \/ \E s \in Requests, k \in Kinds \ {"archive"}, p \in Participants,
               q \in Participants \cup {Everyone} : Arrive(s, k, p, q)
         \/ Archive
         \/ UNCHANGED vars
  PROVE  Fated'
<1>1. UNCHANGED <<log, cursor, left, who, wpc, got, base, delivered, lost>>
  BY DEF Vote, Commit, CommitMiss, Clear, Notify, DropRequest, Arrive, Archive, room, roster,
         waitVars, history, vars
<1>2. QED BY <1>1 DEF Fated, OneFate, Newcomers, Taken, Holding, Roster

\* A message appended is beyond every cursor.
LEMMA InsertFated ==
  ASSUME Sound, Fated, NEW s \in Requests, Insert(s)
  PROVE  Fated'
<1>1. UNCHANGED <<cursor, left, who, wpc, got, base, delivered, lost>>
  BY DEF Insert, roster, waitVars, history
<1>2. \A i \in 1 .. Len(log) : log'[i] = log[i]
  <2>1. [from |-> by[s], to |-> to[s]] \in Inboxes!Message
    BY DEF Insert, Sound, TypeOK, SenderKnown, RequestTypes, Inboxes!Message
  <2>2. QED BY <2>1, Appended DEF Insert, Sound, TypeOK, RoomTypes
<1>3. ASSUME NEW p \in Roster PROVE FateOf(p)'
  <2>1. base[p] \in Nat /\ cursor[p] \in 0 .. Len(log) /\ Len(log) \in Nat
    BY DEF Sound, TypeOK, RoomTypes, HistoryTypes
  <2>2. base[p] + 1 .. cursor[p] \subseteq 1 .. Len(log)
    BY <2>1
  <2>3. Taken(p)' = Taken(p)
    BY <1>1, <1>2, <2>2 DEF Taken, Addressed, Inboxes!Addressed
  <2>4. Holding(p)' = Holding(p)
    BY <1>1 DEF Holding
  <2>5. FateOf(p)
    BY FateSplit DEF Fated
  <2>6. QED BY <1>1, <2>3, <2>4, <2>5 DEF FateOf
<1>4. OneFate'
  BY <1>1, <1>3 DEF OneFate, FateOf, Roster
<1>5. QED BY <1>1, <1>4 DEF Fated, Newcomers, Roster

\* A join starts an inbox at a cursor, with nothing taken; a prune ends one.
LEMMA MembershipFated ==
  ASSUME Sound, Fated, NEW p \in Participants, Membership(p)
  PROVE  Fated'
<1>1. UNCHANGED <<log, who, wpc, got, delivered, lost>>
  BY DEF Membership, JoinRead, JoinInsert, Prune, room, waitVars, history
<1>2. ASSUME NEW q \in Roster, q \in Roster', base'[q] = base[q], cursor'[q] = cursor[q]
      PROVE  FateOf(q)'
  <2>1. FateOf(q)
    BY FateSplit DEF Fated
  <2>2. Taken(q)' = Taken(q)
    BY <1>1, <1>2 DEF Taken
  <2>3. Holding(q)' = Holding(q)
    BY <1>1 DEF Holding
  <2>4. QED BY <1>1, <2>1, <2>2, <2>3 DEF FateOf
<1>3. ASSUME \A q \in Roster' : FateOf(q)' PROVE OneFate'
  BY <1>3 DEF OneFate, FateOf
<1>4. CASE JoinRead(p)
  <2>1. UNCHANGED <<cursor, left, base>>
    BY <1>4 DEF JoinRead, history
  <2>2. OneFate'
    BY <1>2, <1>3, <2>1 DEF Roster
  <2>3. QED BY <1>1, <2>1, <2>2 DEF Fated, Newcomers, Roster
<1>5. CASE JoinInsert(p)
  <2>1. /\ p \notin Roster \cup left /\ start[p] \in 0 .. Len(log) /\ Len(log) \in Nat
        /\ base \in [Participants -> 0 .. Len(log)]
    BY <1>5 DEF JoinInsert, Sound, TypeOK, RoomTypes, HistoryTypes, Joining
  <2>2. /\ Roster' = Roster \cup {p} /\ left' = left
        /\ cursor'[p] = start[p] /\ base'[p] = start[p]
        /\ \A q \in Roster : cursor'[q] = cursor[q] /\ base'[q] = base[q]
    BY <1>5, <2>1 DEF JoinInsert, Extend, Roster, Sound, TypeOK, RoomTypes
  <2>3. Taken(p)' = {} /\ Holding(p)' = {}
    BY <1>1, <2>1, <2>2 DEF Taken, Holding, Sound, WaiterOnRoster
  <2>4. delivered'[p] = {} /\ lost'[p] = {}
    BY <1>1, <2>1 DEF Fated, Newcomers
  <2>5. FateOf(p)'
    BY <2>3, <2>4 DEF FateOf
  <2>6. OneFate'
    BY <1>2, <1>3, <2>2, <2>5
  <2>7. Newcomers'
    BY <1>1, <2>1, <2>2 DEF Fated, Newcomers
  <2>8. QED BY <2>6, <2>7 DEF Fated
<1>6. CASE Prune(p)
  <2>1. /\ Roster' = Roster \ {p} /\ left' = left \cup {p} /\ p \in Roster
        /\ \A q \in Roster' : cursor'[q] = cursor[q] /\ base'[q] = base[q]
    BY <1>6 DEF Prune, Without, Roster, history
  <2>2. OneFate'
    BY <1>2, <1>3, <2>1
  <2>3. Newcomers'
    BY <1>1, <2>1 DEF Fated, Newcomers
  <2>4. QED BY <2>2, <2>3 DEF Fated
<1>7. QED BY <1>4, <1>5, <1>6 DEF Membership

\* A claim passes one message, which becomes what the wait holds.
LEMMA AdvanceFated ==
  ASSUME Sound, Fated, NEW w \in Waits, Advance(w)
  PROVE  Fated'
<1>0. PICK p \in Roster : p = who[w]
  BY DEF Advance, Sound, WaiterOnRoster
<1>1. /\ p \in Roster /\ p \in Participants /\ got[w] \in 1 .. Len(log)
      /\ Inboxes!IsNext(log, p, cursor[p], got[w])
      /\ cursor' = [cursor EXCEPT ![p] = got[w]]
      /\ Roster' = Roster
      /\ UNCHANGED <<log, who, got, base, delivered, lost>>
  BY <1>0, Claimed
<1>2. /\ wpc[w] = "cas" /\ wpc'[w] = "answer" /\ left' = left
      /\ \A v \in Waits \ {w} : wpc'[v] = wpc[v]
  BY DEF Advance, WGoto, Sound, TypeOK, WaitTypes
<1>3. /\ base[p] \in Nat /\ cursor[p] \in Nat /\ Len(log) \in Nat /\ base[p] <= cursor[p]
      /\ cursor \in [Roster -> Nat]
  BY <1>1 DEF Sound, TypeOK, RoomTypes, HistoryTypes, Fated, Newcomers
<1>4. /\ got[w] > cursor[p] /\ Addressed(log[got[w]], p)
      /\ \A i \in cursor[p] + 1 .. got[w] - 1 : ~Addressed(log[i], p)
  BY <1>1, <1>3 DEF Inboxes!IsNext, Addressed
<1>5. Taken(p)' = Taken(p) \cup {got[w]} /\ got[w] \notin Taken(p)
  <2>1. cursor'[p] = got[w] /\ log' = log /\ base' = base
    BY <1>1, <1>3
  <2>2. Taken(p)' = {i \in base[p] + 1 .. got[w] : Addressed(log[i], p)}
    BY <2>1 DEF Taken, Addressed, Inboxes!Addressed
  <2>3. ASSUME NEW i \in Int
        PROVE  i \in base[p] + 1 .. got[w] /\ Addressed(log[i], p)
               <=> (i \in base[p] + 1 .. cursor[p] /\ Addressed(log[i], p)) \/ i = got[w]
    BY <1>1, <1>3, <1>4
  <2>4. QED BY <1>1, <1>3, <1>4, <2>2, <2>3 DEF Taken
<1>6. Holding(p)' = Holding(p) \cup {w} /\ w \notin Holding(p)
  BY <1>0, <1>1, <1>2 DEF Holding
<1>7. FateOf(p)
  BY <1>1, FateSplit DEF Fated
<1>8. {got[v] : v \in Holding(p)}' = {got[v] : v \in Holding(p)} \cup {got[w]}
  BY <1>1, <1>6
<1>9. FateOf(p)'
  <2>1. Taken(p)' = delivered'[p] \cup {got[v] : v \in Holding(p)}' \cup lost'[p]
    BY <1>1, <1>5, <1>7, <1>8 DEF FateOf
  <2>2. \A v \in Holding(p) : got[v] \in Taken(p)
    BY <1>7 DEF FateOf
  <2>3. got[w] \notin delivered[p] \cup lost[p] /\ \A v \in Holding(p) : got[v] # got[w]
    BY <1>5, <1>7, <2>2 DEF FateOf
  <2>4. QED BY <1>1, <1>6, <1>7, <2>1, <2>3 DEF FateOf
<1>10. ASSUME NEW q \in Roster, q # p PROVE FateOf(q)'
  <2>1. Taken(q)' = Taken(q)
    BY <1>1, <1>3, <1>10 DEF Taken
  <2>2. Holding(q)' = Holding(q)
    BY <1>0, <1>1, <1>2, <1>10 DEF Holding
  <2>3. FateOf(q)
    BY FateSplit DEF Fated
  <2>4. QED BY <1>1, <2>1, <2>2, <2>3 DEF FateOf
<1>11. OneFate'
  BY <1>1, <1>9, <1>10 DEF OneFate, FateOf
<1>12. Newcomers'
  <2>1. \A q \in Roster : base[q] <= cursor'[q]
    BY <1>1, <1>3, <1>4 DEF Fated, Newcomers, Sound, TypeOK, HistoryTypes
  <2>2. QED BY <1>1, <1>2, <2>1 DEF Fated, Newcomers
<1>13. QED BY <1>11, <1>12 DEF Fated

\* An answer delivers what the wait holds, a client that hangs up loses it.
LEMMA HandOverFated ==
  ASSUME Sound, Fated, NEW w \in Waits, wpc[w] = "answer", Answer(w) \/ DropWait(w)
  PROVE  Fated'
<1>0. PICK p \in Roster : p = who[w]
  BY DEF Sound, WaiterOnRoster
<1>1. /\ p \in Roster /\ p \in Participants
      /\ UNCHANGED <<log, cursor, left, who, base>> /\ Roster' = Roster
  BY <1>0 DEF Answer, DropWait, Sound, TypeOK, RoomTypes, WaiterOnRoster, room, roster, history, Roster
<1>2. /\ wpc'[w] = "idle"
      /\ \A v \in Waits \ {w} : wpc'[v] = wpc[v] /\ got'[v] = got[v]
  <2>1. Rest(w)
    BY DEF Answer, DropWait
  <2>2. QED BY <2>1 DEF Rest, WGoto, Sound, TypeOK, WaitTypes
<1>3. \/ delivered' = [delivered EXCEPT ![p] = @ \cup {got[w]}] /\ lost' = lost
      \/ lost' = [lost EXCEPT ![p] = @ \cup {got[w]}] /\ delivered' = delivered
  BY <1>0 DEF Answer, DropWait
<1>4. delivered \in [Participants -> SUBSET Nat] /\ lost \in [Participants -> SUBSET Nat]
  BY DEF Sound, TypeOK, RoomTypes, HistoryTypes
<1>5. Taken(p)' = Taken(p)
  BY <1>1 DEF Taken
<1>6. w \in Holding(p) /\ Holding(p)' = Holding(p) \ {w}
  BY <1>0, <1>1, <1>2 DEF Holding
<1>7. \A v \in Holding(p)' : v \in Waits /\ got'[v] = got[v]
  BY <1>2, <1>6 DEF Holding
<1>8. FateOf(p)
  BY <1>1, FateSplit DEF Fated
<1>9. FateOf(p)'
  <2>1. {got[v] : v \in Holding(p)} = {got[v] : v \in Holding(p)}' \cup {got[w]}
    BY <1>6, <1>7
  <2>2. delivered'[p] \cup lost'[p] = delivered[p] \cup lost[p] \cup {got[w]}
    BY <1>1, <1>3, <1>4
  <2>3. Taken(p)' = delivered'[p] \cup {got[v] : v \in Holding(p)}' \cup lost'[p]
    BY <1>5, <1>8, <2>1, <2>2 DEF FateOf
  <2>4. delivered'[p] \cap lost'[p] = {}
    BY <1>1, <1>3, <1>4, <1>6, <1>8 DEF FateOf
  <2>5. \A v \in Holding(p)' : got'[v] # got[w] /\ got'[v] \notin delivered[p] \cup lost[p]
    BY <1>6, <1>7, <1>8 DEF FateOf
  <2>6. \A v \in Holding(p)' : got'[v] \notin delivered'[p] \cup lost'[p]
    BY <2>2, <2>5
  <2>7. \A u, v \in Holding(p)' : got'[u] = got'[v] => u = v
    BY <1>6, <1>7, <1>8 DEF FateOf
  <2>8. QED BY <2>3, <2>4, <2>6, <2>7 DEF FateOf
<1>10. ASSUME NEW q \in Roster, q # p PROVE FateOf(q)'
  <2>1. Taken(q)' = Taken(q)
    BY <1>1 DEF Taken
  <2>2. delivered'[q] = delivered[q] /\ lost'[q] = lost[q]
    <3>1. q \in Participants
      BY DEF Sound, TypeOK, RoomTypes
    <3>2. QED BY <1>3, <1>4, <1>10, <3>1
  <2>3. Holding(q)' = Holding(q) /\ \A v \in Holding(q) : got'[v] = got[v]
    BY <1>0, <1>1, <1>2, <1>10 DEF Holding
  <2>4. FateOf(q)
    BY FateSplit DEF Fated
  <2>5. QED BY <1>1, <2>2, <2>1, <2>3, <2>4 DEF FateOf
<1>11. OneFate'
  BY <1>1, <1>9, <1>10 DEF OneFate, FateOf
<1>12. Newcomers'
  BY <1>1, <1>3, <1>4 DEF Fated, Newcomers
<1>13. QED BY <1>11, <1>12 DEF Fated

LEMMA StepFated == ASSUME Sound, Fated, [Next]_vars PROVE Fated'
BY InsertFated, RequestFated, MembershipFated, QuietFated, AdvanceFated, HandOverFated
DEF Next, Handle, Poll, Claim, Answer

\* However many waits of a handle race and wherever their clients hang up, a
\* message behind the cursor was delivered once, or is in the hands of one
\* wait, or was lost with the client of the wait that claimed it.
THEOREM EveryMessageOneFate == Spec => []OneFate
<1>1. Init => Fated
  BY DEF Init, Fated, OneFate, Newcomers, Roster
<1>2. Fated => OneFate
  BY DEF Fated
<1>3. QED BY <1>1, <1>2, StepFated, DeliverySound, PTL DEF Spec

-----------------------------------------------------------------------------
(* The order one client sees.                                              *)

\* What a client was given last lies behind the cursor of its handle, and what
\* its wait holds is newer; a handle that left takes its clients with it.
Seen ==
  \A w \in Waits :
    /\ who[w] \in Roster \cup left \cup {Nobody}
    /\ who[w] = Nobody => last[w] = 0
    /\ who[w] \in Roster => last[w] <= cursor[who[w]]
    /\ wpc[w] = "answer" => last[w] < got[w] /\ got[w] <= cursor[who[w]]

\* A step that moves no cursor, claims nothing and delivers nothing.
LEMMA SeenFrame ==
  ASSUME Sound, Seen, UNCHANGED <<cursor, left, last>>,
         \A w \in Waits : wpc'[w] = "answer" => wpc[w] = "answer" /\ got'[w] = got[w],
         \A w \in Waits : who'[w] = who[w] \/ (who[w] = Nobody /\ who'[w] \in Roster /\ wpc'[w] # "answer")
  PROVE  Seen'
<1>1. \A p \in Roster : cursor[p] \in Nat
  BY DEF Sound, TypeOK, RoomTypes
<1>2. Nobody \notin Roster
  BY DeliveryAssumption DEF Sound, TypeOK, RoomTypes
<1>3. QED BY <1>1, <1>2 DEF Seen, Roster

LEMMA QuietSeen ==
  ASSUME Sound, Seen, NEW w \in Waits,
         \/ \E p \in Participants : Enter(w, p)
         \/ Alone(w) \/ Gate(w) \/ Subscribe(w) \/ ReadCursor(w) \/ FindNext(w)
         \/ AdvanceMiss(w) \/ Check(w) \/ Wake(w) \/ Expire(w) \/ Report(w) \/ DropWait(w)
  PROVE  Seen'
<1> USE DEF Sound, TypeOK, WaitTypes
<1>1. UNCHANGED <<cursor, left, last>>
  BY DEF Enter, Alone, Gate, Subscribe, ReadCursor, FindNext, AdvanceMiss, Check, Wake, Expire,
         Report, DropWait, roster, history
<1>2. ASSUME UNCHANGED who,
             \A v \in Waits : wpc'[v] = "answer" => wpc[v] = "answer" /\ got'[v] = got[v]
      PROVE  Seen'
  BY <1>1, <1>2, SeenFrame
<1>3. ASSUME NEW p \in Participants, Enter(w, p) PROVE Seen'
  <2>1. /\ who[w] \in {Nobody, p} /\ p \in Roster /\ who'[w] = p /\ wpc'[w] # "answer"
        /\ \A v \in Waits \ {w} : who'[v] = who[v] /\ wpc'[v] = wpc[v]
        /\ got' = got
    BY <1>3 DEF Enter, WGoto
  <2>2. QED BY <1>1, <2>1, SeenFrame
<1>4. CASE Alone(w) \/ Report(w) \/ DropWait(w)
  <2>1. who' = who /\ wpc'[w] = "idle"
        /\ \A v \in Waits \ {w} : wpc'[v] = wpc[v] /\ got'[v] = got[v]
    BY <1>4 DEF Alone, Report, DropWait, Rest, WGoto
  <2>2. QED BY <1>2, <2>1
<1>5. CASE Gate(w) \/ Subscribe(w) \/ ReadCursor(w) \/ Check(w) \/ Wake(w) \/ Expire(w)
  <2>1. who' = who /\ got' = got /\ wpc'[w] # "answer"
        /\ \A v \in Waits \ {w} : wpc'[v] = wpc[v]
    BY <1>5 DEF Gate, Subscribe, ReadCursor, Check, Wake, Expire, WGoto
  <2>2. QED BY <1>2, <2>1
<1>6. CASE FindNext(w) \/ AdvanceMiss(w)
  <2>1. who' = who /\ wpc'[w] # "answer"
        /\ \A v \in Waits \ {w} : wpc'[v] = wpc[v] /\ got'[v] = got[v]
    BY <1>6 DEF FindNext, AdvanceMiss, WGoto
  <2>2. QED BY <1>2, <2>1
<1>7. QED BY <1>3, <1>4, <1>5, <1>6

LEMMA OthersSeen ==
  ASSUME Sound, Seen,
         \/ \E s \in Requests : \/ Insert(s) \/ Vote(s) \/ Commit(s) \/ CommitMiss(s) \/ Clear(s)
                                \/ Notify(s) \/ DropRequest(s)
         \/ \E s \in Requests, k \in Kinds \ {"archive"}, p \in Participants,
               q \in Participants \cup {Everyone} : Arrive(s, k, p, q)
         \/ Archive
         \/ UNCHANGED vars
  PROVE  Seen'
<1>1. UNCHANGED <<cursor, left, who, wpc, got, last>>
  BY DEF Insert, Vote, Commit, CommitMiss, Clear, Notify, DropRequest, Arrive, Archive, room,
         roster, waitVars, history, vars
<1>2. QED BY <1>1 DEF Seen, Roster

LEMMA MembershipSeen ==
  ASSUME Sound, Seen, NEW p \in Participants, Membership(p)
  PROVE  Seen'
<1>1. UNCHANGED <<who, wpc, got, last>>
  BY DEF Membership, JoinRead, JoinInsert, Prune, waitVars, history
<1>2. p # Nobody
  BY DeliveryAssumption
<1>3. CASE JoinRead(p)
  BY <1>1, <1>3 DEF JoinRead, Seen, Roster
<1>4. CASE JoinInsert(p)
  <2>1. p \notin Roster \cup left
    BY <1>4 DEF JoinInsert, Sound, Joining
  <2>2. Roster' = Roster \cup {p} /\ left' = left /\ \A q \in Roster : cursor'[q] = cursor[q]
    BY <1>4, <2>1 DEF JoinInsert, Extend, Roster
  <2>3. QED BY <1>1, <1>2, <2>1, <2>2 DEF Seen, Sound, WaiterOnRoster
<1>5. CASE Prune(p)
  <2>1. /\ Roster' = Roster \ {p} /\ left' = left \cup {p}
        /\ \A q \in Roster' : cursor'[q] = cursor[q]
        /\ \A w \in Waits : who[w] = p => wpc[w] = "idle"
    BY <1>5 DEF Prune, Without, Roster
  <2>2. QED BY <1>1, <2>1 DEF Seen, Sound, WaiterOnRoster
<1>6. QED BY <1>3, <1>4, <1>5 DEF Membership

\* A claim moves the cursor forward, to a message newer than all given out.
LEMMA AdvanceSeen ==
  ASSUME Sound, Seen, NEW w \in Waits, Advance(w)
  PROVE  Seen'
<1>0. PICK p \in Roster : p = who[w]
  BY DEF Advance, Sound, WaiterOnRoster
<1>1. /\ p \in Participants /\ Inboxes!IsNext(log, p, cursor[p], got[w])
      /\ cursor' = [cursor EXCEPT ![p] = got[w]] /\ Roster' = Roster
      /\ UNCHANGED <<who, got, last>>
  BY <1>0, Claimed
<1>2. wpc'[w] = "answer" /\ left' = left /\ \A v \in Waits \ {w} : wpc'[v] = wpc[v]
  BY DEF Advance, WGoto, Sound, TypeOK, WaitTypes
<1>3. cursor \in [Roster -> Nat] /\ last \in [Waits -> Nat] /\ got \in [Waits -> Nat]
      /\ Len(log) \in Nat
  BY DEF Sound, TypeOK, RoomTypes, HistoryTypes, WaitTypes
<1>4. got[w] > cursor[p]
  BY <1>1, <1>3 DEF Inboxes!IsNext
<1>5. /\ cursor'[p] = got[w]
      /\ \A q \in Roster : cursor'[q] >= cursor[q]
  BY <1>1, <1>3, <1>4
<1>6. \A v \in Waits : wpc[v] = "answer" => who[v] \in Roster
  BY DEF Sound, WaiterOnRoster
<1>7. ASSUME NEW v \in Waits PROVE who'[v] \in Roster' \cup left' \cup {Nobody}
                                   /\ (who'[v] = Nobody => last'[v] = 0)
  BY <1>1, <1>2 DEF Seen
<1>8. ASSUME NEW v \in Waits, who'[v] \in Roster' PROVE last'[v] <= cursor'[who'[v]]
  <2>1. who[v] \in Roster /\ last[v] <= cursor[who[v]] /\ cursor'[who[v]] >= cursor[who[v]]
    BY <1>1, <1>5, <1>8 DEF Seen
  <2>2. cursor[who[v]] \in Nat /\ cursor'[who[v]] \in Nat /\ last[v] \in Nat
    BY <1>1, <1>3, <2>1
  <2>3. QED BY <1>1, <2>1, <2>2
<1>9. ASSUME NEW v \in Waits, wpc'[v] = "answer"
      PROVE  last'[v] < got'[v] /\ got'[v] <= cursor'[who'[v]]
  <2>1. CASE v = w
    <3>1. last[w] <= cursor[p] /\ cursor[p] \in Nat /\ last[w] \in Nat /\ got[w] \in Nat
      BY <1>0, <1>3 DEF Seen
    <3>2. last[w] < got[w]
      BY <1>4, <3>1
    <3>3. QED BY <1>0, <1>1, <1>5, <2>1, <3>1, <3>2
  <2>2. CASE v # w
    <3>1. /\ who[v] \in Roster /\ last[v] < got[v] /\ got[v] <= cursor[who[v]]
          /\ cursor'[who[v]] >= cursor[who[v]]
      BY <1>2, <1>5, <1>6, <1>9, <2>2 DEF Seen
    <3>2. cursor[who[v]] \in Nat /\ cursor'[who[v]] \in Nat /\ got[v] \in Nat
      BY <1>1, <1>3, <3>1
    <3>3. QED BY <1>1, <3>1, <3>2
  <2>3. QED BY <2>1, <2>2
<1>10. QED BY <1>7, <1>8, <1>9 DEF Seen

LEMMA AnswerSeen ==
  ASSUME Sound, Seen, NEW w \in Waits, Answer(w)
  PROVE  Seen'
<1>1. /\ UNCHANGED <<cursor, left, who>> /\ Roster' = Roster
      /\ wpc'[w] = "idle" /\ last'[w] = got[w]
      /\ \A v \in Waits \ {w} : wpc'[v] = wpc[v] /\ got'[v] = got[v] /\ last'[v] = last[v]
  BY DEF Answer, Rest, WGoto, roster, Roster, Sound, TypeOK, WaitTypes, HistoryTypes
<1>2. wpc[w] = "answer" /\ who[w] \in Roster /\ who[w] # Nobody
  BY DeliveryAssumption DEF Answer, Sound, TypeOK, RoomTypes, WaiterOnRoster
<1>3. last[w] < got[w] /\ got[w] <= cursor[who[w]] /\ last[w] \in Nat /\ got[w] \in Nat
  BY <1>2 DEF Seen, Sound, TypeOK, WaitTypes, HistoryTypes, RoomTypes
<1>4. QED BY <1>1, <1>2, <1>3 DEF Seen

\* One client is given the messages of its handle in the order of the log,
\* although other clients of the handle take some of them and joins, prunes
\* and disconnects come in between.
THEOREM ClientsSeeOrder == Spec => []ClientSeesOrder
<1>1. Init => Seen
  BY DEF Init, Seen, Roster
<1>2. ASSUME Sound, Seen, [Next]_vars
      PROVE  Seen'
  <2>1. ASSUME NEW w \in Waits, Answer(w) PROVE Seen'
    BY <1>2, <2>1, AnswerSeen
  <2>2. ASSUME NEW w \in Waits, Advance(w) PROVE Seen'
    BY <1>2, <2>2, AdvanceSeen
  <2>3. ASSUME NEW w \in Waits,
               \/ \E p \in Participants : Enter(w, p)
               \/ Alone(w) \/ Gate(w) \/ Subscribe(w) \/ ReadCursor(w) \/ FindNext(w)
               \/ AdvanceMiss(w) \/ Check(w) \/ Wake(w) \/ Expire(w) \/ Report(w) \/ DropWait(w)
        PROVE  Seen'
    BY <1>2, <2>3, QuietSeen
  <2>4. ASSUME \/ \E s \in Requests : \/ Insert(s) \/ Vote(s) \/ Commit(s) \/ CommitMiss(s)
                                      \/ Clear(s) \/ Notify(s) \/ DropRequest(s)
               \/ \E s \in Requests, k \in Kinds \ {"archive"}, p \in Participants,
                     q \in Participants \cup {Everyone} : Arrive(s, k, p, q)
               \/ Archive
               \/ UNCHANGED vars
        PROVE  Seen'
    BY <1>2, <2>4, OthersSeen
  <2>5. ASSUME NEW p \in Participants, Membership(p) PROVE Seen'
    BY <1>2, <2>5, MembershipSeen
  <2>6. QED BY <1>2, <2>1, <2>2, <2>3, <2>4, <2>5 DEF Next, Handle, Poll, Claim
<1>3. Sound /\ Seen => ClientSeesOrder
  BY DEF Sound, TypeOK, WaitTypes, HistoryTypes, RoomTypes, Seen, ClientSeesOrder
<1>4. QED BY <1>1, <1>2, <1>3, DeliverySound, PTL DEF Spec

-----------------------------------------------------------------------------
(* No lost wakeup.                                                         *)

\* A cursor does not fall behind what a wait has read of it.
Behind == \A w \in Waits : wpc[w] = "find" => cur[w] <= cursor[who[w]]

LEMMA BehindFrame ==
  ASSUME Sound, Behind, UNCHANGED cursor,
         \A w \in Waits : wpc'[w] = "find" => /\ wpc[w] = "find" /\ cur'[w] = cur[w]
                                              /\ who'[w] = who[w]
  PROVE  Behind'
BY DEF Behind

LEMMA PollBehind ==
  ASSUME Sound, Behind, NEW w \in Waits,
         \/ \E p \in Participants : Enter(w, p)
         \/ Alone(w) \/ Gate(w) \/ Subscribe(w) \/ ReadCursor(w) \/ FindNext(w)
         \/ AdvanceMiss(w) \/ Check(w) \/ Wake(w) \/ Expire(w) \/ Report(w) \/ Answer(w)
         \/ DropWait(w)
  PROVE  Behind'
<1> USE DEF Sound, TypeOK, WaitTypes
<1>1. UNCHANGED cursor
  BY DEF Enter, Alone, Gate, Subscribe, ReadCursor, FindNext, AdvanceMiss, Check, Wake, Expire,
         Report, Answer, DropWait, roster
<1>2. ASSUME wpc'[w] # "find",
             \A v \in Waits \ {w} : wpc'[v] = wpc[v] /\ who'[v] = who[v] /\ cur'[v] = cur[v]
      PROVE  Behind'
  BY <1>1, <1>2, BehindFrame
<1>3. CASE \E p \in Participants : Enter(w, p)
  <2>1. wpc'[w] # "find" /\ \A v \in Waits \ {w} : wpc'[v] = wpc[v] /\ who'[v] = who[v] /\ cur'[v] = cur[v]
    BY <1>3 DEF Enter, WGoto
  <2>2. QED BY <1>2, <2>1
<1>4. CASE Alone(w) \/ Report(w) \/ Answer(w) \/ DropWait(w)
  <2>1. wpc'[w] # "find" /\ \A v \in Waits \ {w} : wpc'[v] = wpc[v] /\ who'[v] = who[v] /\ cur'[v] = cur[v]
    BY <1>4 DEF Alone, Report, Answer, DropWait, Rest, WGoto
  <2>2. QED BY <1>2, <2>1
<1>5. CASE Gate(w) \/ Subscribe(w) \/ AdvanceMiss(w) \/ Check(w) \/ Wake(w) \/ Expire(w)
  <2>1. wpc'[w] # "find" /\ \A v \in Waits \ {w} : wpc'[v] = wpc[v] /\ who'[v] = who[v] /\ cur'[v] = cur[v]
    BY <1>5 DEF Gate, Subscribe, AdvanceMiss, Check, Wake, Expire, WGoto
  <2>2. QED BY <1>2, <2>1
<1>6. CASE FindNext(w)
  <2>1. wpc'[w] # "find" /\ \A v \in Waits \ {w} : wpc'[v] = wpc[v] /\ who'[v] = who[v] /\ cur'[v] = cur[v]
    BY <1>6 DEF FindNext, WGoto
  <2>2. QED BY <1>2, <2>1
<1>7. CASE ReadCursor(w)
  <2>1. /\ cur'[w] = cursor[who[w]] /\ who' = who
        /\ \A v \in Waits \ {w} : wpc'[v] = wpc[v] /\ cur'[v] = cur[v]
        /\ cursor[who[w]] \in Nat
    BY <1>7 DEF ReadCursor, WGoto, WaiterOnRoster, RoomTypes
  <2>2. QED BY <1>1, <2>1 DEF Behind
<1>8. QED BY <1>3, <1>4, <1>5, <1>6, <1>7

LEMMA StepBehind == ASSUME Sound, Behind, [Next]_vars PROVE Behind'
<1>1. ASSUME NEW w \in Waits, Advance(w) PROVE Behind'
  <2>1. PICK p \in Roster : p = who[w]
    BY <1>1 DEF Advance, Sound, WaiterOnRoster
  <2>2. cursor' = [cursor EXCEPT ![p] = got[w]] /\ got[w] > cursor[p] /\ who' = who
    <3>1. cursor[p] \in Nat /\ Len(log) \in Nat
      BY DEF Sound, TypeOK, RoomTypes
    <3>2. QED BY <1>1, <2>1, <3>1, Claimed DEF Inboxes!IsNext
  <2>3. wpc'[w] = "answer" /\ \A v \in Waits \ {w} : wpc'[v] = wpc[v] /\ cur'[v] = cur[v]
    BY <1>1 DEF Advance, WGoto, Sound, TypeOK, WaitTypes
  <2>4. \A q \in Roster : cursor[q] \in Nat /\ cursor'[q] \in Nat /\ cursor'[q] >= cursor[q]
    <3>1. cursor \in [Roster -> Nat] /\ got[w] \in Nat
      BY DEF Sound, TypeOK, RoomTypes, WaitTypes
    <3>2. QED BY <2>2, <3>1
  <2>5. ASSUME NEW v \in Waits, wpc'[v] = "find" PROVE cur'[v] <= cursor'[who'[v]]
    <3>1. v # w /\ wpc[v] = "find" /\ cur'[v] = cur[v] /\ who'[v] = who[v]
      BY <2>2, <2>3, <2>5
    <3>2. who[v] \in Roster /\ cur[v] <= cursor[who[v]] /\ cur[v] \in Nat
      BY <3>1 DEF Behind, Sound, WaiterOnRoster, TypeOK, WaitTypes
    <3>3. QED BY <2>4, <3>1, <3>2
  <2>6. QED BY <2>5 DEF Behind
<1>2. ASSUME NEW p \in Participants, Membership(p) PROVE Behind'
  <2>1. UNCHANGED <<who, wpc, cur>>
    BY <1>2 DEF Membership, JoinRead, JoinInsert, Prune, waitVars
  <2>2. ASSUME NEW w \in Waits, wpc[w] = "find" PROVE cursor'[who[w]] = cursor[who[w]]
    <3>1. who[w] \in Roster
      BY <2>2 DEF Sound, WaiterOnRoster
    <3>2. CASE JoinRead(p)
      BY <3>2 DEF JoinRead
    <3>3. CASE JoinInsert(p)
      <4>1. p \notin Roster
        BY <3>3 DEF JoinInsert, Sound, Joining
      <4>2. QED BY <3>1, <3>3, <4>1 DEF JoinInsert, Extend, Roster
    <3>4. CASE Prune(p)
      BY <2>2, <3>1, <3>4 DEF Prune, Without, Roster
    <3>5. QED BY <1>2, <3>2, <3>3, <3>4 DEF Membership
  <2>3. QED BY <2>1, <2>2 DEF Behind
<1>3. CASE \/ \E s \in Requests : \/ Insert(s) \/ Vote(s) \/ Commit(s) \/ CommitMiss(s) \/ Clear(s)
                                 \/ Notify(s) \/ DropRequest(s)
           \/ \E s \in Requests, k \in Kinds \ {"archive"}, p \in Participants,
                 q \in Participants \cup {Everyone} : Arrive(s, k, p, q)
           \/ Archive
           \/ UNCHANGED vars
  <2>1. UNCHANGED <<cursor, who, wpc, cur>>
    BY <1>3 DEF Insert, Vote, Commit, CommitMiss, Clear, Notify, DropRequest, Arrive, Archive, room,
                roster, waitVars, vars
  <2>2. QED BY <2>1 DEF Behind
<1>4. QED BY <1>1, <1>2, <1>3, PollBehind DEF Next, Handle, Poll, Claim

\* Only a message and a close touch the votes of others on their way to the hub.
Clearers == \A s \in Requests : rpc[s] = "clear" => kind[s] \in {"msg", "close"}

LEMMA StepClearers == ASSUME Sound, Clearers, [Next]_vars PROVE Clearers'
<1> USE DEF Sound, TypeOK, RequestTypes, Clearers
<1>1. ASSUME NEW s \in Requests,
             Insert(s) \/ Commit(s) \/ CommitMiss(s) \/ Vote(s) \/ Clear(s) \/ Notify(s)
               \/ DropRequest(s)
      PROVE  Clearers'
  <2>1. /\ kind' = kind
        /\ \A r \in Requests \ {s} : rpc'[r] = rpc[r]
        /\ rpc'[s] = "clear" => kind[s] \in {"msg", "close"}
    BY <1>1 DEF Insert, Commit, CommitMiss, Vote, Clear, Notify, DropRequest, RGoto
  <2>2. QED BY <2>1
<1>2. ASSUME NEW s \in Requests, NEW k \in Kinds \ {"archive"}, NEW p \in Participants,
             NEW q \in Participants \cup {Everyone}, Arrive(s, k, p, q)
      PROVE  Clearers'
  <2>1. /\ rpc'[s] # "clear"
        /\ \A r \in Requests \ {s} : rpc'[r] = rpc[r] /\ kind'[r] = kind[r]
    BY <1>2 DEF Arrive, RGoto
  <2>2. QED BY <2>1
<1>3. ASSUME NEW w \in Waits,
             \/ \E p \in Participants : Enter(w, p)
             \/ Poll(w) \/ DropWait(w)
      PROVE  UNCHANGED <<rpc, kind>>
  BY <1>3 DEF Enter, Poll, Claim, Alone, Gate, Subscribe, ReadCursor, FindNext, Advance,
              AdvanceMiss, Check, Wake, Expire, Report, Answer, DropWait, reqVars
<1>4. ASSUME \/ \E p \in Participants : Membership(p)
             \/ Archive \/ UNCHANGED vars
      PROVE  UNCHANGED <<rpc, kind>>
  BY <1>4 DEF Membership, JoinRead, JoinInsert, Prune, Archive, reqVars, vars
<1>5. QED BY <1>1, <1>2, <1>3, <1>4 DEF Next, Handle

\* The message i was stored by a request that has still to ring.
Unrung(i) == \E s \in Requests : msg[s] = i /\ rpc[s] \in {"clear", "notify", "dropped"}

HaltUnrung == halt \in Requests => rpc[halt] \in {"insert", "clear", "notify", "dropped"}

\* A request that has made p see a proposal, by a vote or by taking p's back.
ProposalUnrung(p) ==
  \E s \in Requests :
    /\ rpc[s] \in {"notify", "dropped"}
    /\ (kind[s] = "vote" /\ by[s] # p) \/ (kind[s] = "msg" /\ by[s] = p)

\* From the empty claim on, every unread message comes with a ping or a request
\* that has still to ring; from the park on, so does a halt and a proposal.
Awake ==
  \A w \in Waits :
    pings[w] = 0 =>
      /\ wpc[w] \in {"check", "parked"} => \A i \in Unread(who[w]) : Unrung(i)
      /\ wpc[w] = "parked" => HaltUnrung /\ (Proposed(who[w]) => ProposalUnrung(who[w]))

LEMMA AwakeIsEnough == Awake => NoLostWakeup
BY DEF Awake, NoLostWakeup, Unrung, HaltUnrung, ProposalUnrung

\* A wait that comes to check or to park, or was there, with no ping pending.
LEMMA QuietAwake ==
  ASSUME Sound, Awake, UNCHANGED <<room, roster, reqVars>>,
         NEW w \in Waits,
         \A v \in Waits \ {w} : wpc'[v] = wpc[v] /\ who'[v] = who[v] /\ pings'[v] = pings[v],
         \/ wpc'[w] \notin {"check", "parked"}
         \/ wpc'[w] = "check" /\ Unread(who'[w]) = {}
         \/ /\ wpc[w] = "check" /\ wpc'[w] = "parked" /\ ~Yields(who[w])
            /\ who'[w] = who[w] /\ pings'[w] = pings[w]
  PROVE  Awake'
<1>1. /\ \A p, i : Unrung(i)' <=> Unrung(i)
      /\ HaltUnrung' <=> HaltUnrung
      /\ \A p : (ProposalUnrung(p)' <=> ProposalUnrung(p)) /\ (Proposed(p)' <=> Proposed(p))
      /\ \A p : Unread(p)' = Unread(p)
  BY DEF Unrung, HaltUnrung, ProposalUnrung, Proposed, Unread, Addressed, Inboxes!Addressed, room,
         roster, reqVars
<1>2. ASSUME NEW v \in Waits, pings'[v] = 0
      PROVE  /\ wpc'[v] \in {"check", "parked"} => \A i \in Unread(who'[v]) : Unrung(i)
             /\ wpc'[v] = "parked" => HaltUnrung /\ (Proposed(who'[v]) => ProposalUnrung(who'[v]))
  <2>1. CASE v # w
    BY <1>2, <2>1 DEF Awake
  <2>2. CASE v = w /\ wpc'[w] \notin {"check", "parked"}
    BY <2>2
  <2>3. CASE v = w /\ wpc'[w] = "check" /\ Unread(who'[w]) = {}
    BY <2>3
  <2>4. CASE v = w /\ wpc[w] = "check" /\ wpc'[w] = "parked" /\ ~Yields(who[w])
             /\ who'[w] = who[w] /\ pings'[w] = pings[w]
    <3>1. halt \notin Requests /\ ~Proposed(who[w])
      BY <2>4, DeliveryAssumption DEF Yields
    <3>2. QED BY <1>2, <2>4, <3>1 DEF Awake, HaltUnrung
  <2>5. QED BY <2>1, <2>2, <2>3, <2>4
<1>3. QED BY <1>1, <1>2 DEF Awake

LEMMA PollAwake ==
  ASSUME Sound, Behind, Awake, NEW w \in Waits,
         \/ \E p \in Participants : Enter(w, p)
         \/ Alone(w) \/ Gate(w) \/ Subscribe(w) \/ ReadCursor(w) \/ FindNext(w)
         \/ AdvanceMiss(w) \/ Check(w) \/ Wake(w) \/ Expire(w) \/ Report(w) \/ Answer(w)
         \/ DropWait(w)
  PROVE  Awake'
<1> USE DEF Sound, TypeOK, WaitTypes
<1>1. UNCHANGED <<room, roster, reqVars>>
  BY DEF Enter, Alone, Gate, Subscribe, ReadCursor, FindNext, AdvanceMiss, Check, Wake, Expire,
         Report, Answer, DropWait
<1>2. ASSUME NEW p \in Participants, Enter(w, p) PROVE Awake'
  <2>1. /\ wpc'[w] \in {"subscribe", "gate"}
        /\ \A v \in Waits \ {w} : wpc'[v] = wpc[v] /\ who'[v] = who[v] /\ pings'[v] = pings[v]
    BY <1>2 DEF Enter, WGoto
  <2>2. QED BY <1>1, <2>1, QuietAwake
<1>3. CASE Alone(w) \/ Report(w) \/ Answer(w) \/ DropWait(w)
  <2>1. /\ wpc'[w] = "idle"
        /\ \A v \in Waits \ {w} : wpc'[v] = wpc[v] /\ who'[v] = who[v] /\ pings'[v] = pings[v]
    BY <1>3 DEF Alone, Report, Answer, DropWait, Rest, WGoto
  <2>2. QED BY <1>1, <2>1, QuietAwake
<1>4. CASE Gate(w) \/ Subscribe(w) \/ ReadCursor(w) \/ AdvanceMiss(w) \/ Wake(w) \/ Expire(w)
  <2>1. /\ wpc'[w] \in {"subscribe", "read", "find", "report"}
        /\ \A v \in Waits \ {w} : wpc'[v] = wpc[v] /\ who'[v] = who[v] /\ pings'[v] = pings[v]
    BY <1>4 DEF Gate, Subscribe, ReadCursor, AdvanceMiss, Wake, Expire, WGoto
  <2>2. QED BY <1>1, <2>1, QuietAwake
<1>5. CASE Check(w)
  <2>1. /\ wpc[w] = "check" /\ who' = who /\ pings' = pings
        /\ \A v \in Waits \ {w} : wpc'[v] = wpc[v]
        /\ wpc'[w] = "report" \/ (wpc'[w] = "parked" /\ ~Yields(who[w]))
    BY <1>5 DEF Check, WGoto
  <2>2. QED BY <1>1, <2>1, QuietAwake
<1>6. CASE FindNext(w)
  <2>1. /\ wpc[w] = "find" /\ who' = who /\ pings' = pings
        /\ \A v \in Waits \ {w} : wpc'[v] = wpc[v]
    BY <1>6 DEF FindNext, WGoto
  <2>2. CASE wpc'[w] = "cas"
    BY <1>1, <2>1, <2>2, QuietAwake
  <2>3. CASE /\ wpc'[w] = "check"
             /\ \A i \in cur[w] + 1 .. Len(log) : ~Addressed(log[i], who[w])
    <3>1. Unread(who[w]) = {}
      <4>1. cursor[who[w]] \in Nat /\ cur[w] \in Nat /\ Len(log) \in Nat
        BY <2>1 DEF WaiterOnRoster, RoomTypes
      <4>2. cur[w] <= cursor[who[w]]
        BY <2>1 DEF Behind
      <4>3. QED BY <2>3, <4>1, <4>2 DEF Unread
    <3>2. QED BY <1>1, <2>1, <2>3, <3>1, QuietAwake
  <2>4. QED BY <1>6, <2>2, <2>3 DEF FindNext, WGoto
<1>7. QED BY <1>2, <1>3, <1>4, <1>5, <1>6

\* A claim takes from the unread; a join and a prune change nobody's inbox but
\* that of a participant without a wait.
LEMMA AdvanceAwake == ASSUME Sound, Awake, NEW w \in Waits, Advance(w) PROVE Awake'
<1>1. PICK p \in Roster : p = who[w]
  BY DEF Advance, Sound, WaiterOnRoster
<1>2. /\ cursor' = [cursor EXCEPT ![p] = got[w]] /\ got[w] > cursor[p]
      /\ cursor \in [Roster -> Nat] /\ got[w] \in Nat /\ Len(log) \in Nat
  <2>1. cursor \in [Roster -> Nat] /\ got[w] \in Nat /\ Len(log) \in Nat
    BY DEF Sound, TypeOK, RoomTypes, WaitTypes
  <2>2. QED BY <1>1, <2>1, Claimed DEF Inboxes!IsNext
<1>3. /\ UNCHANGED <<log, halt, votes, kind, by, to, rpc, msg, who, pings>>
      /\ wpc'[w] = "answer" /\ \A v \in Waits \ {w} : wpc'[v] = wpc[v]
  BY DEF Advance, WGoto, room, reqVars, Sound, TypeOK, WaitTypes
<1>4. \A q \in Roster : Unread(q)' \subseteq Unread(q)
  <2>1. \A q \in Roster : cursor'[q] >= cursor[q] /\ cursor'[q] \in Nat /\ cursor[q] \in Nat
    BY <1>2
  <2>2. QED BY <1>2, <1>3, <2>1 DEF Unread, Addressed, Inboxes!Addressed
<1>5. /\ \A i : Unrung(i)' <=> Unrung(i)
      /\ HaltUnrung' <=> HaltUnrung
      /\ \A q : (ProposalUnrung(q)' <=> ProposalUnrung(q)) /\ (Proposed(q)' <=> Proposed(q))
  BY <1>3 DEF Unrung, HaltUnrung, ProposalUnrung, Proposed
<1>6. ASSUME NEW v \in Waits, NEW q, q = who[v], pings'[v] = 0
      PROVE  /\ wpc'[v] \in {"check", "parked"} => \A i \in Unread(q)' : Unrung(i)
             /\ wpc'[v] = "parked" => HaltUnrung /\ (Proposed(q) => ProposalUnrung(q))
  <2>1. ASSUME wpc'[v] \in {"check", "parked"}
        PROVE  wpc[v] = wpc'[v] /\ q \in Roster /\ pings[v] = 0
    BY <1>3, <1>6, <2>1 DEF Sound, WaiterOnRoster
  <2>2. QED BY <1>4, <1>6, <2>1 DEF Awake
<1>7. ASSUME NEW v \in Waits, pings'[v] = 0
      PROVE  (/\ wpc[v] \in {"check", "parked"} => \A i \in Unread(who[v]) : Unrung(i)
              /\ wpc[v] = "parked" => HaltUnrung /\ (Proposed(who[v]) => ProposalUnrung(who[v])))'
  <2>1. PICK q : q = who[v]
    OBVIOUS
  <2>2. who'[v] = q
    BY <1>3, <2>1
  <2>3. QED BY <1>5, <1>6, <1>7, <2>1, <2>2
<1>8. QED BY <1>7 DEF Awake

LEMMA MembershipAwake ==
  ASSUME Sound, Awake, NEW p \in Participants, Membership(p)
  PROVE  Awake'
<1>1. UNCHANGED <<log, halt, kind, by, to, rpc, msg, who, wpc, pings>>
  BY DEF Membership, JoinRead, JoinInsert, Prune, room, reqVars, waitVars
<1>2. ASSUME NEW w \in Waits, NEW q, q = who[w], wpc[w] # "idle"
      PROVE  /\ cursor'[q] = cursor[q]
             /\ Proposed(q)' => Proposed(q)
  <2>1. q \in Roster
    BY <1>2 DEF Sound, WaiterOnRoster
  <2>2. CASE JoinRead(p)
    BY <2>2 DEF JoinRead, room, Proposed
  <2>3. CASE JoinInsert(p)
    <3>1. p \notin Roster
      BY <2>3 DEF JoinInsert, Sound, Joining
    <3>2. QED BY <2>1, <2>3, <3>1 DEF JoinInsert, Extend, Roster, room, Proposed
  <2>4. CASE Prune(p)
    <3>1. q # p /\ votes' = votes \ {p}
      BY <1>2, <2>4 DEF Prune
    <3>2. QED BY <2>1, <2>4, <3>1 DEF Prune, Without, Roster, Proposed
  <2>5. QED BY <2>2, <2>3, <2>4 DEF Membership
<1>3. ASSUME NEW w \in Waits, NEW q, q = who[w], wpc[w] # "idle" PROVE Unread(q)' = Unread(q)
  BY <1>1, <1>2, <1>3 DEF Unread, Addressed, Inboxes!Addressed
<1>4. /\ \A i : Unrung(i)' <=> Unrung(i)
      /\ HaltUnrung' <=> HaltUnrung
      /\ \A q : ProposalUnrung(q)' <=> ProposalUnrung(q)
  BY <1>1 DEF Unrung, HaltUnrung, ProposalUnrung
<1>5. ASSUME NEW w \in Waits, NEW q, q = who[w], pings[w] = 0
      PROVE  /\ wpc[w] \in {"check", "parked"} => \A i \in Unread(q)' : Unrung(i)
             /\ wpc[w] = "parked" => HaltUnrung /\ (Proposed(q)' => ProposalUnrung(q))
  BY <1>2, <1>3, <1>5 DEF Awake
<1>6. ASSUME NEW w \in Waits, pings'[w] = 0
      PROVE  (/\ wpc[w] \in {"check", "parked"} => \A i \in Unread(who[w]) : Unrung(i)
              /\ wpc[w] = "parked" => HaltUnrung /\ (Proposed(who[w]) => ProposalUnrung(who[w])))'
  <2>1. PICK q : q = who[w]
    OBVIOUS
  <2>2. who'[w] = q
    BY <1>1, <2>1
  <2>3. QED BY <1>1, <1>4, <1>5, <1>6, <2>1, <2>2
<1>7. QED BY <1>6 DEF Awake

\* A request that changes the room has still to ring, and when it rings every
\* wait that has subscribed holds a ping.
LEMMA RequestAwake ==
  ASSUME Sound, Clearers, Awake,
         \/ \E s \in Requests : \/ Insert(s) \/ Vote(s) \/ Commit(s) \/ CommitMiss(s) \/ Clear(s)
                                \/ DropRequest(s)
         \/ \E s \in Requests, k \in Kinds \ {"archive"}, p \in Participants,
               q \in Participants \cup {Everyone} : Arrive(s, k, p, q)
         \/ Archive
  PROVE  Awake'
<1>1. UNCHANGED <<cursor, who, wpc, pings>>
  BY DEF Insert, Vote, Commit, CommitMiss, Clear, DropRequest, Arrive, Archive, room, roster, waitVars
\* A change leaves what was unrung unrung, and what it adds.
<1>2. ASSUME \A i : Unrung(i) => Unrung(i)',
             \A q \in Roster : \A i \in Unread(q)' \ Unread(q) : Unrung(i)',
             HaltUnrung => HaltUnrung',
             \A q : (Proposed(q) => ProposalUnrung(q)) => (Proposed(q)' => ProposalUnrung(q)')
      PROVE  Awake'
  <2>1. ASSUME NEW w \in Waits, pings'[w] = 0
        PROVE  (/\ wpc[w] \in {"check", "parked"} => \A i \in Unread(who[w]) : Unrung(i)
                /\ wpc[w] = "parked" => HaltUnrung /\ (Proposed(who[w]) => ProposalUnrung(who[w])))'
    <3>1. PICK q : q = who[w]
      OBVIOUS
    <3>2. who'[w] = q /\ wpc'[w] = wpc[w] /\ pings[w] = 0
      BY <1>1, <2>1, <3>1
    <3>3. ASSUME wpc[w] \in {"check", "parked"} PROVE \A i \in Unread(q)' : Unrung(i)'
      <4>1. q \in Roster
        BY <3>1, <3>3 DEF Sound, WaiterOnRoster
      <4>2. \A i \in Unread(q) : Unrung(i)
        BY <3>1, <3>2, <3>3 DEF Awake
      <4>3. QED BY <1>2, <4>1, <4>2
    <3>4. ASSUME wpc[w] = "parked" PROVE HaltUnrung' /\ (Proposed(q)' => ProposalUnrung(q)')
      <4>1. HaltUnrung /\ (Proposed(q) => ProposalUnrung(q))
        BY <3>1, <3>2, <3>4 DEF Awake
      <4>2. QED BY <1>2, <4>1
    <3>5. QED BY <3>2, <3>3, <3>4
  <2>2. QED BY <2>1 DEF Awake
<1> USE DEF Sound, TypeOK, RequestTypes
<1>3. ASSUME NEW s \in Requests, Insert(s) PROVE Awake'
  <2>1. PICK n \in Nat : n = Len(log)
    BY DEF RoomTypes
  <2>2. /\ rpc[s] = "insert" /\ rpc'[s] \in {"clear", "notify"} /\ msg'[s] = n + 1
        /\ \A r \in Requests \ {s} : rpc'[r] = rpc[r] /\ msg'[r] = msg[r]
        /\ UNCHANGED <<halt, votes, kind, by>>
    BY <1>3, <2>1 DEF Insert, RGoto
  <2>3. ASSUME NEW i, Unrung(i) PROVE Unrung(i)'
    <3>1. PICK r \in Requests : msg[r] = i /\ rpc[r] \in {"clear", "notify", "dropped"}
      BY <2>3 DEF Unrung
    <3>2. msg'[r] = i /\ rpc'[r] \in {"clear", "notify", "dropped"}
      BY <2>2, <3>1
    <3>3. QED BY <3>2 DEF Unrung
  <2>4. ASSUME NEW i, i = n + 1 PROVE Unrung(i)'
    BY <2>2, <2>4 DEF Unrung
  <2>5. ASSUME NEW q \in Roster, NEW i \in Unread(q)' \ Unread(q) PROVE i = n + 1
    <3>1. [from |-> by[s], to |-> to[s]] \in Inboxes!Message
      BY <1>3, <2>2 DEF SenderKnown, Inboxes!Message
    <3>2. Len(log') = n + 1 /\ \A j \in 1 .. n : log'[j] = log[j]
      BY <1>3, <2>1, <3>1, Appended DEF Insert, RoomTypes
    <3>3. cursor'[q] = cursor[q] /\ cursor[q] \in Nat
      BY <1>1 DEF RoomTypes
    <3>4. QED BY <2>1, <3>2, <3>3 DEF Unread, Addressed, Inboxes!Addressed
  <2>6. \A q \in Roster : \A i \in Unread(q)' \ Unread(q) : Unrung(i)'
    BY <2>4, <2>5
  <2>7. HaltUnrung => HaltUnrung'
    BY <2>2 DEF HaltUnrung
  <2>8. \A q : (Proposed(q) => ProposalUnrung(q)) => (Proposed(q)' => ProposalUnrung(q)')
    BY <2>2 DEF Proposed, ProposalUnrung
  <2>9. QED BY <1>2, <2>3, <2>6, <2>7, <2>8
<1>4. ASSUME UNCHANGED <<log, msg>> PROVE \A q \in Roster : Unread(q)' = Unread(q)
  BY <1>1, <1>4 DEF Unread, Addressed, Inboxes!Addressed
<1>5. ASSUME NEW s \in Requests, Vote(s) PROVE Awake'
  <2>1. /\ rpc[s] = "act" /\ rpc'[s] = "notify" /\ kind[s] = "vote"
        /\ \A r \in Requests \ {s} : rpc'[r] = rpc[r]
        /\ votes' = votes \cup ({by[s]} \cap Roster)
        /\ UNCHANGED <<log, msg, halt, kind, by>>
    BY <1>5 DEF Vote, RGoto
  <2>2. (\A i : Unrung(i) => Unrung(i)') /\ (HaltUnrung => HaltUnrung')
    BY <2>1 DEF Unrung, HaltUnrung
  <2>3. ASSUME NEW q, Proposed(q) => ProposalUnrung(q), Proposed(q)' PROVE ProposalUnrung(q)'
    <3>1. CASE Proposed(q)
      BY <2>1, <2>3, <3>1 DEF ProposalUnrung
    <3>2. CASE ~Proposed(q)
      <4>1. by[s] # q
        BY <2>1, <2>3, <3>2 DEF Proposed
      <4>2. QED BY <2>1, <4>1 DEF ProposalUnrung
    <3>3. QED BY <3>1, <3>2
  <2>4. QED BY <1>2, <1>4, <2>1, <2>2, <2>3
<1>6. ASSUME NEW s \in Requests, Commit(s) PROVE Awake'
  <2>1. /\ rpc[s] = "act" /\ rpc'[s] \in {"insert", "clear", "notify"}
        /\ \A r \in Requests \ {s} : rpc'[r] = rpc[r]
        /\ halt' = Open \/ halt' = s
        /\ UNCHANGED <<log, msg, votes, kind, by>>
    BY <1>6 DEF Commit, RGoto
  <2>2. \A i : Unrung(i) => Unrung(i)'
    BY <2>1 DEF Unrung
  <2>3. HaltUnrung'
    BY <2>1, DeliveryAssumption DEF HaltUnrung
  <2>4. \A q : (Proposed(q) => ProposalUnrung(q)) => (Proposed(q)' => ProposalUnrung(q)')
    BY <2>1 DEF Proposed, ProposalUnrung
  <2>5. QED BY <1>2, <1>4, <2>1, <2>2, <2>3, <2>4
<1>7. ASSUME NEW s \in Requests, CommitMiss(s) \/ DropRequest(s) PROVE Awake'
  <2>1. /\ \/ rpc[s] = "act"
           \/ rpc[s] \notin {"unborn", "done", "dropped"} /\ rpc'[s] = "dropped"
        /\ \A r \in Requests \ {s} : rpc'[r] = rpc[r]
        /\ UNCHANGED <<log, msg, halt, votes, kind, by>>
    BY <1>7 DEF CommitMiss, DropRequest, RGoto, room
  <2>2. (\A i : Unrung(i) => Unrung(i)') /\ (HaltUnrung => HaltUnrung')
    BY <2>1 DEF Unrung, HaltUnrung
  <2>3. \A q : (Proposed(q) => ProposalUnrung(q)) => (Proposed(q)' => ProposalUnrung(q)')
    BY <2>1 DEF Proposed, ProposalUnrung
  <2>4. QED BY <1>2, <1>4, <2>1, <2>2, <2>3
<1>8. ASSUME NEW s \in Requests, Clear(s) PROVE Awake'
  <2>1. /\ rpc[s] = "clear" /\ rpc'[s] = "notify"
        /\ \A r \in Requests \ {s} : rpc'[r] = rpc[r]
        /\ votes' = {} \/ (kind[s] = "msg" /\ votes' = votes \ {by[s]})
        /\ UNCHANGED <<log, msg, halt, kind, by>>
    BY <1>8 DEF Clear, RGoto, Clearers
  <2>2. (\A i : Unrung(i) => Unrung(i)') /\ (HaltUnrung => HaltUnrung')
    BY <2>1 DEF Unrung, HaltUnrung
  <2>3. ASSUME NEW q, Proposed(q) => ProposalUnrung(q), Proposed(q)' PROVE ProposalUnrung(q)'
    <3>1. CASE Proposed(q)
      BY <2>1, <2>3, <3>1 DEF ProposalUnrung
    <3>2. CASE ~Proposed(q)
      <4>1. kind[s] = "msg" /\ by[s] = q
        BY <2>1, <2>3, <3>2 DEF Proposed
      <4>2. QED BY <2>1, <4>1 DEF ProposalUnrung
    <3>3. QED BY <3>1, <3>2
  <2>4. QED BY <1>2, <1>4, <2>1, <2>2, <2>3
<1>9. ASSUME NEW s \in Requests, NEW k \in Kinds \ {"archive"}, NEW p \in Participants,
             NEW q \in Participants \cup {Everyone}, Arrive(s, k, p, q)
      PROVE  Awake'
  <2>1. /\ rpc[s] = "unborn"
        /\ \A r \in Requests \ {s} : rpc'[r] = rpc[r] /\ kind'[r] = kind[r] /\ by'[r] = by[r]
        /\ UNCHANGED <<log, msg, halt, votes>>
    BY <1>9 DEF Arrive, RGoto, room
  <2>2. (\A i : Unrung(i) => Unrung(i)') /\ (HaltUnrung => HaltUnrung')
    BY <2>1 DEF Unrung, HaltUnrung
  <2>3. \A r : (Proposed(r) => ProposalUnrung(r)) => (Proposed(r)' => ProposalUnrung(r)')
    BY <2>1 DEF Proposed, ProposalUnrung
  <2>4. QED BY <1>2, <1>4, <2>1, <2>2, <2>3
<1>10. ASSUME Archive PROVE Awake'
  <2>1. UNCHANGED <<log, msg, votes, rpc, kind, by>> /\ halt' = Sweeper
    BY <1>10 DEF Archive, reqVars
  <2>2. (\A i : Unrung(i) => Unrung(i)') /\ HaltUnrung'
    BY <2>1, DeliveryAssumption DEF Unrung, HaltUnrung
  <2>3. \A r : (Proposed(r) => ProposalUnrung(r)) => (Proposed(r)' => ProposalUnrung(r)')
    BY <2>1 DEF Proposed, ProposalUnrung
  <2>4. QED BY <1>2, <1>4, <2>1, <2>2, <2>3
<1>11. QED BY <1>3, <1>5, <1>6, <1>7, <1>8, <1>9, <1>10

LEMMA NotifyAwake == ASSUME Sound, Awake, NEW s \in Requests, Notify(s) PROVE Awake'
<1>1. ASSUME NEW w \in Waits, wpc'[w] \in {"check", "parked"} PROVE pings'[w] # 0
  <2>1. w \in Subscribed /\ pings[w] \in Nat
    BY <1>1 DEF Notify, Subscribed, Sound, TypeOK, WaitTypes
  <2>2. QED BY <2>1, DeliveryAssumption DEF Notify
<1>2. QED BY <1>1 DEF Awake

LEMMA StutterAwake == ASSUME Awake, UNCHANGED vars PROVE Awake'
BY DEF Awake, Unread, Unrung, HaltUnrung, Proposed, ProposalUnrung, Addressed, Inboxes!Addressed,
       vars, room, roster, reqVars, waitVars

LEMMA StepAwake == ASSUME Sound, Behind, Clearers, Awake, [Next]_vars PROVE Awake'
BY PollAwake, AdvanceAwake, MembershipAwake, RequestAwake, NotifyAwake, StutterAwake
DEF Next, Handle, Poll, Claim

\* A parked wait that has something to react to has a ping pending, or the
\* request that caused it has still to ring or was cut off before it did:
\* whatever lands between its claim, its look at the room and its park, and
\* however many pings its channel has dropped.
THEOREM NoWakeupLost == Spec => []NoLostWakeup
<1>1. Init => Behind /\ Clearers /\ Awake
  BY DEF Init, Behind, Clearers, Awake
<1>2. QED BY <1>1, AwakeIsEnough, StepBehind, StepClearers, StepAwake, DeliverySound, PTL DEF Spec
=============================================================================
