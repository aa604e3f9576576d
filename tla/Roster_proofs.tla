---------------------------- MODULE Roster_proofs ----------------------------
(***************************************************************************)
(* For any requests, agents, handles, long polls, windows and bounds: the  *)
(* types of Roster, the truth of poll_live, the safety of parked handles   *)
(* from a prune, and what agents are answered.                             *)
(***************************************************************************)
EXTENDS Roster, FiniteSetTheorems, TLAPS

Request == [pc : Positions, room : Rooms, label : Labels \cup {Nobody}, start : 0 .. MaxHead,
            handle : Handles \cup {Nobody}, tries : 0 .. MaxAttempts,
            how : Answers, upto : 0 .. MaxHead]
Participant == [room : Rooms, instance : Labels, cursor : 0 .. MaxHead, age : 0 .. GhostAfter + 1]
Wait == [pc : {"away", "touch", "parked"}, handle : Handles \cup {Nobody}, left : 0 .. Cap]

Joining == {"find", "handle", "list", "cursor", "insert", "refetch"}

\* What the position of a request's handler says of its locals.
PlacedAt(x) ==
  /\ x.pc # "done" => x.how = "none"
  /\ x.pc = "done" => x.how # "none"
  /\ x.pc \in Joining => x.label \in Labels
  /\ x.pc \in {"idle", "open", "find", "handle", "list", "refetch"} => x.tries < MaxAttempts
  /\ x.pc \in {"cursor", "insert", "refetch"} => x.handle \in Handles
  /\ x.how \in {"created", "resumed"} => x.handle \in Handles /\ x.label \in Labels

Placed == \A q \in Requests : PlacedAt(req[q])

\* A long poll has a handle from its resolve on, and its whole cap before it
\* parks.
WaitsPlaced ==
  \A w \in Waits : /\ wait[w].pc # "away" => wait[w].handle \in Handles
                   /\ wait[w].pc = "touch" => wait[w].left = Cap

\* The presence map counts: an entry holds the number of open guards and the
\* age of the last release, and a handle without an entry has neither.
Counted ==
  \A h \in Handles :
    /\ h \in DOMAIN entry => /\ entry[h].active = Cardinality(Guards(h))
                             /\ entry[h].released = gone[h]
    /\ h \notin DOMAIN entry => Guards(h) = {} /\ gone[h] = Grace + 1

-----------------------------------------------------------------------------
(* Type correctness, one lemma per part of the state.                      *)

RoomTypes == rooms \subseteq Rooms /\ head \in [Rooms -> 0 .. MaxHead]
RowTypes == Rows \subseteq Handles /\ row \in [Rows -> Participant]
ReqTypes == req \in [Requests -> Request]
WaitTypes == wait \in [Waits -> Wait]
EntryTypes ==
  /\ DOMAIN entry \subseteq Handles
  /\ entry \in [DOMAIN entry -> [active : 0 .. Cardinality(Waits), released : 0 .. Grace + 1]]
HistoryTypes == gone \in [Handles -> 0 .. Grace + 1] /\ lost \subseteq Handles

LEMMA TypeParts ==
  TypeOK <=> /\ RoomTypes /\ RowTypes /\ ReqTypes /\ WaitTypes /\ EntryTypes /\ HistoryTypes
BY DEF TypeOK, RoomTypes, RowTypes, ReqTypes, WaitTypes, EntryTypes, HistoryTypes,
       Request, Participant, Wait

LEMMA ConstantFacts ==
  /\ 1 \in Rooms /\ MaxAttempts \in Nat /\ MaxAttempts > 0
  /\ Nobody \notin Labels /\ Idents \cap Handles = {}
BY RosterAssumption DEF Rooms, Labels

LEMMA DoneTypes ==
  ASSUME NEW x \in Request, NEW how \in Answers \ {"none"},
         how \in {"created", "resumed"} => x.handle \in Handles /\ x.label \in Labels
  PROVE  Done(x, how) \in Request /\ PlacedAt(Done(x, how))
<1> DEFINE y == Done(x, how)
<1>1. y \in Request /\ y.pc = "done" /\ y.how = how
  <2>1. CASE how \in {"error", "dropped"}
    <3>1. y = [Fresh EXCEPT !.pc = "done", !.how = how]
      BY <2>1 DEF Done
    <3>2. "done" \in Positions /\ how \in Answers
      BY DEF Positions
    <3>3. Fresh \in Request
      BY RosterAssumption, ConstantFacts DEF Fresh, Request, Answers, Positions
    <3>4. QED BY <3>1, <3>2, <3>3 DEF Request
  <2>2. CASE how \notin {"error", "dropped"}
    <3>1. y = [x EXCEPT !.pc = "done", !.how = how, !.start = 0, !.tries = 0]
      BY <2>2 DEF Done
    <3>2. "done" \in Positions /\ how \in Answers /\ 0 \in 0 .. MaxHead /\ 0 \in 0 .. MaxAttempts
      BY RosterAssumption DEF Positions
    <3>3. QED BY <3>1, <3>2 DEF Request
  <2>3. QED BY <2>1, <2>2
<1>2. how \in {"created", "resumed"} => y.handle = x.handle /\ y.label = x.label
  BY DEF Done, Request
<1>3. QED BY <1>1, <1>2 DEF PlacedAt, Joining

LEMMA FreshTypes == Fresh \in Request /\ PlacedAt(Fresh)
BY RosterAssumption, ConstantFacts DEF Fresh, Request, PlacedAt, Answers, Positions, Joining

LEMMA AwayTypes == Away \in Wait
BY RosterAssumption DEF Away, Wait

LEMMA TypesInit == Init => TypeOK /\ Placed /\ WaitsPlaced
<1> SUFFICES ASSUME Init PROVE TypeOK /\ Placed /\ WaitsPlaced
  OBVIOUS
<1>1. RoomTypes /\ HistoryTypes
  BY RosterAssumption, ConstantFacts DEF Init, RoomTypes, HistoryTypes
<1>2. RowTypes /\ EntryTypes
  BY DEF Init, RowTypes, EntryTypes, Rows
<1>3. ReqTypes /\ Placed
  BY FreshTypes DEF Init, ReqTypes, Placed
<1>4. WaitTypes
  BY AwayTypes DEF Init, WaitTypes
<1>5. WaitsPlaced
  BY DEF Init, WaitsPlaced, Away
<1>6. QED BY <1>1, <1>2, <1>3, <1>4, <1>5, TypeParts

LEMMA ReqSet ==
  ASSUME ReqTypes, Placed, NEW q \in Requests, NEW x \in Request, PlacedAt(x), SetReq(q, x)
  PROVE  ReqTypes' /\ Placed'
BY DEF ReqTypes, Placed, SetReq

LEMMA AnsweredTypes ==
  ASSUME ReqTypes, Placed
  PROVE  Answered \subseteq Handles
BY DEF Answered, Placed, PlacedAt

LEMMA RowFacts ==
  ASSUME RowTypes, NEW r, NEW l, NEW h \in ByInstance(r, l)
  PROVE  /\ h \in Rows /\ h \in Handles
         /\ row[h].room = r /\ row[h].instance = l /\ row[h].cursor \in 0 .. MaxHead
BY DEF ByInstance, InRoom, RowTypes, Participant

\* A join that is resumed is answered with a handle and a cursor.
LEMMA ResumedTypes ==
  ASSUME ReqTypes, Placed, RowTypes, NEW q \in Requests, req[q].pc \in Joining,
         NEW h \in Rows, NEW n \in 0 .. MaxHead,
         SetReq(q, Done([req[q] EXCEPT !.handle = h, !.upto = n], "resumed"))
  PROVE  ReqTypes' /\ Placed'
<1> DEFINE x == [req[q] EXCEPT !.handle = h, !.upto = n]
<1>1. h \in Handles /\ req[q] \in Request /\ req[q].label \in Labels
  BY DEF RowTypes, ReqTypes, Placed, PlacedAt
<1>2. x \in Request /\ x.handle \in Handles /\ x.label \in Labels
  BY <1>1 DEF Request
<1>3. Done(x, "resumed") \in Request /\ PlacedAt(Done(x, "resumed"))
  BY <1>2, DoneTypes DEF Answers
<1>4. QED BY <1>3, ReqSet

\* A handler goes on at a position that fits its locals.
LEMMA GoTypes ==
  ASSUME ReqTypes, Placed, NEW q \in Requests, NEW l \in Positions \ {"done"},
         req[q].pc # "done",
         l \in Joining => req[q].label \in Labels,
         l \in {"idle", "open", "find", "handle", "list", "refetch"} => req[q].tries < MaxAttempts,
         l \in {"cursor", "insert", "refetch"} => req[q].handle \in Handles,
         SetReq(q, [req[q] EXCEPT !.pc = l])
  PROVE  ReqTypes' /\ Placed'
<1> DEFINE x == [req[q] EXCEPT !.pc = l]
<1>1. req[q] \in Request /\ PlacedAt(req[q])
  BY DEF ReqTypes, Placed
<1>2. x \in Request
  BY <1>1 DEF Request
<1>3. /\ x.pc = l /\ x.how = req[q].how /\ x.label = req[q].label
      /\ x.tries = req[q].tries /\ x.handle = req[q].handle
  BY <1>1 DEF Request
<1>4. PlacedAt(x)
  BY <1>1, <1>3 DEF PlacedAt
<1>5. QED BY <1>2, <1>4, ReqSet

LEMMA OpenTypes ==
  ASSUME TypeOK, Placed, NEW q \in Requests, OpenArrive(q) \/ OpenTry(q)
  PROVE  ReqTypes' /\ Placed' /\ RoomTypes'
<1>0. ReqTypes /\ RoomTypes /\ req[q] \in Request /\ PlacedAt(req[q])
  BY TypeParts DEF ReqTypes, Placed
<1>1. CASE OpenArrive(q)
  <2>1. req[q].pc = "idle" /\ SetReq(q, [req[q] EXCEPT !.pc = "open"])
    BY <1>1 DEF OpenArrive
  <2>2. req[q].tries < MaxAttempts
    BY <1>0, <2>1 DEF PlacedAt
  <2>3. ReqTypes' /\ Placed'
    BY <1>0, <2>1, <2>2, GoTypes DEF Positions, Joining
  <2>4. QED BY <1>0, <1>1, <2>3 DEF OpenArrive, RoomTypes
<1>2. CASE OpenTry(q)
  <2>1. RoomTypes'
    BY <1>0, <1>2 DEF OpenTry, RoomTypes, Request
  <2>2. ASSUME NEW how \in {"opened", "error"}, SetReq(q, Done(req[q], how))
        PROVE  ReqTypes' /\ Placed'
    BY <1>0, <2>2, DoneTypes, ReqSet DEF Answers
  <2>3. ASSUME req[q].room < MaxAttempts, SetReq(q, [req[q] EXCEPT !.room = @ + 1])
        PROVE  ReqTypes' /\ Placed'
    <3> DEFINE x == [req[q] EXCEPT !.room = @ + 1]
    <3>1. req[q].room \in Rooms /\ req[q].room + 1 \in Rooms
      BY <1>0, <2>3, ConstantFacts DEF Request, Rooms
    <3>2. x \in Request
      BY <1>0, <3>1 DEF Request
    <3>3. PlacedAt(x)
      BY <1>0 DEF Request, PlacedAt
    <3>4. QED BY <1>0, <2>3, <3>2, <3>3, ReqSet
  <2>4. QED BY <1>2, <2>1, <2>2, <2>3 DEF OpenTry
<1>3. QED BY <1>1, <1>2

LEMMA JoinArriveTypes ==
  ASSUME TypeOK, Placed, NEW q \in Requests, NEW r \in Rooms, NEW l \in Labels,
         JoinArrive(q, r, l)
  PROVE  ReqTypes' /\ Placed'
<1> DEFINE x == [req[q] EXCEPT !.pc = "find", !.room = r, !.label = l, !.start = head[r]]
<1>1. ReqTypes /\ RoomTypes /\ req[q] \in Request /\ PlacedAt(req[q])
  BY TypeParts DEF ReqTypes, Placed
<1>2. req[q].pc = "idle" /\ SetReq(q, x)
  BY DEF JoinArrive
<1>3. x \in Request
  BY <1>1 DEF Request, RoomTypes, Positions
<1>4. /\ x.pc = "find" /\ x.how = req[q].how /\ x.label = l /\ x.tries = req[q].tries
  BY <1>1 DEF Request
<1>5. PlacedAt(x)
  BY <1>1, <1>2, <1>4 DEF PlacedAt, Joining
<1>6. QED BY <1>1, <1>2, <1>3, <1>5, ReqSet

LEMMA FindTypes ==
  ASSUME TypeOK, Placed, NEW q \in Requests, FindInstance(q) \/ FindHandle(q)
  PROVE  ReqTypes' /\ Placed'
<1>1. ReqTypes /\ RowTypes /\ req[q] \in Request /\ PlacedAt(req[q])
  BY TypeParts DEF ReqTypes, Placed
<1>2. ASSUME NEW l \in {"handle", "list"}, SetReq(q, [req[q] EXCEPT !.pc = l]),
             req[q].pc \in {"find", "handle"}
      PROVE  ReqTypes' /\ Placed'
  <2>1. req[q].label \in Labels /\ req[q].tries < MaxAttempts
    BY <1>1, <1>2 DEF PlacedAt, Joining
  <2>2. QED BY <1>1, <1>2, <2>1, GoTypes DEF Positions
<1>3. ASSUME NEW h \in Rows, Resumed(q, h), req[q].pc \in {"find", "handle"}
      PROVE  ReqTypes' /\ Placed'
  <2>1. row[h].cursor \in 0 .. MaxHead /\ req[q].pc \in Joining
    BY <1>1, <1>3 DEF RowTypes, Participant, Joining
  <2>2. QED BY <1>1, <1>3, <2>1, ResumedTypes DEF Resumed
<1>4. CASE FindInstance(q)
  <2>1. \A h \in ByInstance(req[q].room, req[q].label) : h \in Rows
    BY DEF ByInstance, InRoom
  <2>2. QED BY <1>2, <1>3, <1>4, <2>1 DEF FindInstance
<1>5. CASE FindHandle(q)
  <2>1. req[q].label \in InRoom(req[q].room) => req[q].label \in Rows
    BY DEF InRoom
  <2>2. QED BY <1>2, <1>3, <1>5, <2>1 DEF FindHandle
<1>6. QED BY <1>4, <1>5

LEMMA ListTypes ==
  ASSUME TypeOK, Placed, NEW q \in Requests, List(q)
  PROVE  ReqTypes' /\ Placed'
<1>1. ReqTypes /\ RowTypes /\ req[q] \in Request /\ PlacedAt(req[q])
  BY TypeParts DEF ReqTypes, Placed
<1>2. req[q].label \in Labels /\ req[q].tries < MaxAttempts /\ req[q].pc = "list"
  BY <1>1 DEF List, PlacedAt, Joining
<1>3. ASSUME NEW h \in ByInstance(req[q].room, req[q].label),
             SetReq(q, [req[q] EXCEPT !.pc = "cursor", !.handle = h])
      PROVE  ReqTypes' /\ Placed'
  <2> DEFINE x == [req[q] EXCEPT !.pc = "cursor", !.handle = h]
  <2>1. h \in Handles
    BY <1>1, RowFacts
  <2>2. x \in Request
    BY <1>1, <2>1 DEF Request, Positions
  <2>3. x.pc = "cursor" /\ x.how = req[q].how /\ x.label = req[q].label /\ x.handle = h
    BY <1>1 DEF Request
  <2>4. PlacedAt(x)
    BY <1>1, <1>2, <2>1, <2>3 DEF PlacedAt, Joining
  <2>5. QED BY <1>1, <1>3, <2>2, <2>4, ReqSet
<1>4. ASSUME NEW h \in Handles,
             SetReq(q, [req[q] EXCEPT !.pc = "insert", !.handle = h, !.tries = @ + 1])
      PROVE  ReqTypes' /\ Placed'
  <2> DEFINE x == [req[q] EXCEPT !.pc = "insert", !.handle = h, !.tries = @ + 1]
  <2>1. req[q].tries + 1 \in 0 .. MaxAttempts
    BY <1>1, <1>2, ConstantFacts DEF Request
  <2>2. x \in Request
    BY <1>1, <2>1 DEF Request, Positions
  <2>3. x.pc = "insert" /\ x.how = req[q].how /\ x.label = req[q].label /\ x.handle = h
    BY <1>1 DEF Request
  <2>4. PlacedAt(x)
    BY <1>1, <1>2, <2>3 DEF PlacedAt, Joining
  <2>5. QED BY <1>1, <1>4, <2>2, <2>4, ReqSet
<1>5. QED BY <1>3, <1>4 DEF List

LEMMA CursorTypes ==
  ASSUME TypeOK, Placed, NEW q \in Requests, Cursor(q)
  PROVE  ReqTypes' /\ Placed'
<1> DEFINE found == ByInstance(req[q].room, req[q].label)
           upto  == IF found = {} THEN req[q].start ELSE row[CHOOSE h \in found : TRUE].cursor
           x     == [req[q] EXCEPT !.upto = upto]
<1>1. ReqTypes /\ RowTypes /\ req[q] \in Request /\ PlacedAt(req[q])
  BY TypeParts DEF ReqTypes, Placed
<1>2. req[q].label \in Labels /\ req[q].handle \in Handles
  BY <1>1 DEF Cursor, PlacedAt, Joining
<1>3. upto \in 0 .. MaxHead
  <2>1. CASE found = {}
    BY <1>1, <2>1 DEF Request
  <2>2. CASE found # {}
    <3>1. (CHOOSE h \in found : TRUE) \in found
      BY <2>2
    <3>2. \A h \in found : row[h].cursor \in 0 .. MaxHead
      BY <1>1, RowFacts
    <3>3. QED BY <2>2, <3>1, <3>2
  <2>3. QED BY <2>1, <2>2
<1>4. SetReq(q, Done(x, "resumed"))
  BY DEF Cursor
<1> HIDE DEF upto
<1>5. x \in Request /\ x.handle \in Handles /\ x.label \in Labels
  BY <1>1, <1>2, <1>3 DEF Request
<1> HIDE DEF x
<1>6. Done(x, "resumed") \in Request /\ PlacedAt(Done(x, "resumed"))
  BY <1>5, DoneTypes DEF Answers
<1>7. QED BY <1>1, <1>4, <1>6, ReqSet

LEMMA InsertTypes ==
  ASSUME TypeOK, Placed, NEW q \in Requests, Insert(q)
  PROVE  ReqTypes' /\ Placed' /\ RowTypes'
<1>1. ReqTypes /\ RowTypes /\ req[q] \in Request /\ PlacedAt(req[q])
  BY TypeParts DEF ReqTypes, Placed
<1>2. req[q].label \in Labels /\ req[q].handle \in Handles
  BY <1>1 DEF Insert, PlacedAt, Joining
<1>3. ASSUME row' = Joined(q),
             SetReq(q, Done([req[q] EXCEPT !.upto = req[q].start], "created"))
      PROVE  ReqTypes' /\ Placed' /\ RowTypes'
  <2> DEFINE x == [req[q] EXCEPT !.upto = req[q].start]
  <2>1. x \in Request /\ x.handle \in Handles /\ x.label \in Labels
    BY <1>1, <1>2 DEF Request
  <2>2. Done(x, "created") \in Request /\ PlacedAt(Done(x, "created"))
    BY <2>1, DoneTypes DEF Answers
  <2>3. ReqTypes' /\ Placed'
    BY <1>1, <1>3, <2>2, ReqSet
  <2>4. [room |-> req[q].room, instance |-> req[q].label, cursor |-> req[q].start, age |-> 0]
          \in Participant
    BY <1>1, <1>2, RosterAssumption DEF Request, Participant
  <2>5. Rows' = Rows \cup {req[q].handle}
    BY <1>3 DEF Joined, Rows
  <2>6. RowTypes'
    BY <1>1, <1>2, <1>3, <2>4, <2>5 DEF RowTypes, Joined
  <2>7. QED BY <2>3, <2>6
<1>4. ASSUME req[q].tries < MaxAttempts, SetReq(q, [req[q] EXCEPT !.pc = "refetch"]),
             req[q].pc = "insert"
      PROVE  ReqTypes' /\ Placed'
  BY <1>1, <1>2, <1>4, GoTypes DEF Positions
<1>5. ASSUME SetReq(q, Done(req[q], "error")) PROVE ReqTypes' /\ Placed'
  BY <1>1, <1>5, DoneTypes, ReqSet DEF Answers
<1>6. UNCHANGED row => RowTypes'
  BY <1>1 DEF RowTypes, Rows
<1>7. QED BY <1>3, <1>4, <1>5, <1>6 DEF Insert

LEMMA RefetchTypes ==
  ASSUME TypeOK, Placed, NEW q \in Requests, Refetch(q)
  PROVE  ReqTypes' /\ Placed'
<1>1. ReqTypes /\ RowTypes /\ req[q] \in Request /\ PlacedAt(req[q])
  BY TypeParts DEF ReqTypes, Placed
<1>2. req[q].pc = "refetch" /\ req[q].label \in Labels /\ req[q].tries < MaxAttempts
  BY <1>1 DEF Refetch, PlacedAt, Joining
<1>3. ASSUME NEW h \in ByInstance(req[q].room, req[q].label),
             SetReq(q, Done([req[q] EXCEPT !.handle = h, !.upto = row[h].cursor], "resumed"))
      PROVE  ReqTypes' /\ Placed'
  <2>1. h \in Rows /\ row[h].cursor \in 0 .. MaxHead
    BY <1>1, RowFacts
  <2>2. QED BY <1>1, <1>2, <1>3, <2>1, ResumedTypes DEF Joining
<1>4. ASSUME SetReq(q, [req[q] EXCEPT !.pc = "list"]) PROVE ReqTypes' /\ Placed'
  BY <1>1, <1>2, <1>4, GoTypes DEF Positions
<1>5. QED BY <1>3, <1>4 DEF Refetch

-----------------------------------------------------------------------------
(* Presence.                                                               *)

EntryShape ==
  /\ DOMAIN entry \subseteq Handles
  /\ entry \in [DOMAIN entry -> [active : Nat, released : Nat]]

LEMMA SomeWaits ==
  ASSUME NEW S \in SUBSET Waits
  PROVE  /\ IsFiniteSet(S) /\ Cardinality(S) \in 0 .. Cardinality(Waits)
         /\ Cardinality(S) > 0 <=> S # {}
<1>1. IsFiniteSet(S) /\ Cardinality(S) <= Cardinality(Waits)
  BY RosterAssumption, FS_Subset
<1>2. Cardinality(S) \in Nat /\ Cardinality(Waits) \in Nat
  BY <1>1, RosterAssumption, FS_CardinalityType
<1>3. Cardinality(S) = 0 <=> S = {}
  BY <1>1, FS_EmptySet
<1>4. QED BY <1>1, <1>2, <1>3

LEMMA GuardCount ==
  ASSUME NEW h
  PROVE  /\ Guards(h) \in SUBSET Waits /\ IsFiniteSet(Guards(h))
         /\ Cardinality(Guards(h)) \in 0 .. Cardinality(Waits)
         /\ Cardinality(Guards(h)) > 0 <=> Guards(h) # {}
<1>1. Guards(h) \in SUBSET Waits BY DEF Guards
<1>2. QED BY <1>1, SomeWaits

LEMMA EntryFromCounted ==
  ASSUME EntryShape, Counted, HistoryTypes
  PROVE  EntryTypes
<1> SUFFICES ASSUME NEW h \in DOMAIN entry
             PROVE  entry[h] \in [active : 0 .. Cardinality(Waits), released : 0 .. Grace + 1]
  BY DEF EntryShape, EntryTypes
<1>1. h \in Handles /\ entry[h] \in [active : Nat, released : Nat]
  BY DEF EntryShape
<1>2. entry[h].active \in 0 .. Cardinality(Waits)
  BY <1>1, GuardCount DEF Counted
<1>3. entry[h].released \in 0 .. Grace + 1
  BY <1>1 DEF Counted, HistoryTypes
<1>4. QED BY <1>1, <1>2, <1>3

\* Whoever is not live has no open guard and nothing to forget but a released
\* entry, so retain_live loses no count.
LEMMA DeadIsEmpty ==
  ASSUME EntryShape, HistoryTypes, Counted, NEW h \in Handles
  PROVE  /\ h \notin Live => Guards(h) = {} /\ gone[h] = Grace + 1
         /\ h \in Live => h \in DOMAIN entry
<1>1. CASE h \in DOMAIN entry
  <2>1. /\ entry[h].active = Cardinality(Guards(h)) /\ entry[h].active \in Nat
        /\ entry[h].released = gone[h] /\ gone[h] \in 0 .. Grace + 1
    BY <1>1 DEF Counted, EntryShape, HistoryTypes
  <2>2. h \notin Live => ~(entry[h].active > 0) /\ ~(entry[h].released <= Grace)
    BY <1>1 DEF Live, IsLive
  <2>3. h \notin Live => Guards(h) = {}
    BY <2>1, <2>2, GuardCount
  <2>4. h \notin Live => gone[h] = Grace + 1
    BY <2>1, <2>2, RosterAssumption
  <2>5. QED BY <1>1, <2>3, <2>4
<1>2. CASE h \notin DOMAIN entry
  BY <1>2 DEF Counted, Live
<1>3. QED BY <1>1, <1>2

\* poll_live is true of exactly the handles with an open or just ended poll.
LEMMA LiveIffCounted ==
  ASSUME EntryShape, HistoryTypes, Counted
  PROVE  PollLiveIsTrue
<1> SUFFICES ASSUME NEW h \in Handles
             PROVE  IsLive(h) <=> (Guards(h) # {} \/ gone[h] <= Grace)
  BY DEF PollLiveIsTrue
<1>1. CASE h \in DOMAIN entry
  BY <1>1, GuardCount DEF Counted, IsLive, EntryShape
<1>2. CASE h \notin DOMAIN entry
  BY <1>2, RosterAssumption DEF Counted, IsLive
<1>3. QED BY <1>1, <1>2

PresenceOK == EntryShape /\ HistoryTypes /\ Counted

LEMMA WaitEnterPresence ==
  ASSUME WaitTypes, WaitsPlaced, PresenceOK, NEW w \in Waits, WaitEnter(w)
  PROVE  PresenceOK'
<1> USE DEF PresenceOK
<1>0. PICK h \in Handles : h = wait[w].handle
  BY DEF WaitEnter, WaitsPlaced
<1>1. wait[w].pc = "touch" /\ h \in Handles /\ wait[w] \in Wait
  BY DEF WaitEnter, WaitTypes
<1>2. entry' = Entered(h) /\ gone' = gone /\ lost' = lost
  BY <1>0 DEF WaitEnter
<1>3. wait' = [wait EXCEPT ![w] = [wait[w] EXCEPT !.pc = "parked"]]
  BY DEF WaitEnter
<1>4. /\ \A v \in Waits \ {w} : wait'[v] = wait[v]
      /\ wait'[w].pc = "parked" /\ wait'[w].handle = h
  BY <1>0, <1>1, <1>3 DEF WaitTypes, Wait
<1>5. \A k : Guards(k)' = IF k = h THEN Guards(k) \cup {w} ELSE Guards(k)
  BY <1>0, <1>1, <1>4 DEF Guards
<1>6. w \notin Guards(h)
  BY <1>0, <1>1 DEF Guards
<1>7. /\ DOMAIN entry' = Live \cup {h}
      /\ \A k \in Live : k # h => entry'[k] = entry[k]
      /\ h \in Live => entry'[h] = [entry[h] EXCEPT !.active = @ + 1]
      /\ h \notin Live => entry'[h] = [active |-> 1, released |-> Grace + 1]
      /\ entry' = [k \in Live \cup {h} |-> entry'[k]]
  BY <1>2 DEF Entered, RetainLive, Restrict
<1>8. Live \subseteq DOMAIN entry /\ DOMAIN entry \subseteq Handles
  BY DEF Live, EntryShape
<1>9. h \in Live => /\ entry[h] \in [active : Nat, released : Nat]
                    /\ entry'[h].active = entry[h].active + 1
                    /\ entry'[h].released = entry[h].released
                    /\ entry'[h] \in [active : Nat, released : Nat]
  BY <1>7, <1>8 DEF EntryShape
<1>10. EntryShape'
  <2>1. \A k \in Live \cup {h} : entry'[k] \in [active : Nat, released : Nat]
    BY <1>7, <1>8, <1>9, RosterAssumption DEF EntryShape
  <2>2. QED BY <1>1, <1>7, <1>8, <2>1 DEF EntryShape
<1>11. HistoryTypes'
  BY <1>2 DEF HistoryTypes
<1>12. Counted'
  <2> SUFFICES ASSUME NEW k \in Handles
               PROVE  /\ k \in DOMAIN entry' => /\ entry'[k].active = Cardinality(Guards(k)')
                                                /\ entry'[k].released = gone'[k]
                      /\ k \notin DOMAIN entry' => Guards(k)' = {} /\ gone'[k] = Grace + 1
    BY DEF Counted
  <2>1. CASE k # h /\ k \in Live
    BY <1>2, <1>5, <1>7, <1>8, <2>1 DEF Counted
  <2>2. CASE k # h /\ k \notin Live
    BY <1>2, <1>5, <1>7, <2>2, DeadIsEmpty
  <2>3. CASE k = h
    <3>1. Cardinality(Guards(h)') = Cardinality(Guards(h)) + 1
      BY <1>5, <1>6, GuardCount, FS_AddElement
    <3>2. CASE h \in Live
      BY <1>2, <1>7, <1>8, <1>9, <2>3, <3>1, <3>2 DEF Counted
    <3>3. CASE h \notin Live
      <4>1. Guards(h) = {} /\ gone[h] = Grace + 1
        BY <1>1, <3>3, DeadIsEmpty
      <4>2. Cardinality(Guards(h)') = 1
        BY <3>1, <4>1, FS_EmptySet
      <4>3. QED BY <1>2, <1>7, <2>3, <3>3, <4>1, <4>2
    <3>4. QED BY <3>2, <3>3
  <2>4. QED BY <2>1, <2>2, <2>3
<1>13. QED BY <1>10, <1>11, <1>12

LEMMA WaitEndPresence ==
  ASSUME WaitTypes, WaitsPlaced, PresenceOK, NEW w \in Waits, WaitEnd(w)
  PROVE  PresenceOK'
<1> USE DEF PresenceOK
<1>0. PICK h \in Handles : h = wait[w].handle
  BY DEF WaitEnd, WaitsPlaced
<1>1. wait[w].pc = "parked" /\ h \in Handles /\ wait[w] \in Wait
  BY DEF WaitEnd, WaitTypes
<1>2. entry' = Released(h) /\ gone' = [gone EXCEPT ![h] = 0] /\ lost' = lost
      /\ wait' = [wait EXCEPT ![w] = Away]
  BY <1>0 DEF WaitEnd
<1>3. (\A v \in Waits \ {w} : wait'[v] = wait[v]) /\ wait'[w].pc = "away"
  BY <1>2 DEF WaitTypes, Away
<1>4. \A k : Guards(k)' = IF k = h THEN Guards(k) \ {w} ELSE Guards(k)
  BY <1>0, <1>1, <1>3 DEF Guards
<1>5. w \in Guards(h)
  BY <1>0, <1>1 DEF Guards
<1>6. h \in DOMAIN entry /\ entry[h].active = Cardinality(Guards(h))
  BY <1>1, <1>5 DEF Counted
<1>7. Cardinality(Guards(h)) \in Nat /\ Cardinality(Guards(h)) > 0
  BY <1>5, GuardCount
<1>8. entry' = [entry EXCEPT ![h] = [active |-> entry[h].active - 1, released |-> 0]]
  BY <1>2, <1>6, <1>7 DEF Released
<1>9. EntryShape' /\ HistoryTypes'
  BY <1>1, <1>2, <1>6, <1>7, <1>8, RosterAssumption DEF EntryShape, HistoryTypes
<1>10. Cardinality(Guards(h)') = Cardinality(Guards(h)) - 1
  BY <1>4, <1>5, GuardCount, FS_RemoveElement
<1>11. \A k \in Handles \ {h} : (k \in DOMAIN entry => entry'[k] = entry[k]) /\ gone'[k] = gone[k]
  BY <1>2, <1>8 DEF EntryShape, HistoryTypes
<1>12. DOMAIN entry' = DOMAIN entry /\ gone'[h] = 0
       /\ entry'[h].active = entry[h].active - 1 /\ entry'[h].released = 0
  BY <1>1, <1>2, <1>6, <1>8 DEF EntryShape, HistoryTypes
<1>13. Counted'
  <2> SUFFICES ASSUME NEW k \in Handles
               PROVE  /\ k \in DOMAIN entry' => /\ entry'[k].active = Cardinality(Guards(k)')
                                                /\ entry'[k].released = gone'[k]
                      /\ k \notin DOMAIN entry' => Guards(k)' = {} /\ gone'[k] = Grace + 1
    BY DEF Counted
  <2>1. CASE k # h
    BY <1>4, <1>11, <1>12, <2>1 DEF Counted
  <2>2. CASE k = h
    BY <1>6, <1>10, <1>12, <2>2
  <2>3. QED BY <2>1, <2>2
<1>14. QED BY <1>9, <1>13

LEMMA ViewPresence ==
  ASSUME PresenceOK, NEW r, View(r)
  PROVE  PresenceOK'
<1> USE DEF PresenceOK
<1> DEFINE dead == InRoom(r) \ Live
<1>1. /\ DOMAIN entry' = DOMAIN entry \ dead
      /\ \A k \in DOMAIN entry \ dead : entry'[k] = entry[k]
      /\ entry' = [k \in DOMAIN entry \ dead |-> entry[k]]
  BY DEF View, Restrict
<1>2. EntryShape' /\ HistoryTypes'
  BY <1>1 DEF EntryShape, HistoryTypes, View
<1>3. gone' = gone /\ \A k : Guards(k)' = Guards(k)
  BY DEF View, Guards
<1>4. Counted'
  <2> SUFFICES ASSUME NEW k \in Handles
               PROVE  /\ k \in DOMAIN entry' => /\ entry'[k].active = Cardinality(Guards(k)')
                                                /\ entry'[k].released = gone'[k]
                      /\ k \notin DOMAIN entry' => Guards(k)' = {} /\ gone'[k] = Grace + 1
    BY DEF Counted
  <2>1. CASE k \in dead
    BY <1>1, <1>3, <2>1, DeadIsEmpty
  <2>2. CASE k \notin dead
    BY <1>1, <1>3, <2>2 DEF Counted
  <2>3. QED BY <2>1, <2>2
<1>5. QED BY <1>2, <1>4

LEMMA TickPresence ==
  ASSUME PresenceOK, WaitTypes, Tick
  PROVE  PresenceOK'
<1> USE DEF PresenceOK
<1>1. /\ DOMAIN entry' = DOMAIN entry
      /\ \A k \in DOMAIN entry : entry'[k] = [entry[k] EXCEPT !.released = Up(@, Grace + 1)]
      /\ entry' = [k \in DOMAIN entry |-> entry'[k]]
  BY DEF Tick
<1>2. \A k \in DOMAIN entry : /\ entry'[k].active = entry[k].active
                              /\ entry'[k].released = Up(entry[k].released, Grace + 1)
                              /\ entry'[k] \in [active : Nat, released : Nat]
  BY <1>1, RosterAssumption DEF EntryShape, Up
<1>3. EntryShape'
  BY <1>1, <1>2 DEF EntryShape
<1>4. /\ \A k \in Handles : gone'[k] = Up(gone[k], Grace + 1)
      /\ HistoryTypes'
  BY RosterAssumption DEF Tick, HistoryTypes, Up
<1>5. \A v \in Waits : /\ wait'[v].pc = wait[v].pc /\ wait'[v].handle = wait[v].handle
  BY DEF Tick, WaitTypes, Wait
<1>6. \A k : Guards(k)' = Guards(k)
  BY <1>5 DEF Guards
<1>7. Counted'
  BY <1>1, <1>2, <1>4, <1>6, RosterAssumption DEF Counted, Up
<1>8. QED BY <1>3, <1>4, <1>7

\* A step that opens and ends no long poll and leaves the map alone.
LEMMA IdlePresence ==
  ASSUME PresenceOK, UNCHANGED <<entry, gone>>, lost' \subseteq Handles,
         \A v \in Waits : \/ wait'[v] = wait[v]
                          \/ wait[v].pc # "parked" /\ wait'[v].pc # "parked"
  PROVE  PresenceOK'
<1>1. \A k : Guards(k)' = Guards(k)
  BY DEF Guards
<1>2. QED BY <1>1 DEF PresenceOK, EntryShape, HistoryTypes, Counted

LEMMA RestartPresence ==
  ASSUME PresenceOK, Restart
  PROVE  PresenceOK'
<1>1. /\ DOMAIN entry' = {} /\ entry' = [k \in DOMAIN entry' |-> entry'[k]]
      /\ gone' = [h \in Handles |-> Grace + 1] /\ lost' = lost
  BY DEF Restart
<1>2. \A k : Guards(k)' = {}
  BY DEF Restart, Guards, Away
<1>3. QED BY <1>1, <1>2, RosterAssumption DEF PresenceOK, EntryShape, HistoryTypes, Counted

-----------------------------------------------------------------------------
(* Long polls and rows.                                                    *)

LEMMA WaitStepTypes ==
  ASSUME TypeOK, Placed, WaitsPlaced, NEW w \in Waits,
         \/ WaitEnter(w) \/ WaitDrop(w) \/ WaitEnd(w)
         \/ \E r \in Rooms, l \in Labels : WaitArrive(w, r, l)
  PROVE  WaitTypes' /\ WaitsPlaced' /\ RowTypes'
<1>0. WaitTypes /\ RowTypes /\ RoomTypes /\ wait[w] \in Wait
  BY TypeParts DEF WaitTypes
<1>1. ASSUME NEW x \in Wait, wait' = [wait EXCEPT ![w] = x],
             x.pc # "away" => x.handle \in Handles, x.pc = "touch" => x.left = Cap
      PROVE  WaitTypes' /\ WaitsPlaced'
  BY <1>0, <1>1 DEF WaitTypes, WaitsPlaced
<1>2. CASE WaitEnter(w)
  <2> DEFINE h == wait[w].handle
             x == [wait[w] EXCEPT !.pc = "parked"]
  <2>1. h \in Handles /\ wait' = [wait EXCEPT ![w] = x]
    BY <1>2 DEF WaitEnter, WaitsPlaced
  <2>2. x \in Wait /\ x.pc = "parked" /\ x.handle = h
    BY <1>0 DEF Wait
  <2>3. row' = IF h \in Rows THEN [row EXCEPT ![h].age = 0] ELSE row
    BY <1>2 DEF WaitEnter
  <2>4. RowTypes'
    BY <1>0, <2>3, RosterAssumption DEF RowTypes, Rows, Participant
  <2>5. QED BY <1>1, <2>1, <2>2, <2>4
<1>3. CASE WaitDrop(w)
  BY <1>0, <1>1, <1>3, AwayTypes DEF WaitDrop, Away, RowTypes, Rows
<1>4. CASE WaitEnd(w)
  <2> DEFINE h == wait[w].handle
  <2>1. WaitTypes' /\ WaitsPlaced'
    BY <1>1, <1>4, AwayTypes DEF WaitEnd, Away
  <2>2. CASE row' = row
    BY <1>0, <2>1, <2>2 DEF RowTypes, Rows
  <2>3. CASE h \in Rows /\ row' = [row EXCEPT ![h].cursor = head[row[h].room]]
    <3>1. head[row[h].room] \in 0 .. MaxHead
      BY <1>0, <2>3 DEF RowTypes, Participant, RoomTypes
    <3>2. RowTypes'
      BY <1>0, <2>3, <3>1 DEF RowTypes, Rows, Participant
    <3>3. QED BY <2>1, <3>2
  <2>4. QED BY <1>4, <2>2, <2>3 DEF WaitEnd
<1>5. ASSUME NEW r \in Rooms, NEW l \in Labels, WaitArrive(w, r, l)
      PROVE  WaitTypes' /\ WaitsPlaced' /\ RowTypes'
  <2>1. PICK h \in Rows : wait' = [wait EXCEPT ![w] = [pc |-> "touch", handle |-> h, left |-> Cap]]
    BY <1>5 DEF WaitArrive, ByInstance, InRoom
  <2>2. h \in Handles
    BY <1>0 DEF RowTypes
  <2>3. [pc |-> "touch", handle |-> h, left |-> Cap] \in Wait
    BY <2>2, RosterAssumption DEF Wait
  <2>4. WaitTypes' /\ WaitsPlaced'
    BY <1>1, <2>1, <2>2, <2>3
  <2>5. QED BY <1>0, <1>5, <2>4 DEF WaitArrive, RowTypes, Rows
<1>6. QED BY <1>2, <1>3, <1>4, <1>5

LEMMA TickTypes ==
  ASSUME TypeOK, WaitsPlaced, Tick
  PROVE  WaitTypes' /\ WaitsPlaced' /\ RowTypes'
<1>0. WaitTypes /\ RowTypes
  BY TypeParts
<1>1. \A v \in Waits :
        wait'[v] = IF wait[v].pc = "parked" THEN [wait[v] EXCEPT !.left = @ - 1] ELSE wait[v]
  BY DEF Tick
<1>2. \A v \in Waits : wait[v] \in Wait /\ (wait[v].pc = "parked" => wait[v].left > 0)
  BY <1>0 DEF Tick, WaitTypes
<1>3. \A v \in Waits : /\ wait'[v] \in Wait
                       /\ wait'[v].pc = wait[v].pc /\ wait'[v].handle = wait[v].handle
                       /\ wait[v].pc = "touch" => wait'[v].left = wait[v].left
  <2> SUFFICES ASSUME NEW v \in Waits
               PROVE  /\ wait'[v] \in Wait
                      /\ wait'[v].pc = wait[v].pc /\ wait'[v].handle = wait[v].handle
                      /\ wait[v].pc = "touch" => wait'[v].left = wait[v].left
    OBVIOUS
  <2>1. CASE wait[v].pc = "parked"
    <3>1. wait[v].left - 1 \in 0 .. Cap
      BY <1>2, <2>1, RosterAssumption DEF Wait
    <3>2. wait'[v] = [wait[v] EXCEPT !.left = wait[v].left - 1] /\ wait[v] \in Wait
      BY <1>1, <1>2, <2>1
    <3>3. QED BY <2>1, <3>1, <3>2 DEF Wait
  <2>2. CASE wait[v].pc # "parked"
    <3>1. wait'[v] = wait[v] BY <1>1, <2>2
    <3>2. QED BY <1>2, <3>1
  <2>3. QED BY <2>1, <2>2
<1>4. WaitTypes' /\ WaitsPlaced'
  BY <1>3 DEF Tick, WaitTypes, WaitsPlaced
<1>5. RowTypes'
  BY <1>0, RosterAssumption DEF Tick, RowTypes, Rows, Participant, Up
<1>6. QED BY <1>4, <1>5

-----------------------------------------------------------------------------
(* The invariant behind the types and the presence map.                    *)

Inv == /\ RoomTypes /\ RowTypes /\ ReqTypes /\ WaitTypes /\ PresenceOK
       /\ Placed /\ WaitsPlaced

LEMMA InvTypes == Inv => TypeOK /\ PollLiveIsTrue
BY EntryFromCounted, LiveIffCounted, TypeParts DEF Inv, PresenceOK

LEMMA InvInit == Init => Inv
<1> SUFFICES ASSUME Init PROVE Inv
  OBVIOUS
<1>1. TypeOK /\ Placed /\ WaitsPlaced
  BY TypesInit
<1>2. EntryShape
  BY DEF Init, EntryShape
<1>3. \A h : Guards(h) = {}
  BY DEF Init, Guards, Away
<1>4. Counted
  BY <1>3 DEF Init, Counted
<1>5. QED BY <1>1, <1>2, <1>4, TypeParts DEF Inv, PresenceOK

\* The steps of a request's handler.
RequestStep(q) ==
  \/ OpenArrive(q) \/ Handler(q) \/ Drop(q)
  \/ \E r \in Rooms, l \in Labels : JoinArrive(q, r, l)

LEMMA RequestInv ==
  ASSUME Inv, NEW q \in Requests, RequestStep(q)
  PROVE  Inv'
<1>0. TypeOK /\ Placed
  BY InvTypes DEF Inv
<1>1. RoomTypes' /\ RowTypes' /\ ReqTypes' /\ Placed'
  <2>0. RoomTypes /\ RowTypes /\ ReqTypes
    BY DEF Inv
  <2>1. CASE OpenArrive(q) \/ OpenTry(q)
    <3>1. ReqTypes' /\ Placed' /\ RoomTypes'
      BY <1>0, <2>1, OpenTypes
    <3>2. QED BY <2>0, <2>1, <3>1 DEF OpenArrive, OpenTry, RowTypes, Rows
  <2>2. CASE FindInstance(q) \/ FindHandle(q) \/ List(q) \/ Cursor(q) \/ Refetch(q)
    <3>1. ReqTypes' /\ Placed'
      BY <1>0, <2>2, FindTypes, ListTypes, CursorTypes, RefetchTypes
    <3>2. UNCHANGED <<rooms, head, row>>
      BY <2>2 DEF FindInstance, FindHandle, List, Cursor, Refetch
    <3>3. QED BY <2>0, <3>1, <3>2 DEF RoomTypes, RowTypes, Rows
  <2>3. CASE Insert(q)
    <3>1. ReqTypes' /\ Placed' /\ RowTypes'
      BY <1>0, <2>3, InsertTypes
    <3>2. QED BY <2>0, <2>3, <3>1 DEF Insert, RoomTypes
  <2>4. CASE Drop(q)
    <3>1. req[q] \in Request BY <2>0 DEF ReqTypes
    <3>2. Done(req[q], "dropped") \in Request /\ PlacedAt(Done(req[q], "dropped"))
      BY <3>1, DoneTypes DEF Answers
    <3>3. ReqTypes' /\ Placed'
      BY <1>0, <2>0, <2>4, <3>2, ReqSet DEF Drop
    <3>4. QED BY <2>0, <2>4, <3>3 DEF Drop, RoomTypes, RowTypes, Rows
  <2>5. ASSUME NEW r \in Rooms, NEW l \in Labels, JoinArrive(q, r, l)
        PROVE  RoomTypes' /\ RowTypes' /\ ReqTypes' /\ Placed'
    <3>1. ReqTypes' /\ Placed'
      BY <1>0, <2>5, JoinArriveTypes
    <3>2. QED BY <2>0, <2>5, <3>1 DEF JoinArrive, RoomTypes, RowTypes, Rows
  <2>6. QED BY <2>1, <2>2, <2>3, <2>4, <2>5 DEF RequestStep, Handler
<1>2. UNCHANGED <<wait, entry, gone, lost>>
  BY DEF RequestStep, Handler, OpenArrive, OpenTry, JoinArrive, FindInstance, FindHandle, List,
         Cursor, Insert, Refetch, Drop
<1>3. PresenceOK'
  BY <1>2, IdlePresence DEF Inv, PresenceOK, HistoryTypes
<1>4. QED BY <1>1, <1>2, <1>3 DEF Inv, WaitTypes, WaitsPlaced

WaitStep(w) ==
  \/ WaitEnter(w) \/ WaitDrop(w) \/ WaitEnd(w)
  \/ \E r \in Rooms, l \in Labels : WaitArrive(w, r, l)

LEMMA WaitInv ==
  ASSUME Inv, NEW w \in Waits, WaitStep(w)
  PROVE  Inv'
<1>0. TypeOK /\ Placed /\ WaitsPlaced
  BY InvTypes DEF Inv
<1>1. WaitTypes' /\ WaitsPlaced' /\ RowTypes'
  BY <1>0, WaitStepTypes DEF WaitStep
<1>2. UNCHANGED <<rooms, head, req>>
  BY DEF WaitStep, WaitEnter, WaitDrop, WaitEnd, WaitArrive
<1>3. RoomTypes' /\ ReqTypes' /\ Placed'
  BY <1>2 DEF Inv, RoomTypes, ReqTypes, Placed
<1>4. ASSUME WaitDrop(w) \/ \E r \in Rooms, l \in Labels : WaitArrive(w, r, l)
      PROVE  PresenceOK'
  <2>1. UNCHANGED <<entry, gone, lost>> /\ wait[w].pc # "parked"
    BY <1>4 DEF WaitDrop, WaitArrive
  <2>2. \A v \in Waits : \/ wait'[v] = wait[v]
                         \/ wait[v].pc # "parked" /\ wait'[v].pc # "parked"
    BY <1>4, <2>1 DEF WaitDrop, WaitArrive, Away, Inv, WaitTypes
  <2>3. QED BY <2>1, <2>2, IdlePresence DEF Inv, PresenceOK, HistoryTypes
<1>5. PresenceOK'
  BY <1>4, WaitEnterPresence, WaitEndPresence DEF WaitStep, Inv
<1>6. QED BY <1>1, <1>3, <1>5 DEF Inv

LEMMA InvStep == Inv /\ [Next]_vars => Inv'
<1> SUFFICES ASSUME Inv, [Next]_vars PROVE Inv'
  OBVIOUS
<1>0. TypeOK /\ PresenceOK /\ WaitTypes
  BY InvTypes DEF Inv
<1>1. ASSUME NEW q \in Requests, RequestStep(q) PROVE Inv'
  BY <1>1, RequestInv
<1>2. ASSUME NEW w \in Waits, WaitStep(w) PROVE Inv'
  BY <1>2, WaitInv
<1>3. ASSUME NEW r \in Rooms, View(r) PROVE Inv'
  <2>1. PresenceOK' BY <1>0, <1>3, ViewPresence
  <2>2. QED BY <1>3, <2>1 DEF View, Inv, RoomTypes, RowTypes, Rows, ReqTypes, WaitTypes, Placed,
                             WaitsPlaced
<1>4. ASSUME NEW r \in Rooms, Post(r) PROVE Inv'
  <2>1. PresenceOK'
    BY <1>0, <1>4, IdlePresence DEF Post, PresenceOK, HistoryTypes
  <2>2. RoomTypes'
    BY <1>4, RosterAssumption DEF Post, Inv, RoomTypes
  <2>3. QED BY <1>4, <2>1, <2>2 DEF Post, Inv, RowTypes, Rows, ReqTypes, WaitTypes, Placed,
                                  WaitsPlaced
<1>5. ASSUME NEW r \in Rooms, Prune(r) PROVE Inv'
  <2>1. PICK stale \in SUBSET Rows : row' = Restrict(row, Rows \ stale) /\ lost' = lost \cup stale
    BY <1>5 DEF Prune, InRoom
  <2>2. RowTypes' /\ lost' \subseteq Handles
    BY <2>1 DEF Inv, RowTypes, Rows, Restrict, PresenceOK, HistoryTypes
  <2>3. PresenceOK'
    BY <1>0, <1>5, <2>2, IdlePresence DEF Prune
  <2>4. QED BY <1>5, <2>2, <2>3 DEF Prune, Inv, RoomTypes, ReqTypes, WaitTypes, Placed, WaitsPlaced
<1>6. CASE Tick
  <2>1. WaitTypes' /\ WaitsPlaced' /\ RowTypes'
    BY <1>0, <1>6, TickTypes DEF Inv
  <2>2. PresenceOK'
    BY <1>0, <1>6, TickPresence
  <2>3. QED BY <1>6, <2>1, <2>2 DEF Tick, Inv, RoomTypes, ReqTypes, Placed
<1>7. CASE Restart
  <2>1. PresenceOK'
    BY <1>0, <1>7, RestartPresence
  <2>2. WaitTypes' /\ WaitsPlaced'
    BY <1>7, AwayTypes DEF Restart, WaitTypes, WaitsPlaced, Away
  <2>3. \A q \in Requests : req'[q] \in Request /\ PlacedAt(req'[q])
    <3> SUFFICES ASSUME NEW q \in Requests PROVE req'[q] \in Request /\ PlacedAt(req'[q])
      OBVIOUS
    <3>1. req[q] \in Request /\ PlacedAt(req[q])
      BY DEF Inv, ReqTypes, Placed
    <3>2. Done(req[q], "dropped") \in Request /\ PlacedAt(Done(req[q], "dropped"))
      BY <3>1, DoneTypes DEF Answers
    <3>3. req'[q] = req[q] \/ req'[q] = Done(req[q], "dropped")
      BY <1>7 DEF Restart
    <3>4. QED BY <3>1, <3>2, <3>3
  <2>4. ReqTypes' /\ Placed'
    BY <1>7, <2>3 DEF Restart, ReqTypes, Placed
  <2>5. QED BY <1>7, <2>1, <2>2, <2>4 DEF Restart, Inv, RoomTypes, RowTypes, Rows
<1>8. CASE UNCHANGED vars
  <2>1. PresenceOK'
    BY <1>0, <1>8, IdlePresence DEF vars, PresenceOK, HistoryTypes
  <2>2. QED BY <1>8, <2>1 DEF vars, Inv, RoomTypes, RowTypes, Rows, ReqTypes, WaitTypes, Placed,
                             WaitsPlaced
<1>9. QED BY <1>1, <1>2, <1>3, <1>4, <1>5, <1>6, <1>7, <1>8 DEF Next, RequestStep, WaitStep

LEMMA InvAlways == Spec => []Inv
BY InvInit, InvStep, PTL DEF Spec

\* TypeOK holds of every reachable state; in particular no handler uses an id
\* or an attempt beyond MAX_ATTEMPTS.
THEOREM RosterTypes == Spec => []TypeOK
BY InvAlways, InvTypes, PTL

\* poll_live tells the truth about every handle, whoever parks, is read or is
\* swept out of the map meanwhile (presence.rs).
THEOREM PollLiveTrue == Spec => []PollLiveIsTrue
BY InvAlways, InvTypes, PTL

-----------------------------------------------------------------------------
(* A parked handle and the prune.                                          *)

\* The row of a parked handle is no older than its long poll.
Young ==
  \A w \in Waits : wait[w].pc = "parked" /\ wait[w].handle \in Rows =>
    row[wait[w].handle].age + wait[w].left <= Cap

LEMMA YoungStep == Inv /\ Young /\ [Next]_vars => Young'
<1> SUFFICES ASSUME Inv, Young, [Next]_vars,
                    NEW v \in Waits, wait'[v].pc = "parked", wait'[v].handle \in Rows'
             PROVE  row'[wait'[v].handle].age + wait'[v].left <= Cap
  BY DEF Young
<1>0. RowTypes /\ WaitTypes /\ WaitsPlaced /\ ReqTypes /\ wait[v] \in Wait
  BY DEF Inv, WaitTypes
<1> DEFINE k == wait[v].handle
\* A step under which the poll goes on and its row, if it had one, is no older.
<1>1. ASSUME wait'[v] = wait[v], k \in Rows => row'[k].age = row[k].age,
             k \notin Rows => row'[k].age = 0
      PROVE  row'[wait'[v].handle].age + wait'[v].left <= Cap
  <2>1. CASE k \in Rows
    BY <1>1, <2>1 DEF Young
  <2>2. CASE k \notin Rows
    BY <1>0, <1>1, <2>2, RosterAssumption DEF Wait
  <2>3. QED BY <2>1, <2>2
<1>2. CASE UNCHANGED <<row, wait>>
  BY <1>1, <1>2 DEF Rows
<1>3. ASSUME NEW q \in Requests, Insert(q)
      PROVE  row'[wait'[v].handle].age + wait'[v].left <= Cap
  <2>1. wait' = wait BY <1>3 DEF Insert
  <2>2. CASE row' = row BY <1>2, <2>1, <2>2
  <2>3. CASE row' = Joined(q)
    <3>1. wait'[v].handle = k BY <2>1
    <3>2. k \in Rows \cup {req[q].handle} BY <2>3, <3>1 DEF Rows, Joined
    <3>3. k \in Rows => row'[k] = row[k] BY <2>3 DEF Joined
    <3>4. k \notin Rows => row'[k].age = 0 BY <2>3, <3>2 DEF Joined
    <3>5. QED BY <1>1, <2>1, <3>3, <3>4
  <2>4. QED BY <1>3, <2>2, <2>3 DEF Insert
<1>4. ASSUME NEW q \in Requests, RequestStep(q)
      PROVE  row'[wait'[v].handle].age + wait'[v].left <= Cap
  <2>1. CASE Insert(q) BY <1>3, <2>1
  <2>2. CASE ~Insert(q)
    <3>1. UNCHANGED <<row, wait>>
      BY <1>4, <2>2 DEF RequestStep, Handler, OpenArrive, OpenTry, JoinArrive, FindInstance,
                       FindHandle, List, Cursor, Refetch, Drop
    <3>2. QED BY <1>2, <3>1
  <2>3. QED BY <2>1, <2>2
<1>5. ASSUME NEW w \in Waits, WaitEnter(w)
      PROVE  row'[wait'[v].handle].age + wait'[v].left <= Cap
  <2>1. PICK h \in Handles : h = wait[w].handle
    BY <1>0, <1>5 DEF WaitEnter, WaitsPlaced
  <2>2. wait[w].pc = "touch" /\ wait[w].left = Cap /\ wait[w] \in Wait
    BY <1>0, <1>5 DEF WaitEnter, WaitsPlaced, WaitTypes
  <2>3. row' = IF h \in Rows THEN [row EXCEPT ![h].age = 0] ELSE row
    BY <1>5, <2>1 DEF WaitEnter
  <2>4. wait' = [wait EXCEPT ![w] = [wait[w] EXCEPT !.pc = "parked"]]
    BY <1>5 DEF WaitEnter
  <2>5. Rows' = Rows
    BY <2>3 DEF Rows
  <2>6. /\ h \in Rows => row'[h].age = 0
        /\ \A i \in Rows \ {h} : row'[i] = row[i]
    BY <1>0, <2>3 DEF RowTypes, Participant
  <2>7. CASE v = w
    <3>1. wait'[v].handle = h /\ wait'[v].left = Cap
      BY <1>0, <2>1, <2>2, <2>4, <2>7 DEF WaitTypes, Wait
    <3>2. QED BY <2>5, <2>6, <3>1, RosterAssumption
  <2>8. CASE v # w /\ k # h
    <3>1. wait'[v] = wait[v] BY <1>0, <2>4, <2>8 DEF WaitTypes
    <3>2. k \in Rows BY <2>5, <3>1
    <3>3. QED BY <1>1, <2>6, <2>8, <3>1, <3>2
  <2>9. CASE v # w /\ k = h
    <3>1. wait'[v] = wait[v] BY <1>0, <2>4, <2>9 DEF WaitTypes
    <3>2. wait'[v].left \in 0 .. Cap BY <1>0, <3>1 DEF Wait
    <3>3. row'[wait'[v].handle].age = 0 BY <2>5, <2>6, <2>9, <3>1
    <3>4. QED BY <3>2, <3>3, RosterAssumption
  <2>10. QED BY <2>7, <2>8, <2>9
<1>6. ASSUME NEW w \in Waits, WaitEnd(w)
      PROVE  row'[wait'[v].handle].age + wait'[v].left <= Cap
  <2>1. wait'[v] = wait[v] /\ v # w
    BY <1>0, <1>6 DEF WaitEnd, Away, WaitTypes
  <2>2. Rows' = Rows /\ \A i \in Rows : row'[i].age = row[i].age
    BY <1>0, <1>6 DEF WaitEnd, Rows, RowTypes, Participant
  <2>3. QED BY <1>1, <2>1, <2>2
<1>7. ASSUME NEW w \in Waits,
             WaitDrop(w) \/ \E r \in Rooms, l \in Labels : WaitArrive(w, r, l)
      PROVE  row'[wait'[v].handle].age + wait'[v].left <= Cap
  <2>1. wait'[v] = wait[v] /\ row' = row
    BY <1>0, <1>7 DEF WaitDrop, WaitArrive, Away, WaitTypes
  <2>2. QED BY <1>1, <2>1 DEF Rows
<1>8. ASSUME NEW r \in Rooms, Prune(r)
      PROVE  row'[wait'[v].handle].age + wait'[v].left <= Cap
  <2>1. wait' = wait BY <1>8 DEF Prune
  <2>2. \A i \in Rows' : i \in Rows /\ row'[i] = row[i]
    BY <1>8 DEF Prune, Restrict, Rows
  <2>3. QED BY <1>1, <2>1, <2>2
<1>9. CASE Tick
  <2>1. Rows' = Rows /\ \A i \in Rows : row'[i] = [row[i] EXCEPT !.age = Up(@, GhostAfter + 1)]
    BY <1>9 DEF Tick, Rows
  <2>2. \A i \in Rows : row'[i].age <= row[i].age + 1 /\ row[i].age \in Nat /\ row'[i].age \in Nat
    <3> SUFFICES ASSUME NEW i \in Rows
                 PROVE  row'[i].age <= row[i].age + 1 /\ row[i].age \in Nat /\ row'[i].age \in Nat
      OBVIOUS
    <3>1. row[i] \in Participant
      BY <1>0 DEF RowTypes
    <3>2. row'[i].age = Up(row[i].age, GhostAfter + 1)
      BY <2>1, <3>1 DEF Participant
    <3>3. row[i].age \in Nat
      BY <3>1, RosterAssumption DEF Participant
    <3>4. QED BY <3>2, <3>3, RosterAssumption DEF Up
  <2>3. wait'[v] = IF wait[v].pc = "parked" THEN [wait[v] EXCEPT !.left = @ - 1] ELSE wait[v]
    BY <1>9 DEF Tick
  <2>4. wait[v].pc = "parked"
    BY <2>3
  <2>5. wait'[v] = [wait[v] EXCEPT !.left = wait[v].left - 1]
    BY <2>3, <2>4
  <2>6. wait'[v].handle = k /\ wait'[v].left = wait[v].left - 1 /\ wait[v].left \in Nat
    BY <1>0, <2>5, RosterAssumption DEF Wait
  <2>7. row[k].age + wait[v].left <= Cap
    BY <2>1, <2>4, <2>6 DEF Young
  <2>8. QED BY <2>1, <2>2, <2>6, <2>7, RosterAssumption
<1>10. CASE Restart
  BY <1>10 DEF Restart, Away
<1>11. CASE (\E r \in Rooms : View(r) \/ Post(r)) \/ UNCHANGED vars
  BY <1>2, <1>11 DEF View, Post, vars
<1>12. QED BY <1>4, <1>5, <1>6, <1>7, <1>8, <1>9, <1>10, <1>11 DEF Next, RequestStep

\* A participant with an open long poll is never pruned: its row is younger than
\* the poll, the poll ends at the cap, and the ghost window outlasts the cap.
THEOREM ParkedIsSpared == Spec => PruneSparesParked
<1>1. Init => Young
  BY DEF Init, Young, Away
<1>2. Inv /\ Young /\ [Next]_vars => \A h \in Rows : h \notin DOMAIN row' => Guards(h) = {}
  <2> SUFFICES ASSUME Inv, Young, [Next]_vars, NEW h \in Rows, h \notin DOMAIN row'
               PROVE  Guards(h) = {}
    OBVIOUS
  <2>1. PICK r \in Rooms : Prune(r)
    <3>1. ASSUME NEW q \in Requests, RequestStep(q) PROVE FALSE
      BY <3>1 DEF RequestStep, Handler, OpenArrive, OpenTry, JoinArrive, FindInstance,
                  FindHandle, List, Cursor, Insert, Refetch, Drop, Joined, Rows
    <3>2. ASSUME NEW w \in Waits, WaitStep(w) PROVE FALSE
      BY <3>2 DEF WaitStep, WaitEnter, WaitDrop, WaitEnd, WaitArrive, Rows
    <3>3. CASE (\E r \in Rooms : View(r) \/ Post(r)) \/ Tick \/ Restart \/ UNCHANGED vars
      BY <3>3 DEF View, Post, Tick, Restart, vars, Rows
    <3>4. QED BY <3>1, <3>2, <3>3 DEF Next, RequestStep, WaitStep
  <2>2. row[h].age > GhostAfter
    BY <2>1 DEF Prune, Restrict, Rows
  <2>3. ASSUME NEW w \in Guards(h) PROVE FALSE
    <3>1. wait[w] \in Wait /\ row[h] \in Participant /\ w \in Waits
      BY DEF Inv, WaitTypes, RowTypes, Guards
    <3>2. row[h].age + wait[w].left <= Cap
      BY DEF Young, Guards
    <3>3. QED BY <2>2, <3>1, <3>2, RosterAssumption DEF Wait, Participant
  <2>4. QED BY <2>3
<1>3. QED BY <1>1, <1>2, InvAlways, YoungStep, PTL DEF Spec, PruneSparesParked

-----------------------------------------------------------------------------
(* What agents are answered.                                               *)

\* The index on the instance; no message is delivered before it is sent; and a
\* row joined under somebody's handle is in another room than that handle.
Unique ==
  \A h, k \in Rows : row[h].room = row[k].room /\ row[h].instance = row[k].instance => h = k

Behind == \A h \in Rows : row[h].cursor <= head[row[h].room]

Apart ==
  \A h \in Rows : row[h].instance \in Handles \ lost =>
    row[h].instance \in Rows /\ row[row[h].instance].room # row[h].room

RowsOK == Unique /\ Behind /\ Apart

\* What the locals of a handler know of the tables, and what its answer says:
\* each fact about a handle holds until a prune deletes the row.
Knows(x) ==
  /\ x.pc \in Joining => x.start <= head[x.room]
  /\ x.how = "opened" => x.room \in rooms
  /\ x.pc \in Joining /\ x.label \in Handles \ lost => x.label \in Rows
  /\ x.pc \in {"list", "cursor", "insert", "refetch"} /\ x.label \in Handles \ lost =>
       row[x.label].room # x.room
  /\ x.pc = "cursor" /\ x.handle \notin lost =>
       /\ x.handle \in Rows /\ row[x.handle].room = x.room
       /\ row[x.handle].instance = x.label
  /\ x.how \in {"created", "resumed"} /\ x.handle \notin lost =>
       /\ x.handle \in Rows /\ row[x.handle].room = x.room
       /\ x.label \in {row[x.handle].instance, x.handle}
       /\ x.upto <= row[x.handle].cursor

AllKnow == \A q \in Requests : Knows(req[q])

OpenedOnce ==
  \A p, q \in Requests :
    p # q /\ req[p].how = "opened" /\ req[q].how = "opened" => req[p].room # req[q].room

\* Ids and rows stay, unless the row is pruned, and heads and cursors grow.
RowsKept ==
  /\ lost \subseteq lost' /\ rooms \subseteq rooms'
  /\ \A r \in Rooms : head[r] <= head'[r]
  /\ \A h \in Rows \ lost' :
       /\ h \in Rows' /\ row'[h].room = row[h].room /\ row'[h].instance = row[h].instance
       /\ row[h].cursor <= row'[h].cursor

\* No row is new, and none is ahead of its room.
NoneNew ==
  \A h \in Rows' :
    /\ h \in Rows /\ row'[h].room = row[h].room /\ row'[h].instance = row[h].instance
    /\ row'[h].cursor <= head'[row'[h].room]

LEMMA KnowsStays ==
  ASSUME RowTypes, RowTypes', RoomTypes, RoomTypes', RowsKept, NEW x \in Request, Knows(x)
  PROVE  Knows(x)'
<1>1. x.pc \in Joining => x.start <= head'[x.room]
  <2>1. /\ x.room \in Rooms /\ x.start \in Int
        /\ head[x.room] \in Int /\ head'[x.room] \in Int /\ head[x.room] <= head'[x.room]
    BY RosterAssumption DEF Request, RoomTypes, RowsKept, Rooms
  <2>2. x.pc \in Joining => x.start <= head[x.room]
    BY DEF Knows
  <2>3. QED BY <2>1, <2>2
<1>2. x.how = "opened" => x.room \in rooms'
  BY DEF Knows, RowsKept
<1>3. x.pc \in Joining /\ x.label \in Handles \ lost' => x.label \in Rows'
  BY DEF Knows, RowsKept
<1>4. x.pc \in {"list", "cursor", "insert", "refetch"} /\ x.label \in Handles \ lost' =>
        row'[x.label].room # x.room
  BY DEF Knows, RowsKept, Joining
<1>5. x.pc = "cursor" /\ x.handle \notin lost' =>
        /\ x.handle \in Rows' /\ row'[x.handle].room = x.room
        /\ row'[x.handle].instance = x.label
  BY DEF Knows, RowsKept
<1>6. ASSUME x.how \in {"created", "resumed"}, x.handle \notin lost'
      PROVE  /\ x.handle \in Rows' /\ row'[x.handle].room = x.room
             /\ x.label \in {row'[x.handle].instance, x.handle}
             /\ x.upto <= row'[x.handle].cursor
  <2>1. /\ x.handle \in Rows \ lost' /\ row[x.handle].room = x.room
        /\ x.label \in {row[x.handle].instance, x.handle}
        /\ x.upto <= row[x.handle].cursor
    BY <1>6 DEF Knows, RowsKept
  <2>2. /\ x.handle \in Rows' /\ row'[x.handle].room = x.room
        /\ x.label \in {row'[x.handle].instance, x.handle}
        /\ row[x.handle].cursor <= row'[x.handle].cursor
    BY <2>1 DEF RowsKept
  <2>3. x.upto \in Int /\ row[x.handle].cursor \in Int /\ row'[x.handle].cursor \in Int
    BY <2>1, <2>2, RosterAssumption DEF Request, RowTypes, Participant
  <2>4. QED BY <2>1, <2>2, <2>3
<1>7. QED BY <1>1, <1>2, <1>3, <1>4, <1>5, <1>6 DEF Knows

LEMMA RowValues ==
  ASSUME RowTypes, RoomTypes, NEW h \in Rows
  PROVE  /\ row[h] \in Participant /\ row[h].room \in Rooms
         /\ row[h].cursor \in Int /\ head[row[h].room] \in 0 .. MaxHead
BY RosterAssumption DEF RowTypes, RoomTypes, Participant

\* Rows, heads and ids under every step that inserts no row.
LEMMA SameRows ==
  ASSUME Inv, Behind, UNCHANGED <<row, head, lost>>, rooms \subseteq rooms'
  PROVE  RowsKept /\ NoneNew
<1>1. \A r \in Rooms : head[r] <= head'[r]
  BY RosterAssumption DEF Inv, RoomTypes
<1>2. \A h \in Rows : row[h].cursor <= row'[h].cursor
  BY RowValues DEF Inv
<1>3. QED BY <1>1, <1>2 DEF RowsKept, NoneNew, Rows, Behind

LEMMA WaitRows ==
  ASSUME Inv, Behind, NEW w \in Waits, WaitStep(w)
  PROVE  RowsKept /\ NoneNew
<1>0. RowTypes /\ RoomTypes /\ UNCHANGED <<rooms, head, lost>>
  BY DEF Inv, WaitStep, WaitEnter, WaitDrop, WaitEnd, WaitArrive
<1>1. CASE row' = row
  BY <1>0, <1>1, SameRows
<1>2. ASSUME Rows' = Rows,
             \A h \in Rows : /\ row'[h].room = row[h].room /\ row'[h].instance = row[h].instance
                             /\ row'[h].cursor \in {row[h].cursor, head[row[h].room]}
      PROVE  RowsKept /\ NoneNew
  <2>1. \A r \in Rooms : head[r] <= head'[r]
    BY <1>0, RosterAssumption DEF RoomTypes
  <2>2. \A h \in Rows : row[h].cursor <= row'[h].cursor /\ row'[h].cursor <= head[row[h].room]
    <3> SUFFICES ASSUME NEW h \in Rows
                 PROVE  row[h].cursor <= row'[h].cursor /\ row'[h].cursor <= head[row[h].room]
      OBVIOUS
    <3>1. row[h].cursor \in Int /\ head[row[h].room] \in 0 .. MaxHead
      BY <1>0, RowValues
    <3>2. row[h].cursor <= head[row[h].room] BY DEF Behind
    <3>3. QED BY <1>2, <3>1, <3>2, RosterAssumption
  <2>3. QED BY <1>0, <1>2, <2>1, <2>2 DEF RowsKept, NoneNew
<1>3. CASE WaitEnter(w)
  <2>1. Rows' = Rows /\ \A h \in Rows : /\ row'[h].room = row[h].room
                                        /\ row'[h].instance = row[h].instance
                                        /\ row'[h].cursor = row[h].cursor
    BY <1>0, <1>3 DEF WaitEnter, Rows, RowTypes, Participant
  <2>2. QED BY <1>2, <2>1
<1>4. CASE WaitEnd(w)
  <2> DEFINE h == wait[w].handle
  <2>1. CASE h \in Rows /\ row' = [row EXCEPT ![h].cursor = head[row[h].room]]
    <3>1. Rows' = Rows /\ \A k \in Rows : /\ row'[k].room = row[k].room
                                          /\ row'[k].instance = row[k].instance
                                          /\ row'[k].cursor \in {row[k].cursor, head[row[k].room]}
      BY <1>0, <2>1 DEF Rows, RowTypes, Participant
    <3>2. QED BY <1>2, <3>1
  <2>2. QED BY <1>1, <1>4, <2>1 DEF WaitEnd
<1>5. QED BY <1>1, <1>3, <1>4 DEF WaitStep, WaitDrop, WaitArrive

LEMMA QuietRows ==
  ASSUME Inv, Behind,
         \/ \E r \in Rooms : View(r) \/ Post(r) \/ Prune(r)
         \/ Tick \/ Restart \/ UNCHANGED vars
  PROVE  RowsKept /\ NoneNew
<1>0. RowTypes /\ RoomTypes
  BY DEF Inv
<1>h. \A r \in Rooms : head[r] \in Int /\ head[r] <= head[r]
  BY <1>0, RosterAssumption DEF RoomTypes
<1>r. \A h \in Rows : row[h].cursor <= row[h].cursor
  BY <1>0, RowValues
<1>1. CASE (\E r \in Rooms : View(r)) \/ Restart \/ UNCHANGED vars
  BY <1>1, SameRows DEF View, Restart, vars
<1>2. ASSUME NEW r \in Rooms, Post(r) PROVE RowsKept /\ NoneNew
  <2>1. UNCHANGED <<rooms, row, lost>> /\ \A s \in Rooms : head[s] <= head'[s]
    BY <1>0, <1>2, RosterAssumption DEF Post, RoomTypes
  <2>2. \A h \in Rows : row[h].cursor <= head'[row[h].room]
    <3> SUFFICES ASSUME NEW h \in Rows PROVE row[h].cursor <= head'[row[h].room]
      OBVIOUS
    <3>1. row[h].room \in Rooms /\ row[h].cursor \in Int /\ head[row[h].room] \in 0 .. MaxHead
      BY <1>0, RowValues
    <3>2. head'[row[h].room] \in {head[row[h].room], head[row[h].room] + 1}
      BY <1>0, <1>2, <3>1 DEF Post, RoomTypes
    <3>3. QED BY <3>1, <3>2, RosterAssumption DEF Behind
  <2>3. QED BY <1>r, <2>1, <2>2 DEF RowsKept, NoneNew, Rows
<1>3. ASSUME NEW r \in Rooms, Prune(r) PROVE RowsKept /\ NoneNew
  <2>1. PICK stale \in SUBSET Rows : row' = Restrict(row, Rows \ stale) /\ lost' = lost \cup stale
    BY <1>3 DEF Prune, InRoom
  <2>2. Rows' = Rows \ stale /\ \A h \in Rows \ stale : row'[h] = row[h]
    BY <2>1 DEF Restrict, Rows
  <2>3. UNCHANGED <<rooms, head>>
    BY <1>3 DEF Prune
  <2>4. QED BY <1>h, <1>r, <2>1, <2>2, <2>3 DEF RowsKept, NoneNew, Behind
<1>4. CASE Tick
  <2>1. Rows' = Rows /\ UNCHANGED <<rooms, head, lost>>
        /\ \A h \in Rows : row'[h] = [row[h] EXCEPT !.age = Up(@, GhostAfter + 1)]
    BY <1>4 DEF Tick, Rows
  <2>2. \A h \in Rows : /\ row'[h].room = row[h].room /\ row'[h].instance = row[h].instance
                        /\ row'[h].cursor = row[h].cursor
    BY <1>0, <2>1 DEF RowTypes, Participant
  <2>3. QED BY <1>h, <1>r, <2>1, <2>2 DEF RowsKept, NoneNew, Behind
<1>5. QED BY <1>1, <1>2, <1>3, <1>4

\* Where no row is new the facts about the rows stay.
LEMMA RowsOKStays ==
  ASSUME RowsOK, RowsKept, NoneNew
  PROVE  RowsOK'
<1>1. Unique' BY DEF RowsOK, Unique, NoneNew
<1>2. Behind' BY DEF Behind, NoneNew
<1>3. Apart'
  <2> SUFFICES ASSUME NEW h \in Rows', row'[h].instance \in Handles \ lost'
               PROVE  /\ row'[h].instance \in Rows'
                      /\ row'[row'[h].instance].room # row'[h].room
    BY DEF Apart
  <2>1. PICK l : l = row'[h].instance OBVIOUS
  <2>2. h \in Rows /\ row[h].instance = l /\ row'[h].room = row[h].room /\ l \in Handles \ lost'
    BY <2>1 DEF NoneNew
  <2>3. l \in Rows \ lost' /\ row[l].room # row[h].room
    BY <2>2 DEF RowsOK, Apart, RowsKept
  <2>4. l \in Rows' /\ row'[l].room = row[l].room
    BY <2>3 DEF RowsKept
  <2>5. QED BY <2>1, <2>2, <2>3, <2>4
<1>4. QED BY <1>1, <1>2, <1>3 DEF RowsOK

LEMMA DoneFields ==
  ASSUME NEW x \in Request, NEW how \in Answers
  PROVE  /\ Done(x, how).pc = "done" /\ Done(x, how).how = how
         /\ how \notin {"error", "dropped"} =>
              /\ Done(x, how).room = x.room /\ Done(x, how).label = x.label
              /\ Done(x, how).handle = x.handle /\ Done(x, how).upto = x.upto
BY DEF Done, Fresh, Request

\* A handler that fails or goes knows nothing any more.
LEMMA GoneKnows ==
  ASSUME NEW x \in Request, NEW how \in {"error", "dropped"}
  PROVE  Knows(Done(x, how))
BY DoneFields DEF Knows, Joining, Answers

\* A resume is answered with a row of the room that carries the label.
LEMMA ResumedKnows ==
  ASSUME NEW x \in Request, NEW h \in Handles, NEW n \in 0 .. MaxHead,
         h \notin lost => /\ h \in Rows /\ row[h].room = x.room
                          /\ x.label \in {row[h].instance, h} /\ n <= row[h].cursor
  PROVE  Knows(Done([x EXCEPT !.handle = h, !.upto = n], "resumed"))
<1> DEFINE y == [x EXCEPT !.handle = h, !.upto = n]
<1>1. y \in Request /\ y.handle = h /\ y.upto = n /\ y.room = x.room /\ y.label = x.label
  BY DEF Request
<1> HIDE DEF y
<1>2. /\ Done(y, "resumed").pc = "done" /\ Done(y, "resumed").how = "resumed"
      /\ Done(y, "resumed").room = x.room /\ Done(y, "resumed").label = x.label
      /\ Done(y, "resumed").handle = h /\ Done(y, "resumed").upto = n
  BY <1>1, DoneFields DEF Answers
<1>3. Knows(Done(y, "resumed"))
  BY <1>2 DEF Knows, Joining
<1>4. QED BY <1>3 DEF y

LEMMA TakesUp ==
  ASSUME Inv, Inv', RowsKept, NEW q \in Requests, Knows(req'[q])
  PROVE  Knows(req[q])'
<1>1. PICK x \in Request : x = req'[q]
  BY DEF Inv, ReqTypes
<1>2. Knows(x)'
  BY <1>1, KnowsStays DEF Inv
<1>3. QED BY <1>1, <1>2 DEF Knows

LEMMA FindKnows ==
  ASSUME Inv, RowsOK, AllKnow, NEW q \in Requests, FindInstance(q) \/ FindHandle(q)
  PROVE  Knows(req'[q])
<1>0. /\ RowTypes /\ RoomTypes /\ req[q] \in Request /\ PlacedAt(req[q]) /\ Knows(req[q])
      /\ \A x : SetReq(q, x) => req'[q] = x
  BY DEF Inv, ReqTypes, Placed, AllKnow, SetReq
<1>1. ASSUME NEW h \in Rows, row[h].room = req[q].room,
             req[q].label \in {row[h].instance, h}, Resumed(q, h)
      PROVE  Knows(req'[q])
  <2>1. h \in Handles /\ row[h].cursor \in 0 .. MaxHead /\ row[h].cursor <= row[h].cursor
    BY <1>0, RosterAssumption DEF RowTypes, Participant
  <2>2. QED BY <1>0, <1>1, <2>1, ResumedKnows DEF Resumed
<1>2. CASE FindInstance(q)
  <2>1. ASSUME NEW h \in ByInstance(req[q].room, req[q].label), Resumed(q, h)
        PROVE  Knows(req'[q])
    BY <1>0, <1>1, <2>1, RowFacts
  <2>2. ASSUME SetReq(q, [req[q] EXCEPT !.pc = "handle"]) PROVE Knows(req'[q])
    <3>1. req'[q] = [req[q] EXCEPT !.pc = "handle"] /\ req[q].pc = "find"
      BY <1>0, <1>2, <2>2 DEF FindInstance
    <3>2. QED BY <1>0, <3>1 DEF Knows, Joining, Request, PlacedAt
  <2>3. QED BY <1>2, <2>1, <2>2 DEF FindInstance
<1>3. CASE FindHandle(q)
  <2>1. CASE req[q].label \in InRoom(req[q].room)
    <3>1. Resumed(q, req[q].label) BY <1>3, <2>1 DEF FindHandle
    <3>2. req[q].label \in Rows /\ row[req[q].label].room = req[q].room
      BY <2>1 DEF InRoom
    <3>3. QED BY <1>1, <3>1, <3>2
  <2>2. CASE req[q].label \notin InRoom(req[q].room)
    <3>1. req'[q] = [req[q] EXCEPT !.pc = "list"] /\ req[q].pc = "handle"
      BY <1>0, <1>3, <2>2 DEF FindHandle
    <3>2. req[q].label \in Handles \ lost => row[req[q].label].room # req[q].room
      BY <1>0, <2>2, <3>1 DEF Knows, Joining, InRoom
    <3>3. QED BY <1>0, <3>1, <3>2 DEF Knows, Joining, Request, PlacedAt
  <2>3. QED BY <2>1, <2>2
<1>4. QED BY <1>2, <1>3

LEMMA ListKnows ==
  ASSUME Inv, RowsOK, AllKnow, NEW q \in Requests, List(q)
  PROVE  Knows(req'[q])
<1>0. /\ RowTypes /\ req[q] \in Request /\ PlacedAt(req[q]) /\ Knows(req[q])
      /\ \A x : SetReq(q, x) => req'[q] = x
  BY DEF Inv, ReqTypes, Placed, AllKnow, SetReq
<1>1. req[q].pc = "list" /\ req[q].how = "none"
  BY <1>0 DEF List, PlacedAt
<1>2. ASSUME NEW h \in ByInstance(req[q].room, req[q].label),
             SetReq(q, [req[q] EXCEPT !.pc = "cursor", !.handle = h])
      PROVE  Knows(req'[q])
  <2> DEFINE x == [req[q] EXCEPT !.pc = "cursor", !.handle = h]
  <2>1. h \in Rows /\ row[h].room = req[q].room /\ row[h].instance = req[q].label
    BY <1>0, RowFacts
  <2>2. /\ x.pc = "cursor" /\ x.handle = h /\ x.how = "none" /\ x.room = req[q].room
        /\ x.label = req[q].label /\ x.start = req[q].start
    BY <1>0, <1>1 DEF Request
  <2>3. Knows(x)
    BY <1>0, <1>1, <2>1, <2>2 DEF Knows, Joining
  <2>4. QED BY <1>0, <1>2, <2>3
<1>3. ASSUME NEW h \in Handles,
             SetReq(q, [req[q] EXCEPT !.pc = "insert", !.handle = h, !.tries = @ + 1])
      PROVE  Knows(req'[q])
  <2> DEFINE x == [req[q] EXCEPT !.pc = "insert", !.handle = h, !.tries = @ + 1]
  <2>1. /\ x.pc = "insert" /\ x.how = "none" /\ x.room = req[q].room
        /\ x.label = req[q].label /\ x.start = req[q].start
    BY <1>0, <1>1 DEF Request
  <2>2. Knows(x)
    BY <1>0, <1>1, <2>1 DEF Knows, Joining
  <2>3. QED BY <1>0, <1>3, <2>2
<1>4. QED BY <1>2, <1>3 DEF List

LEMMA CursorKnows ==
  ASSUME Inv, RowsOK, AllKnow, NEW q \in Requests, Cursor(q)
  PROVE  Knows(req'[q])
<1>0. /\ RowTypes /\ req[q] \in Request /\ PlacedAt(req[q]) /\ Knows(req[q])
      /\ \A x : SetReq(q, x) => req'[q] = x
  BY DEF Inv, ReqTypes, Placed, AllKnow, SetReq
<1> DEFINE h     == req[q].handle
           found == ByInstance(req[q].room, req[q].label)
           upto  == IF found = {} THEN req[q].start ELSE row[CHOOSE k \in found : TRUE].cursor
<1>1. h \in Handles /\ req[q].pc = "cursor"
  BY <1>0 DEF Cursor, PlacedAt
<1>2. \A k \in found : /\ k \in Rows /\ row[k].room = req[q].room
                       /\ row[k].instance = req[q].label /\ row[k].cursor \in 0 .. MaxHead
  BY <1>0, RowFacts
<1>3. ASSUME h \notin lost
      PROVE  h \in Rows /\ row[h].room = req[q].room /\ row[h].instance = req[q].label
  BY <1>0, <1>1, <1>3 DEF Knows
<1>4. ASSUME h \notin lost PROVE found = {h}
  <2>1. h \in found BY <1>3, <1>4 DEF ByInstance, InRoom
  <2>2. \A k \in found : k = h BY <1>2, <1>3, <1>4 DEF RowsOK, Unique
  <2>3. QED BY <2>1, <2>2
<1>5. upto \in 0 .. MaxHead
  <2>1. CASE found = {} BY <1>0, <2>1 DEF Request
  <2>2. CASE found # {}
    <3>1. (CHOOSE k \in found : TRUE) \in found BY <2>2
    <3>2. QED BY <1>2, <2>2, <3>1
  <2>3. QED BY <2>1, <2>2
<1>6. h \notin lost => upto = row[h].cursor
  BY <1>4
<1>7. req'[q] = Done([req[q] EXCEPT !.upto = upto], "resumed")
  BY <1>0 DEF Cursor
<1> HIDE DEF upto, found
<1>8. [req[q] EXCEPT !.upto = upto] = [req[q] EXCEPT !.handle = h, !.upto = upto]
  BY <1>0 DEF Request
<1>9. h \notin lost => /\ h \in Rows /\ row[h].room = req[q].room
                       /\ req[q].label \in {row[h].instance, h} /\ upto <= row[h].cursor
  BY <1>3, <1>5, <1>6, RosterAssumption
<1>10. Knows(Done([req[q] EXCEPT !.handle = h, !.upto = upto], "resumed"))
  BY <1>0, <1>1, <1>5, <1>9, ResumedKnows
<1>11. QED BY <1>7, <1>8, <1>10

LEMMA RefetchKnows ==
  ASSUME Inv, RowsOK, AllKnow, NEW q \in Requests, Refetch(q)
  PROVE  Knows(req'[q])
<1>0. /\ RowTypes /\ req[q] \in Request /\ PlacedAt(req[q]) /\ Knows(req[q])
      /\ \A x : SetReq(q, x) => req'[q] = x
  BY DEF Inv, ReqTypes, Placed, AllKnow, SetReq
<1>1. ASSUME NEW h \in ByInstance(req[q].room, req[q].label),
             SetReq(q, Done([req[q] EXCEPT !.handle = h, !.upto = row[h].cursor], "resumed"))
      PROVE  Knows(req'[q])
  <2>1. /\ h \in Handles /\ h \in Rows /\ row[h].cursor \in 0 .. MaxHead
        /\ row[h].room = req[q].room /\ row[h].instance = req[q].label
        /\ row[h].cursor <= row[h].cursor
    BY <1>0, RowFacts, RosterAssumption
  <2>2. QED BY <1>0, <1>1, <2>1, ResumedKnows
<1>2. ASSUME SetReq(q, [req[q] EXCEPT !.pc = "list"]) PROVE Knows(req'[q])
  <2>1. req'[q] = [req[q] EXCEPT !.pc = "list"] /\ req[q].pc = "refetch" /\ req[q].how = "none"
    BY <1>0, <1>2 DEF Refetch, PlacedAt
  <2>2. QED BY <1>0, <2>1 DEF Knows, Joining, Request
<1>3. QED BY <1>1, <1>2 DEF Refetch

LEMMA JoinArriveKnows ==
  ASSUME Inv, AllKnow, NEW q \in Requests, NEW r \in Rooms, NEW l \in Labels, JoinArrive(q, r, l)
  PROVE  Knows(req'[q])
<1> DEFINE x == [req[q] EXCEPT !.pc = "find", !.room = r, !.label = l, !.start = head[r]]
<1>1. req[q] \in Request /\ req[q].how = "none" /\ req'[q] = x
  BY DEF Inv, ReqTypes, Placed, PlacedAt, JoinArrive, SetReq
<1>2. /\ x.pc = "find" /\ x.room = r /\ x.label = l /\ x.start = head[r] /\ x.how = "none"
  BY <1>1 DEF Request
<1>3. ASSUME l \in Handles \ lost PROVE l \in Rows
  <2>1. l \in Answered
    BY <1>3, RosterAssumption DEF JoinArrive
  <2>2. PICK p \in Requests : l = req[p].handle /\ req[p].how \in {"created", "resumed"}
    BY <2>1 DEF Answered
  <2>3. QED BY <1>3, <2>2 DEF AllKnow, Knows
<1>4. head[r] <= head[r]
  BY RosterAssumption DEF Inv, RoomTypes
<1>5. Knows(x)
  BY <1>2, <1>3, <1>4 DEF Knows
<1>6. QED BY <1>1, <1>5

\* The row a join creates: its label is new in the room, its cursor is where
\* the room was when the join began, and a label that is a handle is elsewhere.
LEMMA InsertKnows ==
  ASSUME Inv, Inv', RowsOK, AllKnow, NEW q \in Requests, Insert(q)
  PROVE  RowsOK' /\ RowsKept /\ Knows(req[q])'
<1>0. /\ RowTypes /\ RoomTypes /\ RowTypes' /\ RoomTypes'
      /\ req[q] \in Request /\ PlacedAt(req[q]) /\ Knows(req[q])
      /\ \A x : SetReq(q, x) => req'[q] = x
  BY DEF Inv, ReqTypes, Placed, AllKnow, SetReq
<1>1. req[q].pc = "insert" /\ req[q].how = "none" /\ UNCHANGED <<rooms, head, lost>>
  BY <1>0 DEF Insert, PlacedAt
<1>2. CASE row' = row
  <2>1. RowsKept /\ NoneNew
    BY <1>1, <1>2, SameRows DEF RowsOK
  <2>2. RowsOK'
    BY <2>1, RowsOKStays
  <2>3. ASSUME SetReq(q, [req[q] EXCEPT !.pc = "refetch"]) PROVE Knows(req'[q])
    <3>1. req'[q] = [req[q] EXCEPT !.pc = "refetch"]
      BY <1>0, <2>3
    <3>2. QED BY <1>0, <1>1, <3>1 DEF Knows, Joining, Request
  <2>4. ASSUME SetReq(q, Done(req[q], "error")) PROVE Knows(req'[q])
    BY <1>0, <2>4, GoneKnows
  <2>5. row' # Joined(q) \/ req[q].handle \in Rows
    BY <1>2 DEF Joined, Rows
  <2>6. Knows(req'[q])
    BY <2>3, <2>4, <2>5 DEF Insert
  <2>7. QED BY <2>1, <2>2, <2>6, TakesUp
<1>3. CASE row' # row
  <2>1. PICK h \in Handles, r \in Rooms, l \in Labels, n \in 0 .. MaxHead :
          /\ h = req[q].handle /\ r = req[q].room /\ l = req[q].label /\ n = req[q].start
    BY <1>0, <1>1 DEF PlacedAt, Joining, Request
  <2>2. /\ row' = Joined(q) /\ h \notin Rows /\ ByInstance(r, l) = {}
        /\ req'[q] = Done([req[q] EXCEPT !.upto = n], "created")
    BY <1>0, <1>3, <2>1 DEF Insert
  <2>3. /\ Rows' = Rows \cup {h}
        /\ row'[h] = [room |-> r, instance |-> l, cursor |-> n, age |-> 0]
        /\ \A k \in Rows : row'[k] = row[k]
    BY <2>1, <2>2 DEF Joined, Rows
  <2>4. row'[h].room = r /\ row'[h].instance = l /\ row'[h].cursor = n
    BY <2>3
  <2>5. RowsKept
    <3>1. \A k \in Rooms : head[k] <= head'[k]
      BY <1>0, <1>1, RosterAssumption DEF RoomTypes
    <3>2. \A k \in Rows : row[k].cursor <= row'[k].cursor
      BY <1>0, <2>3, RowValues
    <3>3. QED BY <1>1, <2>3, <3>1, <3>2 DEF RowsKept
  <2>6. Unique'
    <3>1. \A k \in Rows : ~(row[k].room = r /\ row[k].instance = l)
      BY <2>2 DEF ByInstance, InRoom
    <3>2. QED BY <2>3, <2>4, <3>1 DEF RowsOK, Unique
  <2>7. n <= head[r]
    BY <1>0, <1>1, <2>1 DEF Knows, Joining
  <2>8. Behind'
    BY <1>1, <2>3, <2>4, <2>7 DEF RowsOK, Behind
  <2>9. l \in Handles \ lost => l \in Rows /\ row[l].room # r
    BY <1>0, <1>1, <2>1 DEF Knows, Joining
  <2>10. Apart'
    <3> SUFFICES ASSUME NEW k \in Rows', row'[k].instance \in Handles \ lost
                 PROVE  /\ row'[k].instance \in Rows'
                        /\ row'[row'[k].instance].room # row'[k].room
      BY <1>1 DEF Apart
    <3>1. CASE k = h
      BY <2>3, <2>4, <2>9, <3>1
    <3>2. CASE k \in Rows
      BY <2>3, <3>2 DEF RowsOK, Apart
    <3>3. QED BY <2>3, <3>1, <3>2
  <2>11. Knows(req[q])'
    <3>1. PICK x \in Request : x = [req[q] EXCEPT !.upto = n]
      BY <1>0, <2>1 DEF Request
    <3>2. x.room = r /\ x.label = l /\ x.handle = h /\ x.upto = n
      BY <1>0, <2>1, <3>1 DEF Request
    <3>3. PICK y : y = Done(x, "created") OBVIOUS
    <3>4. /\ y.pc = "done" /\ y.how = "created" /\ y.room = r /\ y.label = l
          /\ y.handle = h /\ y.upto = n
      BY <3>2, <3>3, DoneFields DEF Answers
    <3>5. n <= n BY <2>1, RosterAssumption
    <3>6. Knows(y)'
      BY <2>3, <2>4, <3>4, <3>5 DEF Knows, Joining
    <3>7. req'[q] = y BY <2>2, <3>1, <3>3
    <3>8. QED BY <3>6, <3>7 DEF Knows
  <2>12. QED BY <2>5, <2>6, <2>8, <2>10, <2>11 DEF RowsOK
<1>4. QED BY <1>2, <1>3

LEMMA OpenKnows ==
  ASSUME Inv, Inv', RowsOK, AllKnow, NEW q \in Requests, OpenArrive(q) \/ OpenTry(q)
  PROVE  RowsOK' /\ RowsKept /\ Knows(req[q])'
<1>0. /\ req[q] \in Request /\ req[q].how = "none" /\ req[q].pc \notin Joining
      /\ \A x : SetReq(q, x) => req'[q] = x
  BY DEF Inv, ReqTypes, Placed, PlacedAt, SetReq, OpenArrive, OpenTry, Joining
<1>1. RowsKept /\ NoneNew
  BY SameRows DEF OpenArrive, OpenTry, RowsOK
<1>2. RowsOK'
  BY <1>1, RowsOKStays
<1>3. CASE OpenArrive(q)
  <2>1. req'[q] = [req[q] EXCEPT !.pc = "open"] BY <1>0, <1>3 DEF OpenArrive
  <2>2. Knows(req'[q]) BY <1>0, <2>1 DEF Knows, Joining, Request
  <2>3. QED BY <1>1, <1>2, <2>2, TakesUp
<1>4. CASE OpenTry(q) /\ req'[q] = [req[q] EXCEPT !.room = @ + 1]
  <2>1. Knows(req'[q]) BY <1>0, <1>4 DEF Knows, Joining, Request
  <2>2. QED BY <1>1, <1>2, <2>1, TakesUp
<1>5. CASE req'[q] = Done(req[q], "error")
  BY <1>0, <1>1, <1>2, <1>5, GoneKnows, TakesUp
<1>6. CASE req'[q] = Done(req[q], "opened") /\ rooms' = rooms \cup {req[q].room}
  <2>1. PICK y : y = req'[q] OBVIOUS
  <2>2. y.pc = "done" /\ y.how = "opened" /\ y.room = req[q].room
    BY <1>0, <1>6, <2>1, DoneFields DEF Answers
  <2>3. Knows(y)' BY <1>6, <2>2 DEF Knows, Joining
  <2>4. Knows(req[q])' BY <2>1, <2>3 DEF Knows
  <2>5. QED BY <1>1, <1>2, <2>4
<1>7. QED BY <1>0, <1>3, <1>4, <1>5, <1>6 DEF OpenTry

LEMMA RequestKnows ==
  ASSUME Inv, Inv', RowsOK, AllKnow, NEW q \in Requests, RequestStep(q)
  PROVE  RowsOK' /\ RowsKept /\ Knows(req[q])'
<1>1. CASE OpenArrive(q) \/ OpenTry(q) BY <1>1, OpenKnows
<1>2. CASE Insert(q) BY <1>2, InsertKnows
<1>3. ASSUME Knows(req'[q]), UNCHANGED <<row, head, lost, rooms>>
      PROVE  RowsOK' /\ RowsKept /\ Knows(req[q])'
  <2>1. RowsKept /\ NoneNew BY <1>3, SameRows DEF RowsOK
  <2>2. QED BY <1>3, <2>1, RowsOKStays, TakesUp
<1>4. CASE FindInstance(q) \/ FindHandle(q) \/ List(q) \/ Cursor(q) \/ Refetch(q)
  <2>1. Knows(req'[q])
    BY <1>4, FindKnows, ListKnows, CursorKnows, RefetchKnows
  <2>2. UNCHANGED <<row, head, lost, rooms>>
    BY <1>4 DEF FindInstance, FindHandle, List, Cursor, Refetch
  <2>3. QED BY <1>3, <2>1, <2>2
<1>5. CASE Drop(q)
  <2>1. req'[q] = Done(req[q], "dropped") /\ req[q] \in Request
    BY <1>5 DEF Drop, SetReq, Inv, ReqTypes
  <2>2. Knows(req'[q]) BY <2>1, GoneKnows
  <2>3. QED BY <1>3, <1>5, <2>2 DEF Drop
<1>6. ASSUME NEW r \in Rooms, NEW l \in Labels, JoinArrive(q, r, l)
      PROVE  RowsOK' /\ RowsKept /\ Knows(req[q])'
  <2>1. Knows(req'[q]) BY <1>6, JoinArriveKnows
  <2>2. QED BY <1>3, <1>6, <2>1 DEF JoinArrive
<1>7. QED BY <1>1, <1>2, <1>4, <1>5, <1>6 DEF RequestStep, Handler

AnswersOK == RowsOK /\ AllKnow /\ OpenedOnce

LEMMA DoneHow ==
  ASSUME NEW x, "how" \in DOMAIN x, NEW how
  PROVE  Done(x, how).how = how
<1>1. CASE how \in {"error", "dropped"}
  BY <1>1 DEF Done, Fresh
<1>2. CASE how \notin {"error", "dropped"}
  BY <1>2 DEF Done
<1>3. QED BY <1>1, <1>2

\* Only a successful open is answered with an id.
LEMMA OnlyOpenOpens ==
  ASSUME Inv, NEW q \in Requests, RequestStep(q), req'[q].how = "opened"
  PROVE  req[q].room \notin rooms /\ req'[q].room = req[q].room
<1>1. /\ req[q] \in Request /\ "how" \in DOMAIN req[q] /\ req[q].pc # "done" /\ req[q].how = "none"
  BY DEF Inv, ReqTypes, Request, Placed, PlacedAt, RequestStep, Handler, OpenArrive, OpenTry,
         JoinArrive, FindInstance, FindHandle, List, Cursor, Insert, Refetch, Drop
<1>2. \A x : SetReq(q, x) => req'[q] = x
  BY DEF Inv, ReqTypes, SetReq
<1>3. CASE OpenTry(q)
  <2>1. ASSUME req'[q] = Done(req[q], "error") PROVE FALSE
    BY <1>1, <2>1, DoneHow
  <2>2. ASSUME req'[q] = [req[q] EXCEPT !.room = @ + 1] PROVE FALSE
    BY <1>1, <2>2 DEF Request
  <2>3. req[q].room \notin rooms /\ req'[q] = Done(req[q], "opened")
    BY <1>2, <1>3, <2>1, <2>2 DEF OpenTry
  <2>4. QED BY <1>1, <2>3, DoneFields DEF Answers
<1>4. ASSUME NEW x, "how" \in DOMAIN x, NEW how \in {"created", "resumed", "error", "dropped"},
             SetReq(q, Done(x, how))
      PROVE  FALSE
  BY <1>2, <1>4, DoneHow
<1>5. ASSUME NEW x, x.how = "none", SetReq(q, x) PROVE FALSE
  BY <1>2, <1>5
<1>6. ASSUME NEW l PROVE [req[q] EXCEPT !.pc = l].how = "none"
  BY <1>1 DEF Request
<1>7. CASE OpenArrive(q)
  BY <1>5, <1>6, <1>7 DEF OpenArrive
<1>8. ASSUME NEW r \in Rooms, NEW l \in Labels, JoinArrive(q, r, l) PROVE FALSE
  <2>1. [req[q] EXCEPT !.pc = "find", !.room = r, !.label = l, !.start = head[r]].how = "none"
    BY <1>1 DEF Request
  <2>2. QED BY <1>5, <1>8, <2>1 DEF JoinArrive
<1>9. ASSUME NEW h, NEW n PROVE "how" \in DOMAIN [req[q] EXCEPT !.handle = h, !.upto = n]
  BY <1>1
<1>10. CASE FindInstance(q) \/ FindHandle(q)
  BY <1>4, <1>5, <1>6, <1>9, <1>10 DEF FindInstance, FindHandle, Resumed
<1>11. CASE List(q)
  <2>1. ASSUME NEW h
        PROVE  /\ [req[q] EXCEPT !.pc = "cursor", !.handle = h].how = "none"
               /\ [req[q] EXCEPT !.pc = "insert", !.handle = h, !.tries = @ + 1].how = "none"
    BY <1>1 DEF Request
  <2>2. QED BY <1>5, <1>11, <2>1 DEF List
<1>12. ASSUME NEW n PROVE "how" \in DOMAIN [req[q] EXCEPT !.upto = n]
  BY <1>1
<1>13. CASE Cursor(q)
  BY <1>4, <1>12, <1>13 DEF Cursor
<1>14. CASE Insert(q)
  BY <1>1, <1>4, <1>5, <1>6, <1>12, <1>14 DEF Insert
<1>15. CASE Refetch(q)
  BY <1>4, <1>5, <1>6, <1>9, <1>15 DEF Refetch
<1>16. CASE Drop(q)
  BY <1>1, <1>4, <1>16 DEF Drop
<1>17. QED BY <1>3, <1>7, <1>8, <1>10, <1>11, <1>13, <1>14, <1>15, <1>16 DEF RequestStep, Handler

LEMMA RequestsApart ==
  ASSUME Inv, NEW q \in Requests, RequestStep(q)
  PROVE  \A p \in Requests \ {q} : req'[p] = req[p]
<1>1. PICK x : SetReq(q, x)
  BY DEF RequestStep, Handler, OpenArrive, OpenTry, JoinArrive, FindInstance, FindHandle, List,
         Cursor, Insert, Refetch, Drop, Resumed
<1>2. QED BY <1>1 DEF SetReq, Inv, ReqTypes

\* Every other step leaves the requests alone or, at a restart, drops them.
LEMMA RequestsDropped ==
  ASSUME Inv, [Next]_vars, ~\E q \in Requests : RequestStep(q), NEW q \in Requests
  PROVE  req'[q] = req[q] \/ req'[q] = Done(req[q], "dropped")
<1>1. CASE Restart
  BY <1>1 DEF Restart
<1>2. CASE (\E r \in Rooms : View(r) \/ Post(r) \/ Prune(r)) \/ Tick \/ UNCHANGED vars
  BY <1>2 DEF View, Post, Prune, Tick, vars
<1>3. ASSUME NEW w \in Waits, WaitStep(w) PROVE req'[q] = req[q]
  BY <1>3 DEF WaitStep, WaitEnter, WaitDrop, WaitEnd, WaitArrive
<1>4. QED BY <1>1, <1>2, <1>3 DEF Next, RequestStep, WaitStep

LEMMA OpenedOnceStep ==
  ASSUME Inv, AllKnow, OpenedOnce, [Next]_vars
  PROVE  OpenedOnce'
<1>1. CASE \E q \in Requests : RequestStep(q)
  <2>1. PICK q \in Requests : RequestStep(q) BY <1>1
  <2>2. \A p \in Requests \ {q} : req'[p] = req[p]
    BY <2>1, RequestsApart
  <2>3. ASSUME req'[q].how = "opened", NEW p \in Requests \ {q}, req'[p].how = "opened"
        PROVE  req'[p].room # req'[q].room
    <3>1. req[q].room \notin rooms /\ req'[q].room = req[q].room
      BY <2>1, <2>3, OnlyOpenOpens
    <3>2. req[p].room \in rooms /\ req'[p] = req[p]
      BY <2>2, <2>3 DEF AllKnow, Knows
    <3>3. QED BY <3>1, <3>2
  <2>4. QED BY <2>2, <2>3 DEF OpenedOnce
<1>2. CASE ~\E q \in Requests : RequestStep(q)
  <2>1. \A q \in Requests : req'[q].how = "opened" => req'[q] = req[q]
    <3> SUFFICES ASSUME NEW q \in Requests, req'[q].how = "opened" PROVE req'[q] = req[q]
      OBVIOUS
    <3>1. req[q] \in Request BY DEF Inv, ReqTypes
    <3>2. req'[q] # Done(req[q], "dropped") BY <3>1, DoneFields DEF Answers
    <3>3. QED BY <1>2, <3>2, RequestsDropped
  <2>2. QED BY <2>1 DEF OpenedOnce
<1>3. QED BY <1>1, <1>2

LEMMA AnswersStep == Inv /\ AnswersOK /\ [Next]_vars => AnswersOK'
<1> SUFFICES ASSUME Inv, AnswersOK, [Next]_vars PROVE AnswersOK'
  OBVIOUS
<1>0. Inv' /\ RowsOK /\ AllKnow /\ Behind /\ OpenedOnce'
  BY InvStep, OpenedOnceStep DEF AnswersOK, RowsOK
<1>1. ASSUME RowsKept, NEW q \in Requests, req'[q] = req[q] PROVE Knows(req[q])'
  BY <1>0, <1>1, TakesUp DEF AllKnow
<1>2. CASE \E q \in Requests : RequestStep(q)
  <2>1. PICK q \in Requests : RequestStep(q) BY <1>2
  <2>2. RowsOK' /\ RowsKept /\ Knows(req[q])' BY <1>0, <2>1, RequestKnows
  <2>3. \A p \in Requests \ {q} : req'[p] = req[p] BY <2>1, RequestsApart
  <2>4. AllKnow' BY <1>1, <2>2, <2>3 DEF AllKnow
  <2>5. QED BY <1>0, <2>2, <2>4 DEF AnswersOK
<1>3. CASE ~\E q \in Requests : RequestStep(q)
  <2>1. RowsKept /\ NoneNew
    BY <1>0, <1>3, WaitRows, QuietRows DEF Next, RequestStep, WaitStep
  <2>2. RowsOK' BY <1>0, <2>1, RowsOKStays
  <2>3. ASSUME NEW q \in Requests PROVE Knows(req[q])'
    <3>1. CASE req'[q] = req[q] BY <1>1, <2>1, <3>1
    <3>2. CASE req'[q] = Done(req[q], "dropped")
      <4>1. req[q] \in Request BY DEF Inv, ReqTypes
      <4>2. Knows(req'[q]) BY <3>2, <4>1, GoneKnows
      <4>3. QED BY <1>0, <2>1, <4>2, TakesUp
    <3>3. QED BY <1>3, <3>1, <3>2, RequestsDropped
  <2>4. QED BY <1>0, <2>2, <2>3 DEF AnswersOK, AllKnow
<1>4. QED BY <1>2, <1>3

LEMMA AnswersAlways == Spec => []AnswersOK
<1>1. Init => AnswersOK
  BY DEF Init, AnswersOK, RowsOK, Unique, Behind, Apart, Rows, AllKnow, Knows, Joining, Fresh,
         OpenedOnce
<1>2. QED BY <1>1, InvAlways, AnswersStep, PTL DEF Spec

\* An agent that joins again, after a disconnect, a lost race or a restart, is
\* answered with the handle it had, unless a prune has deleted it.
THEOREM AgentOne == Spec => []AgentIsOne
<1>1. Inv /\ AnswersOK => AgentIsOne
  <2> SUFFICES ASSUME Inv, AnswersOK, NEW p \in Requests, NEW q \in Requests,
                      HasJoined(p), HasJoined(q), req[p].room = req[q].room,
                      req[p].label = req[q].label,
                      req[p].handle \notin lost, req[q].handle \notin lost
               PROVE  req[p].handle = req[q].handle
    BY DEF AgentIsOne
  <2> DEFINE h == req[p].handle
             k == req[q].handle
             l == req[p].label
  <2>1. /\ h \in Rows /\ k \in Rows /\ row[h].room = row[k].room
        /\ l \in {row[h].instance, h} /\ l \in {row[k].instance, k}
    BY DEF AnswersOK, AllKnow, Knows, HasJoined
  <2>2. h \in Handles \ lost /\ k \in Handles \ lost
    BY <2>1 DEF Inv, RowTypes
  <2>3. CASE row[h].instance = l /\ row[k].instance = l
    BY <2>1, <2>3 DEF AnswersOK, RowsOK, Unique
  <2>4. CASE l = h /\ row[k].instance = l
    BY <2>1, <2>2, <2>4 DEF AnswersOK, RowsOK, Apart
  <2>5. CASE l = k /\ row[h].instance = l
    BY <2>1, <2>2, <2>5 DEF AnswersOK, RowsOK, Apart
  <2>6. QED BY <2>1, <2>3, <2>4, <2>5
<1>2. QED BY <1>1, InvAlways, AnswersAlways, PTL

\* Nobody is answered with somebody else's id or handle.
THEOREM AnswerMine == Spec => []AnswerIsMine
<1>1. AnswersOK => AnswerIsMine
  BY DEF AnswersOK, AllKnow, Knows, OpenedOnce, AnswerIsMine, HasJoined, InRoom
<1>2. QED BY <1>1, AnswersAlways, PTL

\* What a join has shown no later wait delivers: it lies behind the cursor.
THEOREM ShownNotDelivered == Spec => []ShownIsNotDelivered
<1>1. AnswersOK => ShownIsNotDelivered
  BY DEF AnswersOK, AllKnow, Knows, ShownIsNotDelivered, HasJoined
<1>2. QED BY <1>1, AnswersAlways, PTL
=============================================================================
