------------------------------- MODULE Roster -------------------------------
(***************************************************************************)
(* Who is in which room: open_room and join_room with their retries        *)
(* against the unique indexes, prune, and the presence registry that       *)
(* counts the long polls each handle has open.                             *)
(*                                                                         *)
(* A handle is a random mint and a primary key over all rooms, but the     *)
(* mint looks only at the handles of its own room.  An agent is known by   *)
(* the label it sends: its instance, or the handle it was answered with.   *)
(* A handler's database calls take no time; between any two of them other  *)
(* handlers run.  Nicknames are display data and left out.                 *)
(***************************************************************************)
EXTENDS Integers, FiniteSets, Functions

CONSTANTS
  Requests,     \* requests to open or to join, each sent once
  Idents,       \* the instances that agents present
  Handles,      \* the handles the random mint can produce
  Waits,        \* the long polls there can be at a time
  Nobody,
  MaxAttempts,  \* MAX_ATTEMPTS, of open and of join
  MaxHead,      \* bound: messages per room
  Grace,        \* DEFAULT_GRACE
  Cap,          \* the server's cap on a long poll
  GhostAfter    \* GHOST_AFTER

ASSUME RosterAssumption ==
  /\ Idents \cap Handles = {} /\ Nobody \notin Idents \cup Handles
  /\ MaxAttempts \in Nat \ {0} /\ MaxHead \in Nat /\ Grace \in Nat
  /\ Cap \in Nat /\ GhostAfter \in Nat /\ Cap < GhostAfter
  /\ IsFiniteSet(Waits)

\* The ids open_room tries for one subject and minute: base, base-2, ...
Rooms  == 1 .. MaxAttempts
Labels == Idents \cup Handles

VARIABLES
  rooms,  \* the rooms there are
  head,   \* the highest message number of each
  row,    \* the participants table: handle -> room, instance, cursor, age
  req,    \* the requests, with the locals of their handlers
  wait,   \* the long polls
  entry,  \* the presence map: handle -> open guards, age of the last release
  gone,   \* history: time since the last guard of a handle was dropped
  lost    \* history: the handles that a prune has deleted

vars == <<rooms, head, row, req, wait, entry, gone, lost>>

Fresh == [pc |-> "idle", room |-> 1, label |-> Nobody, start |-> 0,
          handle |-> Nobody, tries |-> 0, how |-> "none", upto |-> 0]
Away  == [pc |-> "away", handle |-> Nobody, left |-> 0]

\* A first room has been opened; nobody has joined it.
Init ==
  /\ rooms = {1} /\ head = [r \in Rooms |-> 0]
  /\ row = [h \in {} |-> <<>>]
  /\ req = [q \in Requests |-> Fresh]
  /\ wait = [w \in Waits |-> Away]
  /\ entry = [h \in {} |-> <<>>]
  /\ gone = [h \in Handles |-> Grace + 1]
  /\ lost = {}

Rows == DOMAIN row
InRoom(r) == {h \in Rows : row[h].room = r}

\* get_participant_by_instance, as the set of the rows it finds.
ByInstance(r, l) == {h \in InRoom(r) : row[h].instance = l}

SetReq(q, x) == req' = [req EXCEPT ![q] = x]

\* The handler ends, and with it its locals; what it has answered stays.
Done(x, how) ==
  IF how \in {"error", "dropped"}
  THEN [Fresh EXCEPT !.pc = "done", !.how = how]
  ELSE [x EXCEPT !.pc = "done", !.how = how, !.start = 0, !.tries = 0]

-----------------------------------------------------------------------------
(* open_room.                                                              *)

OpenArrive(q) ==
  /\ req[q].pc = "idle"
  /\ SetReq(q, [req[q] EXCEPT !.pc = "open"])
  /\ UNCHANGED <<rooms, head, row, wait, entry, gone, lost>>

\* Mutant: the attempts are not counted.
OpenTryOn(q) ==
  /\ req[q].pc = "open"
  /\ IF req[q].room \notin rooms
     THEN rooms' = rooms \cup {req[q].room} /\ SetReq(q, Done(req[q], "opened"))
     ELSE UNCHANGED rooms /\ SetReq(q, [req[q] EXCEPT !.room = @ + 1])
  /\ UNCHANGED <<head, row, wait, entry, gone, lost>>

\* create_room under the next id.
OpenTry(q) ==
  /\ req[q].pc = "open"
  /\ \/ /\ req[q].room \notin rooms
        /\ rooms' = rooms \cup {req[q].room}
        /\ SetReq(q, Done(req[q], "opened"))
     \/ /\ req[q].room \in rooms
        /\ SetReq(q, IF req[q].room < MaxAttempts
                     THEN [req[q] EXCEPT !.room = @ + 1] ELSE Done(req[q], "error"))
        /\ UNCHANGED rooms
  /\ UNCHANGED <<head, row, wait, entry, gone, lost>>

-----------------------------------------------------------------------------
(* join_room.                                                              *)

\* What agents have been told about themselves.
Answered == {req[q].handle : q \in {p \in Requests : req[p].how \in {"created", "resumed"}}}

\* get_room, current_seq.
JoinArrive(q, r, l) ==
  /\ req[q].pc = "idle" /\ r \in rooms
  /\ l \in Idents \cup Answered
  /\ SetReq(q, [req[q] EXCEPT !.pc = "find", !.room = r, !.label = l,
                              !.start = head[r]])
  /\ UNCHANGED <<rooms, head, row, wait, entry, gone, lost>>

\* Mutant: everything the room has is shown.
ResumedHead(q, h) ==
  SetReq(q, Done([req[q] EXCEPT !.handle = h, !.upto = head[req[q].room]], "resumed"))

\* The resumed row's cursor bounds the messages shown with the answer.
Resumed(q, h) ==
  SetReq(q, Done([req[q] EXCEPT !.handle = h, !.upto = row[h].cursor], "resumed"))

\* resolve_participant: by instance, then by handle.
FindInstance(q) ==
  /\ req[q].pc = "find"
  /\ LET found == ByInstance(req[q].room, req[q].label)
     IN  \/ \E h \in found : Resumed(q, h)
         \/ found = {} /\ SetReq(q, [req[q] EXCEPT !.pc = "handle"])
  /\ UNCHANGED <<rooms, head, row, wait, entry, gone, lost>>

FindHandle(q) ==
  /\ req[q].pc = "handle"
  /\ IF req[q].label \in InRoom(req[q].room)
     THEN Resumed(q, req[q].label)
     ELSE SetReq(q, [req[q] EXCEPT !.pc = "list"])
  /\ UNCHANGED <<rooms, head, row, wait, entry, gone, lost>>

\* list_participants and derive_handle.
List(q) ==
  /\ req[q].pc = "list"
  /\ LET found == ByInstance(req[q].room, req[q].label)
     IN  \/ \E h \in found : SetReq(q, [req[q] EXCEPT !.pc = "cursor", !.handle = h])
         \/ /\ found = {}
            /\ \E h \in Handles \ InRoom(req[q].room) :
                 SetReq(q, [req[q] EXCEPT !.pc = "insert", !.handle = h, !.tries = @ + 1])
  /\ UNCHANGED <<rooms, head, row, wait, entry, gone, lost>>

\* HandleOutcome::Reused: the cursor of the row, if it is still there.
Cursor(q) ==
  /\ req[q].pc = "cursor"
  /\ LET found == ByInstance(req[q].room, req[q].label)
         upto == IF found = {} THEN req[q].start ELSE row[CHOOSE h \in found : TRUE].cursor
     IN  SetReq(q, Done([req[q] EXCEPT !.upto = upto], "resumed"))
  /\ UNCHANGED <<rooms, head, row, wait, entry, gone, lost>>

Joined(q) ==
  [h \in Rows \cup {req[q].handle} |->
     IF h \in Rows THEN row[h]
     ELSE [room |-> req[q].room, instance |-> req[q].label, cursor |-> req[q].start,
           age |-> 0]]

\* Mutant: the index on the instance is missing.
InsertAgain(q) ==
  /\ req[q].pc = "insert"
  /\ req[q].handle \notin Rows
  /\ row' = Joined(q)
  /\ SetReq(q, Done([req[q] EXCEPT !.upto = req[q].start], "created"))
  /\ UNCHANGED <<rooms, head, wait, entry, gone, lost>>

\* create_participant, against the primary key and the index on the instance.
Insert(q) ==
  /\ req[q].pc = "insert"
  /\ LET free == req[q].handle \notin Rows /\ ByInstance(req[q].room, req[q].label) = {}
     IN  \/ /\ free
            /\ row' = Joined(q)
            /\ SetReq(q, Done([req[q] EXCEPT !.upto = req[q].start], "created"))
         \/ /\ ~free
            /\ SetReq(q, IF req[q].tries < MaxAttempts
                         THEN [req[q] EXCEPT !.pc = "refetch"] ELSE Done(req[q], "error"))
            /\ UNCHANGED row
  /\ UNCHANGED <<rooms, head, wait, entry, gone, lost>>

\* Mutant: whoever has the handle is taken for the winner of the race.
RefetchHandle(q) ==
  /\ req[q].pc = "refetch"
  /\ IF req[q].handle \in Rows
     THEN SetReq(q, Done([req[q] EXCEPT !.upto = row[req[q].handle].cursor], "resumed"))
     ELSE SetReq(q, [req[q] EXCEPT !.pc = "list"])
  /\ UNCHANGED <<rooms, head, row, wait, entry, gone, lost>>

\* After a violation: the winner's row, or another attempt.
Refetch(q) ==
  /\ req[q].pc = "refetch"
  /\ LET found == ByInstance(req[q].room, req[q].label)
     IN  \/ \E h \in found :
              SetReq(q, Done([req[q] EXCEPT !.handle = h, !.upto = row[h].cursor], "resumed"))
         \/ found = {} /\ SetReq(q, [req[q] EXCEPT !.pc = "list"])
  /\ UNCHANGED <<rooms, head, row, wait, entry, gone, lost>>

\* The client disconnects; what is committed stays.
Drop(q) ==
  /\ req[q].pc \notin {"idle", "done"}
  /\ SetReq(q, Done(req[q], "dropped"))
  /\ UNCHANGED <<rooms, head, row, wait, entry, gone, lost>>

-----------------------------------------------------------------------------
(* Presence.  An entry's `released` is Grace + 1 before the first release.  *)

Guards(h) == {w \in Waits : wait[w].pc = "parked" /\ wait[w].handle = h}

IsLive(h) == h \in DOMAIN entry /\ (entry[h].active > 0 \/ entry[h].released <= Grace)

Live == {h \in DOMAIN entry : IsLive(h)}

\* Mutant: only the grace window keeps an entry, not an open guard.
RetainReleased == Restrict(entry, {h \in DOMAIN entry : entry[h].released <= Grace})

\* retain_live.
RetainLive == Restrict(entry, Live)

\* Presence::enter.
Entered(h) ==
  LET kept == RetainLive
  IN  [k \in DOMAIN kept \cup {h} |->
         LET was == IF k \in DOMAIN kept THEN kept[k] ELSE [active |-> 0, released |-> Grace + 1]
         IN  IF k = h THEN [was EXCEPT !.active = @ + 1] ELSE was]

\* Presence::release, when a guard is dropped.
Released(h) ==
  IF h \in DOMAIN entry
  THEN [entry EXCEPT ![h] = [active |-> IF @.active > 0 THEN @.active - 1 ELSE 0,
                             released |-> 0]]
  ELSE entry

\* Reading poll_live for every participant of a room forgets the dead entries.
View(r) ==
  /\ r \in rooms
  /\ entry' = Restrict(entry, DOMAIN entry \ (InRoom(r) \ Live))
  /\ UNCHANGED <<rooms, head, row, req, wait, gone, lost>>

-----------------------------------------------------------------------------
(* Long polls, as far as they touch the roster.                            *)

\* wait_room resolves its caller, who knows its label.
WaitArrive(w, r, l) ==
  /\ wait[w].pc = "away" /\ r \in rooms
  /\ l \in Idents \cup Answered
  /\ \E h \in IF ByInstance(r, l) # {} THEN ByInstance(r, l) ELSE InRoom(r) \cap {l} :
       wait' = [wait EXCEPT ![w] = [pc |-> "touch", handle |-> h, left |-> Cap]]
  /\ UNCHANGED <<rooms, head, row, req, entry, gone, lost>>

\* Mutant: last_poll_at is left to the answer.
WaitEnterUntouched(w) ==
  /\ wait[w].pc = "touch"
  /\ entry' = Entered(wait[w].handle)
  /\ wait' = [wait EXCEPT ![w].pc = "parked"]
  /\ UNCHANGED <<rooms, head, row, req, gone, lost>>

\* touch_last_poll, if the row is still there, and the guard.
WaitEnter(w) ==
  /\ wait[w].pc = "touch"
  /\ LET h == wait[w].handle
     IN  /\ row' = IF h \in Rows THEN [row EXCEPT ![h].age = 0] ELSE row
         /\ entry' = Entered(h)
  /\ wait' = [wait EXCEPT ![w].pc = "parked"]
  /\ UNCHANGED <<rooms, head, req, gone, lost>>

\* The client is gone before there is a guard.
WaitDrop(w) ==
  /\ wait[w].pc = "touch"
  /\ wait' = [wait EXCEPT ![w] = Away]
  /\ UNCHANGED <<rooms, head, row, req, entry, gone, lost>>

\* The wait is answered, times out or loses its client; it may have claimed
\* what is unread.  The guard is dropped in every case.
WaitEnd(w) ==
  /\ wait[w].pc = "parked"
  /\ LET h == wait[w].handle
     IN  /\ row' \in {row} \cup {[row EXCEPT ![h].cursor = head[row[h].room]] : k \in Rows \cap {h}}
         /\ entry' = Released(h)
         /\ gone' = [gone EXCEPT ![h] = 0]
  /\ wait' = [wait EXCEPT ![w] = Away]
  /\ UNCHANGED <<rooms, head, req, lost>>

-----------------------------------------------------------------------------
(* Everything else.                                                        *)

Post(r) ==
  /\ r \in rooms /\ InRoom(r) # {} /\ head[r] < MaxHead
  /\ head' = [head EXCEPT ![r] = @ + 1]
  /\ UNCHANGED <<rooms, row, req, wait, entry, gone, lost>>

\* prune_room: prune_stale_participants.
Prune(r) ==
  /\ r \in rooms
  /\ LET stale == {h \in InRoom(r) : row[h].age > GhostAfter}
     IN  /\ stale # {}
         /\ row' = Restrict(row, Rows \ stale)
         /\ lost' = lost \cup stale
  /\ UNCHANGED <<rooms, head, req, wait, entry, gone>>

Up(n, top) == IF n < top THEN n + 1 ELSE top

\* A long poll ends at its cap, and a row is inserted with the time of its mint.
Tick ==
  /\ \A w \in Waits : wait[w].pc = "parked" => wait[w].left > 0
  /\ \A q \in Requests : req[q].pc # "insert"
  /\ row' = [h \in Rows |-> [row[h] EXCEPT !.age = Up(@, GhostAfter + 1)]]
  /\ entry' = [h \in DOMAIN entry |-> [entry[h] EXCEPT !.released = Up(@, Grace + 1)]]
  /\ gone' = [h \in Handles |-> Up(gone[h], Grace + 1)]
  /\ wait' = [w \in Waits |-> IF wait[w].pc = "parked"
                              THEN [wait[w] EXCEPT !.left = @ - 1] ELSE wait[w]]
  /\ UNCHANGED <<rooms, head, req, lost>>

\* The daemon stops and starts: the rows stay, the presence map does not.
Restart ==
  /\ req' = [q \in Requests |->
               IF req[q].pc \in {"idle", "done"} THEN req[q] ELSE Done(req[q], "dropped")]
  /\ wait' = [w \in Waits |-> Away]
  /\ entry' = [h \in {} |-> <<>>]
  /\ gone' = [h \in Handles |-> Grace + 1]
  /\ UNCHANGED <<rooms, head, row, lost>>

Handler(q) ==
  \/ OpenTry(q) \/ FindInstance(q) \/ FindHandle(q) \/ List(q)
  \/ Cursor(q) \/ Insert(q) \/ Refetch(q)

Next ==
  \/ \E q \in Requests :
       \/ OpenArrive(q) \/ Handler(q) \/ Drop(q)
       \/ \E r \in Rooms, l \in Labels : JoinArrive(q, r, l)
  \/ \E w \in Waits :
       \/ WaitEnter(w) \/ WaitDrop(w) \/ WaitEnd(w)
       \/ \E r \in Rooms, l \in Labels : WaitArrive(w, r, l)
  \/ \E r \in Rooms : View(r) \/ Post(r) \/ Prune(r)
  \/ Tick \/ Restart

Spec == Init /\ [][Next]_vars

-----------------------------------------------------------------------------
(* Properties.                                                             *)

Positions == {"idle", "open", "find", "handle", "list", "cursor",
              "insert", "refetch", "done"}
Answers == {"none", "opened", "created", "resumed", "error", "dropped"}

\* Every variable has its type; in particular no id and no attempt is used
\* beyond MAX_ATTEMPTS, and no handle or row beyond what was minted.
TypeOK ==
  /\ rooms \subseteq Rooms /\ head \in [Rooms -> 0 .. MaxHead]
  /\ Rows \subseteq Handles
  /\ row \in [Rows -> [room : Rooms, instance : Labels, cursor : 0 .. MaxHead, age : 0 .. GhostAfter + 1]]
  /\ req \in [Requests -> [pc : Positions, room : Rooms, label : Labels \cup {Nobody},
                           start : 0 .. MaxHead,
                           handle : Handles \cup {Nobody}, tries : 0 .. MaxAttempts,
                           how : Answers, upto : 0 .. MaxHead]]
  /\ wait \in [Waits -> [pc : {"away", "touch", "parked"},
                         handle : Handles \cup {Nobody}, left : 0 .. Cap]]
  /\ DOMAIN entry \subseteq Handles
  /\ entry \in [DOMAIN entry -> [active : 0 .. Cardinality(Waits), released : 0 .. Grace + 1]]
  /\ gone \in [Handles -> 0 .. Grace + 1] /\ lost \subseteq Handles

HasJoined(q) == req[q].how \in {"created", "resumed"}

\* An agent is one participant: whatever its joins race with, a disconnect and
\* a restart included, they are answered with the same handle of the same room,
\* unless a prune has deleted one of the two in the meantime.
AgentIsOne ==
  \A p, q \in Requests :
    HasJoined(p) /\ HasJoined(q) /\ req[p].room = req[q].room /\ req[p].label = req[q].label
      => req[p].handle = req[q].handle \/ {req[p].handle, req[q].handle} \cap lost # {}

\* Nobody is answered with what is somebody else's: two opens of the same subject
\* in the same minute get a room each, and the handle in the answer to a join is
\* the row of that room which carries the label, until it is pruned.
AnswerIsMine ==
  \A q \in Requests :
    /\ req[q].how = "opened" =>
         \A p \in Requests \ {q} : req[p].how = "opened" => req[p].room # req[q].room
    /\ HasJoined(q) /\ req[q].handle \notin lost =>
         /\ req[q].handle \in InRoom(req[q].room)
         /\ req[q].label \in {row[req[q].handle].instance, req[q].handle}

\* The inbox belongs to the wait: what a join shows lies behind the cursor of
\* its row, so no later wait delivers it again ("the Bug-B fix", http.rs).
ShownIsNotDelivered ==
  \A q \in Requests :
    HasJoined(q) /\ req[q].handle \in Rows \ lost => req[q].upto <= row[req[q].handle].cursor

\* poll_live tells the truth: a handle reads live exactly while a long poll of
\* it is open or ended within the grace, whoever else parks, is read or swept
\* out of the map meanwhile.
PollLiveIsTrue ==
  \A h \in Handles : IsLive(h) <=> (Guards(h) # {} \/ gone[h] <= Grace)

\* A participant with an open long poll is never pruned: the window for ghosts
\* outlasts the cap ("Live participants are never touched", http.rs).
PruneSparesParked ==
  [][\A h \in Rows : h \notin DOMAIN row' => Guards(h) = {}]_vars
=============================================================================
