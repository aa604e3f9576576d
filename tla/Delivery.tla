------------------------------ MODULE Delivery ------------------------------
(***************************************************************************)
(* How messages of one room reach the participants: the message log, the   *)
(* read cursors, the hub's content-free pings, and the long-poll that ties *)
(* them together (wait_room and wait_for_message_until).                   *)
(*                                                                         *)
(* A wait reads the room, subscribes to the hub, and then alternates       *)
(* between claiming (read the cursor, find the next message, move the      *)
(* cursor with a compare-and-swap) and parking until a ping or the         *)
(* deadline.  A request changes the room first and rings the hub last.     *)
(* Every step is one database call or one hub operation; anything may run  *)
(* between two of them, several waits of one handle included, and a        *)
(* handler whose client hangs up stops at the step it had reached.         *)
(*                                                                         *)
(* The room's six states are folded to open or halted (paused, closed,     *)
(* archived), and `votes` stands for either kind of pending vote; ghosts   *)
(* and quorums are Consensus, the states themselves RoomLifecycle.         *)
(***************************************************************************)
EXTENDS Integers, Sequences, FiniteSets

CONSTANTS
  Participants,  \* handles
  Everyone,      \* the recipient of a broadcast
  Requests,      \* identities of requests; each arrives at most once
  Kinds,         \* bound: the kinds of request that arrive, and "archive"
  Waits,         \* polling clients; each runs one wait at a time
  Open,          \* the value of `halt` when the room is not halted
  Sweeper,       \* the value of `halt` when the sweeper archived the room
  Nobody,        \* no handle
  ChannelSize,   \* capacity of a hub channel (16)
  MaxDrops,      \* bound: handlers dropped by a disconnect
  MaxPrunes      \* bound: participants pruned

AllKinds == {"msg", "blocker", "vote", "pause", "wake", "close", "archive"}

ASSUME DeliveryAssumption ==
  /\ Everyone \notin Participants /\ Nobody \notin Participants
  /\ Open \notin Requests /\ Sweeper \notin Requests /\ Open # Sweeper
  /\ Kinds \subseteq AllKinds
  /\ ChannelSize \in Nat \ {0} /\ MaxDrops \in Nat /\ MaxPrunes \in Nat

VARIABLES
  log, cursor,           \* the messages and participants tables
  halt,                  \* what halted the room: Open, a request, the Sweeper
  votes,                 \* participants with a pending close or extend vote
  start, left,           \* joins in progress with their start_seq; pruned
  kind, by, to, rpc, msg, \* requests; msg is the seq of the message stored
  who, wpc, zero, told, cur, got, pings,  \* waits
  base, delivered, lost, last, \* history: where each cursor started, the fate
                               \* of each claim, the last seq a client was given
  drops                  \* handlers dropped so far

reqVars  == <<kind, by, to, rpc, msg>>
waitVars == <<who, wpc, zero, told, cur, got, pings>>
history  == <<base, delivered, lost, last>>
room     == <<log, halt, votes>>
roster   == <<cursor, start, left>>
vars == <<room, roster, reqVars, waitVars, history, drops>>

Roster == DOMAIN cursor

Inboxes == INSTANCE Inbox

Addressed(m, p) == Inboxes!Addressed(m, p)

Extend(f, p, v) == [q \in DOMAIN f \cup {p} |-> IF q = p THEN v ELSE f[q]]
Without(f, p) == [q \in DOMAIN f \ {p} |-> f[q]]

Init ==
  /\ log = <<>> /\ halt = Open /\ votes = {}
  /\ cursor = [p \in {} |-> 0] /\ start = [p \in {} |-> 0] /\ left = {}
  /\ kind = [s \in Requests |-> "msg"] /\ by = [s \in Requests |-> Nobody]
  /\ to = [s \in Requests |-> Everyone]
  /\ rpc = [s \in Requests |-> "unborn"] /\ msg = [s \in Requests |-> 0]
  /\ who = [w \in Waits |-> Nobody] /\ wpc = [w \in Waits |-> "idle"]
  /\ zero = [w \in Waits |-> FALSE] /\ told = [w \in Waits |-> FALSE]
  /\ cur = [w \in Waits |-> 0] /\ got = [w \in Waits |-> 0]
  /\ pings = [w \in Waits |-> 0]
  /\ base = [p \in Participants |-> 0]
  /\ delivered = [p \in Participants |-> {}] /\ lost = [p \in Participants |-> {}]
  /\ last = [w \in Waits |-> 0]
  /\ drops = 0

-----------------------------------------------------------------------------
(* Joining and pruning.                                                    *)

\* Mutant: the start cursor is the seq the next message will get.
JoinReadAhead(p) ==
  /\ p \notin Roster \cup left \cup DOMAIN start
  /\ start' = Extend(start, p, Len(log) + 1)
  /\ UNCHANGED <<room, cursor, left, reqVars, waitVars, history, drops>>

\* join_room reads current_seq first ...
JoinRead(p) ==
  /\ p \notin Roster \cup left \cup DOMAIN start
  /\ start' = Extend(start, p, Len(log))
  /\ UNCHANGED <<room, cursor, left, reqVars, waitVars, history, drops>>

\* ... and inserts the row with that cursor later.
JoinInsert(p) ==
  /\ p \in DOMAIN start
  /\ cursor' = Extend(cursor, p, start[p])
  /\ base' = [base EXCEPT ![p] = start[p]]
  /\ start' = Without(start, p)
  /\ UNCHANGED <<room, left, reqVars, waitVars, delivered, lost, last, drops>>

\* prune_room deletes a participant that has not polled for GHOST_AFTER, far
\* longer than any wait lasts; its next join mints a new handle.
Prune(p) ==
  /\ p \in Roster
  /\ Cardinality(left) < MaxPrunes
  /\ \A w \in Waits : who[w] = p => wpc[w] = "idle"
  /\ cursor' = Without(cursor, p)
  /\ votes' = votes \ {p}
  /\ left' = left \cup {p}
  /\ UNCHANGED <<log, halt, start, reqVars, waitVars, history, drops>>

-----------------------------------------------------------------------------
(* Requests that ring the hub: change the room, then notify.               *)

RGoto(s, l) == rpc' = [rpc EXCEPT ![s] = l]

\* A room halted by the sweeper or by a close stays so; a pause is woken.
Paused == halt \in Requests /\ kind[halt] \in {"pause", "blocker"}
Closed == halt # Open /\ ~Paused

\* The guards that look at the room as it was read.
Admits(k) ==
  /\ k \in {"msg", "blocker", "pause"} => halt = Open
  /\ k = "wake" => Paused
  /\ k \in {"vote", "close"} => ~Closed

Arrive(s, k, p, q) ==
  /\ rpc[s] = "unborn"
  /\ Admits(k)
  /\ p \in Roster
  /\ q \in Roster \cup {Everyone} /\ (k # "msg" => q = Everyone)
  /\ kind' = [kind EXCEPT ![s] = k]
  /\ by' = [by EXCEPT ![s] = p]
  /\ to' = [to EXCEPT ![s] = q]
  /\ RGoto(s, IF k = "msg" THEN "insert" ELSE "act")
  /\ UNCHANGED <<room, roster, msg, waitVars, history, drops>>

\* create_message_capped, create_message_typed: seq is the row's position.
Insert(s) ==
  /\ rpc[s] = "insert"
  /\ log' = Append(log, [from |-> by[s], to |-> to[s]])
  /\ msg' = [msg EXCEPT ![s] = Len(log) + 1]
  /\ RGoto(s, IF kind[s] = "msg" THEN "clear" ELSE "notify")
  /\ UNCHANGED <<halt, votes, roster, kind, by, to, waitVars, history, drops>>

\* close_room and extend_room below quorum: the vote of a caller still on the
\* roster.
Vote(s) ==
  /\ rpc[s] = "act" /\ kind[s] = "vote"
  /\ votes' = votes \cup ({by[s]} \cap Roster)
  /\ RGoto(s, "notify")
  /\ UNCHANGED <<log, halt, roster, kind, by, to, msg, waitVars, history, drops>>

\* The CAS of the other requests takes effect ...
Commit(s) ==
  /\ rpc[s] = "act" /\ kind[s] # "vote"
  /\ Admits(kind[s])
  /\ halt' = IF kind[s] = "wake" THEN Open ELSE s
  /\ RGoto(s, IF kind[s] = "blocker" THEN "insert"
              ELSE IF kind[s] = "close" THEN "clear" ELSE "notify")
  /\ UNCHANGED <<log, votes, roster, kind, by, to, msg, waitVars, history, drops>>

\* ... or misses, a 409 unless it was a close and the room is closed anyway.
CommitMiss(s) ==
  /\ rpc[s] = "act" /\ kind[s] # "vote"
  /\ RGoto(s, IF kind[s] = "close" /\ Closed THEN "clear" ELSE "done")
  /\ UNCHANGED <<room, roster, kind, by, to, msg, waitVars, history, drops>>

\* A message retracts its sender's votes; a close clears them all.
Clear(s) ==
  /\ rpc[s] = "clear"
  /\ votes' = IF kind[s] = "close" THEN {} ELSE votes \ {by[s]}
  /\ RGoto(s, "notify")
  /\ UNCHANGED <<log, halt, roster, kind, by, to, msg, waitVars, history, drops>>

\* Waits that hold a receiver of the room's channel.
Subscribed == {w \in Waits : wpc[w] \in {"read", "find", "cas", "check", "parked"}}

\* Mutant: notify wakes only the waiters that are parked at that moment.
NotifyParked(s) ==
  /\ rpc[s] = "notify"
  /\ pings' = [w \in Waits |-> IF wpc[w] = "parked" /\ pings[w] <= ChannelSize
                               THEN pings[w] + 1 ELSE pings[w]]
  /\ RGoto(s, "done")
  /\ UNCHANGED <<room, roster, kind, by, to, msg, who, wpc, zero, told, cur, got,
                 history, drops>>

\* Hub::notify.  A receiver that overflows keeps ChannelSize pings and one
\* Lagged in front of them, which wait_for_message_until treats as a ping.
Notify(s) ==
  /\ rpc[s] = "notify"
  /\ pings' = [w \in Waits |-> IF w \in Subscribed /\ pings[w] <= ChannelSize
                               THEN pings[w] + 1 ELSE pings[w]]
  /\ RGoto(s, "done")
  /\ UNCHANGED <<room, roster, kind, by, to, msg, who, wpc, zero, told, cur, got,
                 history, drops>>

\* The client disconnects: what it has written stays, nothing more happens.
DropRequest(s) ==
  /\ rpc[s] \notin {"unborn", "done", "dropped"}
  /\ drops < MaxDrops
  /\ drops' = drops + 1
  /\ RGoto(s, "dropped")
  /\ UNCHANGED <<room, roster, kind, by, to, msg, waitVars, history>>

\* The sweeper archives a stale room, and rings nobody.
Archive ==
  /\ "archive" \in Kinds
  /\ halt = Open
  /\ halt' = Sweeper
  /\ UNCHANGED <<log, votes, roster, reqVars, waitVars, history, drops>>

-----------------------------------------------------------------------------
(* The long poll.                                                          *)

WGoto(w, l) == wpc' = [wpc EXCEPT ![w] = l]

\* A finished wait keeps nothing but its client's handle.
Rest(w) ==
  /\ WGoto(w, "idle")
  /\ zero' = [zero EXCEPT ![w] = FALSE] /\ told' = [told EXCEPT ![w] = FALSE]
  /\ cur' = [cur EXCEPT ![w] = 0] /\ got' = [got EXCEPT ![w] = 0]
  /\ pings' = [pings EXCEPT ![w] = 0]

\* wait_room reads the room and resolves the caller.  A halted room is drained
\* with a zero deadline, and that state is what an empty drain reports.
Enter(w, p) ==
  /\ wpc[w] = "idle"
  /\ who[w] \in {Nobody, p}
  /\ p \in Roster
  /\ who' = [who EXCEPT ![w] = p]
  /\ zero' = [zero EXCEPT ![w] = halt # Open]
  /\ told' = [told EXCEPT ![w] = halt # Open]
  /\ WGoto(w, IF halt # Open THEN "subscribe" ELSE "gate")
  /\ UNCHANGED <<room, roster, reqVars, cur, got, pings, history, drops>>

\* has_counterpart: a lone participant is answered at once.
Alone(w) ==
  /\ wpc[w] = "gate"
  /\ Roster \ {who[w]} = {}
  /\ Rest(w)
  /\ UNCHANGED <<room, roster, reqVars, who, history, drops>>

\* A vote by somebody else that this caller has not answered.
Proposed(p) == votes \ {p} # {} /\ p \notin votes

\* The deadline: zero behind a proposal or a silent counterpart.
Gate(w) ==
  /\ wpc[w] = "gate"
  /\ Roster \ {who[w]} # {}
  /\ \E z \in BOOLEAN : /\ Proposed(who[w]) => z
                        /\ zero' = [zero EXCEPT ![w] = z]
  /\ WGoto(w, "subscribe")
  /\ UNCHANGED <<room, roster, reqVars, who, told, cur, got, pings, history, drops>>

\* touch_last_poll, then Hub::subscribe: only later pings are received.
Subscribe(w) ==
  /\ wpc[w] = "subscribe"
  /\ WGoto(w, "read")
  /\ UNCHANGED <<room, roster, reqVars, who, zero, told, cur, got, pings, history, drops>>

\* claim_next_unread, first call: read_cursor.
ReadCursor(w) ==
  /\ wpc[w] = "read"
  /\ cur' = [cur EXCEPT ![w] = cursor[who[w]]]
  /\ WGoto(w, "find")
  /\ UNCHANGED <<room, roster, reqVars, who, zero, told, got, pings, history, drops>>

\* Mutant: the newest unread message instead of the oldest.
FindNewest(w) ==
  /\ wpc[w] = "find"
  /\ LET unread == {i \in cur[w] + 1 .. Len(log) : Addressed(log[i], who[w])}
     IN  \/ \E i \in unread : /\ \A j \in unread : j <= i
                              /\ got' = [got EXCEPT ![w] = i]
                              /\ WGoto(w, "cas") /\ UNCHANGED cur
         \/ unread = {} /\ WGoto(w, "check") /\ UNCHANGED got /\ cur' = [cur EXCEPT ![w] = 0]
  /\ UNCHANGED <<room, roster, reqVars, who, zero, told, pings, history, drops>>

\* Second call: next_unread, the oldest message after the cursor just read.
FindNext(w) ==
  /\ wpc[w] = "find"
  /\ \/ \E i \in 1 .. Len(log) :
          /\ Inboxes!IsNext(log, who[w], cur[w], i)
          /\ got' = [got EXCEPT ![w] = i]
          /\ WGoto(w, "cas")
          /\ UNCHANGED cur
     \/ /\ \A i \in cur[w] + 1 .. Len(log) : ~Addressed(log[i], who[w])
        /\ WGoto(w, "check")
        /\ cur' = [cur EXCEPT ![w] = 0]
        /\ UNCHANGED got
  /\ UNCHANGED <<room, roster, reqVars, who, zero, told, pings, history, drops>>

\* Mutant: the UPDATE without its `AND last_read_seq = ?`.
AdvanceUnguarded(w) ==
  /\ wpc[w] = "cas"
  /\ cursor' = [cursor EXCEPT ![who[w]] = got[w]]
  /\ cur' = [cur EXCEPT ![w] = 0]
  /\ WGoto(w, "answer")
  /\ UNCHANGED <<room, start, left, reqVars, who, zero, told, got, pings,
                 history, drops>>

\* Third call: the compare-and-swap of the cursor succeeds ...
Advance(w) ==
  /\ wpc[w] = "cas"
  /\ cursor[who[w]] = cur[w]
  /\ cursor' = [cursor EXCEPT ![who[w]] = got[w]]
  /\ cur' = [cur EXCEPT ![w] = 0]
  /\ WGoto(w, "answer")
  /\ UNCHANGED <<room, start, left, reqVars, who, zero, told, got, pings,
                 history, drops>>

\* ... or another wait of this handle moved it first: start over.
AdvanceMiss(w) ==
  /\ wpc[w] = "cas"
  /\ cursor[who[w]] # cur[w]
  /\ cur' = [cur EXCEPT ![w] = 0] /\ got' = [got EXCEPT ![w] = 0]
  /\ WGoto(w, "read")
  /\ UNCHANGED <<room, roster, reqVars, who, zero, told, pings, history, drops>>

\* wait_relevant_change.
Yields(p) == halt # Open \/ Proposed(p)

\* Nothing to claim: give up at the deadline or on a relevant change, else park.
Check(w) ==
  /\ wpc[w] = "check"
  /\ WGoto(w, IF zero[w] \/ Yields(who[w]) THEN "report" ELSE "parked")
  /\ UNCHANGED <<room, roster, reqVars, who, zero, told, cur, got, pings, history, drops>>

\* recv returns a ping, or Lagged.
Wake(w) ==
  /\ wpc[w] = "parked"
  /\ pings[w] > 0
  /\ pings' = [pings EXCEPT ![w] = @ - 1]
  /\ WGoto(w, "read")
  /\ UNCHANGED <<room, roster, reqVars, who, zero, told, cur, got, history, drops>>

\* Mutant: the elapsed deadline continues the loop behind the claim.
ExpireReparks(w) ==
  /\ wpc[w] = "parked"
  /\ pings[w] = 0
  /\ WGoto(w, "check")
  /\ UNCHANGED <<room, roster, reqVars, who, zero, told, cur, got, pings, history, drops>>

\* The deadline passes with no ping to receive; there is no last claim.
Expire(w) ==
  /\ wpc[w] = "parked"
  /\ pings[w] = 0
  /\ WGoto(w, "report")
  /\ UNCHANGED <<room, roster, reqVars, who, zero, told, cur, got, pings, history, drops>>

\* timeout_response: the room's state is read again for the status reported.
Report(w) ==
  /\ wpc[w] = "report"
  /\ Rest(w)
  /\ UNCHANGED <<room, roster, reqVars, who, history, drops>>

\* The claimed message reaches the client.
Answer(w) ==
  /\ wpc[w] = "answer"
  /\ delivered' = [delivered EXCEPT ![who[w]] = @ \cup {got[w]}]
  /\ last' = [last EXCEPT ![w] = got[w]]
  /\ Rest(w)
  /\ UNCHANGED <<room, roster, reqVars, who, base, lost, drops>>

\* The client disconnects; a message claimed for it is gone with it.
DropWait(w) ==
  /\ wpc[w] # "idle"
  /\ drops < MaxDrops
  /\ drops' = drops + 1
  /\ lost' = IF wpc[w] = "answer" THEN [lost EXCEPT ![who[w]] = @ \cup {got[w]}] ELSE lost
  /\ Rest(w)
  /\ UNCHANGED <<room, roster, reqVars, who, base, delivered, last>>

-----------------------------------------------------------------------------

Handle(s) ==
  \/ Insert(s) \/ Vote(s) \/ Commit(s) \/ CommitMiss(s) \/ Clear(s) \/ Notify(s)

Claim(w) == ReadCursor(w) \/ FindNext(w) \/ Advance(w) \/ AdvanceMiss(w)

Poll(w) ==
  \/ Alone(w) \/ Gate(w) \/ Subscribe(w) \/ Claim(w) \/ Check(w)
  \/ Wake(w) \/ Expire(w) \/ Report(w) \/ Answer(w)

Membership(p) == JoinRead(p) \/ JoinInsert(p) \/ Prune(p)

Next ==
  \/ \E p \in Participants : Membership(p)
  \/ \E s \in Requests, k \in Kinds \ {"archive"}, p \in Participants, q \in Participants \cup {Everyone} :
       Arrive(s, k, p, q)
  \/ \E s \in Requests : Handle(s) \/ DropRequest(s)
  \/ Archive
  \/ \E w \in Waits, p \in Participants : Enter(w, p)
  \/ \E w \in Waits : Poll(w) \/ DropWait(w)

Spec == Init /\ [][Next]_vars

(***************************************************************************)
(* The daemon runs the handlers it has accepted, a park ends at its cap,   *)
(* and a polling client re-arms: it calls wait again after every answer.   *)
(* Nobody has to join, to send or to stay connected.                       *)
(***************************************************************************)
Fairness ==
  /\ \A s \in Requests : WF_vars(Handle(s))
  /\ \A w \in Waits : WF_vars(Poll(w)) /\ WF_vars(\E p \in Participants : Enter(w, p))

FairSpec == Spec /\ Fairness

-----------------------------------------------------------------------------
(* Properties.                                                             *)

RoomTypes ==
  /\ log \in Seq(Inboxes!Message)
  /\ halt \in Requests \cup {Open, Sweeper}
  /\ votes \subseteq Participants
  /\ Roster \subseteq Participants /\ cursor \in [Roster -> 0 .. Len(log)]
  /\ DOMAIN start \subseteq Participants /\ start \in [DOMAIN start -> 0 .. Len(log)]
  /\ left \subseteq Participants

RequestTypes ==
  /\ kind \in [Requests -> AllKinds]
  /\ by \in [Requests -> Participants \cup {Nobody}]
  /\ to \in [Requests -> Participants \cup {Everyone}]
  /\ rpc \in [Requests -> {"unborn", "insert", "act", "clear", "notify", "done", "dropped"}]
  /\ msg \in [Requests -> 0 .. Len(log)]

WaitTypes ==
  /\ who \in [Waits -> Participants \cup {Nobody}]
  /\ wpc \in [Waits -> {"idle", "gate", "subscribe", "read", "find", "cas", "check",
                        "parked", "report", "answer"}]
  /\ zero \in [Waits -> BOOLEAN] /\ told \in [Waits -> BOOLEAN]
  /\ cur \in [Waits -> 0 .. Len(log)] /\ got \in [Waits -> 0 .. Len(log)]
  /\ pings \in [Waits -> 0 .. ChannelSize + 1]

HistoryTypes ==
  /\ base \in [Participants -> 0 .. Len(log)]
  /\ delivered \in [Participants -> SUBSET (1 .. Len(log))]
  /\ lost \in [Participants -> SUBSET (1 .. Len(log))]
  /\ last \in [Waits -> 0 .. Len(log)]
  /\ drops \in 0 .. MaxDrops

TypeOK == RoomTypes /\ RequestTypes /\ WaitTypes /\ HistoryTypes

\* The messages between where p's cursor started and where it stands.
Taken(p) == {i \in base[p] + 1 .. cursor[p] : Addressed(log[i], p)}

Unread(p) == {i \in cursor[p] + 1 .. Len(log) : Addressed(log[i], p)}

Holding(p) == {w \in Waits : wpc[w] = "answer" /\ who[w] = p}

\* Every message a cursor has passed has exactly one fate, however many waits
\* of the handle race for it: it was delivered, or one wait is about to deliver
\* it, or the client of the wait that claimed it hung up (claim_next_unread).
OneFate ==
  \A p \in Roster :
    /\ Taken(p) = delivered[p] \cup {got[w] : w \in Holding(p)} \cup lost[p]
    /\ delivered[p] \cap lost[p] = {}
    /\ \A w \in Holding(p) : got[w] \notin delivered[p] \cup lost[p]
    /\ \A v, w \in Holding(p) : got[v] = got[w] => v = w

\* Whatever a client is about to be given is newer than all it was given before,
\* even while other clients of its handle take some of the messages and its own
\* participant joins, is pruned or claims again (claim_next_unread).
ClientSeesOrder == \A w \in Waits : wpc[w] = "answer" => got[w] > last[w]

\* No lost wakeup: a parked wait that has something to react to, a message for
\* it, a halt, a vote, has a ping waiting or a request that is still to ring
\* (or was cut off before it rang).  Only the sweeper's archive rings nobody.
NoLostWakeup ==
  \A w \in Waits :
    wpc[w] = "parked" /\ pings[w] = 0 =>
      /\ \A i \in Unread(who[w]) :
           \E s \in Requests : msg[s] = i /\ rpc[s] \in {"clear", "notify", "dropped"}
      /\ halt \in Requests => rpc[halt] \in {"insert", "clear", "notify", "dropped"}
      /\ Proposed(who[w]) =>
           \E s \in Requests :
             /\ rpc[s] \in {"notify", "dropped"}
             /\ \/ kind[s] = "vote" /\ by[s] # who[w]
                \/ kind[s] = "msg" /\ by[s] = who[w]

\* The racing claims implement one atomic step of the cursor.
ImplementsInbox == Inboxes!ISpec

\* A stored message is claimed by its addressee's client, whatever pings were
\* lost with a dropped request: the next wait, or the park's cap, finds it.
\* (A participant who is alone on the roster is turned away before the claim.)
Stored(p, i) == p \in Roster /\ i \in Unread(p) /\ \E w \in Waits : who[w] = p

EventuallyClaimed ==
  \A p \in Participants, i \in 1 .. Cardinality(Requests) :
    Stored(p, i) ~> (p \in Roster => i \notin Unread(p) \/ Roster = {p})
=============================================================================
