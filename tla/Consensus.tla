----------------------------- MODULE Consensus -----------------------------
(***************************************************************************)
(* Closing a room and extending its message cap by consensus.  A vote is a *)
(* column of the voter's participants row; a quorum is counted over the    *)
(* participants that polled within GhostAfter.  A close request touches,   *)
(* votes, counts and then closes with four separate statements; an extend  *)
(* request does all of it in one transaction (try_extend); a message is    *)
(* stored first and takes its sender's votes back in two later statements. *)
(* Requests of different participants interleave between any two of them,  *)
(* participants join, fall silent, come back and are pruned, and a handler *)
(* whose client hangs up stops where it is.                                *)
(*                                                                         *)
(* The room is open or closed here (RoomLifecycle has all its states); a   *)
(* close that loses its CAS to some other transition is a choice.          *)
(***************************************************************************)
EXTENDS Integers, FiniteSets

CONSTANTS
  Participants,  \* handles
  Requests,      \* identities of requests; each arrives at most once
  Kinds,         \* bound: the kinds of request that arrive
  Nobody,        \* no handle
  Quorum,        \* RoomConfig.close_quorum
  InitialCap,    \* RoomConfig.hard_cap at open
  ExtendStep,    \* EXTEND_STEP
  GhostAfter,    \* a participant quiet for longer than this is a ghost
  MaxHandling,   \* how far the clock may move while a request is handled
  MaxTime,       \* bound: the clock stops here
  MaxDrops       \* bound: handlers dropped by a disconnect

AllKinds == {"msg", "close", "force", "extend"}

ASSUME ConsensusAssumption ==
  /\ IsFiniteSet(Participants) /\ Nobody \notin Participants
  /\ Kinds \subseteq AllKinds
  /\ Quorum \in {"all", "majority"}
  /\ InitialCap \in Nat /\ ExtendStep \in Nat /\ GhostAfter \in Nat
  /\ MaxHandling \in Nat /\ MaxTime \in Nat /\ MaxDrops \in Nat

VARIABLES
  closed, cap, count,       \* the room: state, hard_cap, number of `msg` rows
  lastPoll,                 \* participants: last_poll_at (partial function),
  wantsClose, wantsExtend,  \* and the rows with a pending vote
  kind, by, pc, at, seenCap, reply,  \* requests
  joined, ending, asked,    \* history: everybody who ever joined; who voted to
                            \* close and has not spoken since; who voted to
                            \* extend since the last bump
  drops, now

roomVars  == <<closed, cap, count>>
rowVars   == <<lastPoll, wantsClose, wantsExtend>>
reqVars   == <<kind, by, pc, at, seenCap, reply>>
history   == <<joined, ending, asked>>
vars == <<roomVars, rowVars, reqVars, history, drops, now>>

Roster == DOMAIN lastPoll

Init ==
  /\ closed = FALSE /\ cap = InitialCap /\ count = 0
  /\ lastPoll = [p \in {} |-> 0] /\ wantsClose = {} /\ wantsExtend = {}
  /\ kind = [s \in Requests |-> "msg"] /\ by = [s \in Requests |-> Nobody]
  /\ pc = [s \in Requests |-> "unborn"]
  /\ at = [s \in Requests |-> 0] /\ seenCap = [s \in Requests |-> 0]
  /\ reply = [s \in Requests |-> "none"]
  /\ joined = {} /\ ending = {} /\ asked = {}
  /\ drops = 0 /\ now = 0

-----------------------------------------------------------------------------
(* Quorums.                                                                *)

\* The participants a handler whose `now` is t counts as live.
LiveAt(t) == {p \in Roster : t - lastPoll[p] <= GhostAfter}

\* CloseQuorum::needed.
Needed(live) ==
  LET n == IF Quorum = "all" THEN live ELSE live \div 2 + 1
  IN  IF n > 1 THEN n ELSE 1

\* Mutant: the quorum is counted over the closer's counterparts.
AgreedOfOthers(votes, t) ==
  Cardinality(votes \cap LiveAt(t)) >= Needed(Cardinality(LiveAt(t)) - 1)

\* The live votes make the quorum of the live participants.
Agreed(votes, t) ==
  Cardinality(votes \cap LiveAt(t)) >= Needed(Cardinality(LiveAt(t)))

-----------------------------------------------------------------------------
(* The clock and the roster.                                               *)

InFlight(s) == pc[s] \notin {"unborn", "done"}

\* A handler is a few database statements; GHOST_AFTER fifteen minutes.
Tick ==
  /\ now < MaxTime
  /\ \A s \in Requests : InFlight(s) => now - at[s] < MaxHandling
  /\ now' = now + 1
  /\ UNCHANGED <<roomVars, rowVars, reqVars, history, drops>>

\* A join of a new handle, or the touch_last_poll of a wait.
Poll(p) ==
  /\ p \in Roster \/ p \notin joined
  /\ lastPoll' = [q \in Roster \cup {p} |-> IF q = p THEN now ELSE lastPoll[q]]
  /\ joined' = joined \cup {p}
  /\ UNCHANGED <<roomVars, wantsClose, wantsExtend, reqVars, ending, asked, drops, now>>

\* prune_room: all the rows that are ghosts by now go at once.
Prune ==
  /\ LiveAt(now) # Roster
  /\ lastPoll' = [q \in LiveAt(now) |-> lastPoll[q]]
  /\ wantsClose' = wantsClose \cap LiveAt(now)
  /\ wantsExtend' = wantsExtend \cap LiveAt(now)
  /\ UNCHANGED <<roomVars, reqVars, history, drops, now>>

-----------------------------------------------------------------------------
(* Requests.                                                               *)

Goto(s, l) == pc' = [pc EXCEPT ![s] = l] /\ UNCHANGED reply

Reply(s, answer) == /\ pc' = [pc EXCEPT ![s] = "done"]
                    /\ reply' = [reply EXCEPT ![s] = answer]

FirstStep(k) == CASE k = "msg" -> "insert" [] k = "close" -> "touch"
                  [] k = "force" -> "cas"  [] k = "extend" -> "extend"

\* The room is read open (else 409), with the hard cap of that moment; the
\* handler takes its `now`.  An agent makes one call at a time.
Arrive(s, k, p) ==
  /\ pc[s] = "unborn"
  /\ ~closed
  /\ p \in Roster
  /\ \A r \in Requests : InFlight(r) => by[r] # p
  /\ kind' = [kind EXCEPT ![s] = k]
  /\ by' = [by EXCEPT ![s] = p]
  /\ at' = [at EXCEPT ![s] = now]
  /\ seenCap' = [seenCap EXCEPT ![s] = cap]
  /\ Goto(s, FirstStep(k))
  /\ UNCHANGED <<roomVars, rowVars, history, drops, now>>

\* Mutant: the cap admits one message too many.
InsertOver(s) ==
  /\ pc[s] = "insert"
  /\ \/ /\ count <= seenCap[s]
        /\ count' = count + 1
        /\ ending' = ending \ {by[s]}
        /\ Goto(s, "unclose")
     \/ count > seenCap[s] /\ Reply(s, "conflict") /\ UNCHANGED <<count, ending>>
  /\ UNCHANGED <<closed, cap, rowVars, kind, by, at, seenCap, joined, asked, drops, now>>

\* create_message_capped: count and insert in one statement.
Insert(s) ==
  /\ pc[s] = "insert"
  /\ \/ /\ count < seenCap[s]
        /\ count' = count + 1
        /\ ending' = ending \ {by[s]}
        /\ Goto(s, "unclose")
     \/ count >= seenCap[s] /\ Reply(s, "conflict") /\ UNCHANGED <<count, ending>>
  /\ UNCHANGED <<closed, cap, rowVars, kind, by, at, seenCap, joined, asked, drops, now>>

\* Mutant: a message clears everybody's close vote.
UncloseAll(s) ==
  /\ pc[s] = "unclose"
  /\ wantsClose' = {}
  /\ Goto(s, "unextend")
  /\ UNCHANGED <<roomVars, lastPoll, wantsExtend, kind, by, at, seenCap, history, drops, now>>

\* set_close_vote(sender, None).
Unclose(s) ==
  /\ pc[s] = "unclose"
  /\ wantsClose' = wantsClose \ {by[s]}
  /\ Goto(s, "unextend")
  /\ UNCHANGED <<roomVars, lastPoll, wantsExtend, kind, by, at, seenCap, history, drops, now>>

\* clear_extend_vote(sender).
Unextend(s) ==
  /\ pc[s] = "unextend"
  /\ wantsExtend' = wantsExtend \ {by[s]}
  /\ asked' = asked \ {by[s]}
  /\ Reply(s, "ok")
  /\ UNCHANGED <<roomVars, lastPoll, wantsClose, kind, by, at, seenCap, joined, ending,
                 drops, now>>

\* touch_last_poll of the closer: an UPDATE, without effect on a pruned row.
Touch(s) ==
  /\ pc[s] = "touch"
  /\ lastPoll' = [q \in Roster |-> IF q = by[s] THEN at[s] ELSE lastPoll[q]]
  /\ Goto(s, "vote")
  /\ UNCHANGED <<roomVars, wantsClose, wantsExtend, kind, by, at, seenCap, history, drops, now>>

\* Mutant: the vote of a pruned participant is written all the same.
VoteUpserts(s) ==
  /\ pc[s] = "vote"
  /\ wantsClose' = wantsClose \cup {by[s]}
  /\ ending' = ending \cup {by[s]}
  /\ Goto(s, "count")
  /\ UNCHANGED <<roomVars, lastPoll, wantsExtend, kind, by, at, seenCap, joined, asked,
                 drops, now>>

\* set_close_vote(closer, Some(now)).
Vote(s) ==
  /\ pc[s] = "vote"
  /\ wantsClose' = wantsClose \cup ({by[s]} \cap Roster)
  /\ ending' = ending \cup ({by[s]} \cap Roster)
  /\ Goto(s, "count")
  /\ UNCHANGED <<roomVars, lastPoll, wantsExtend, kind, by, at, seenCap, joined, asked,
                 drops, now>>

\* list_participants, and the quorum over that list.
Count(s) ==
  /\ pc[s] = "count"
  /\ IF Agreed(wantsClose, at[s]) THEN Goto(s, "cas") ELSE Reply(s, "proposed")
  /\ UNCHANGED <<roomVars, rowVars, kind, by, at, seenCap, history, drops, now>>

\* close_now: the CAS is won, or lost to a close, or lost to another move.
Cas(s) ==
  /\ pc[s] = "cas"
  /\ closed' = TRUE
  /\ Goto(s, "clear")
  /\ UNCHANGED <<cap, count, rowVars, kind, by, at, seenCap, history, drops, now>>

CasMiss(s) ==
  /\ pc[s] = "cas"
  /\ ~closed
  /\ Reply(s, "conflict")
  /\ UNCHANGED <<roomVars, rowVars, kind, by, at, seenCap, history, drops, now>>

\* clear_close_votes.
Clear(s) ==
  /\ pc[s] = "clear"
  /\ wantsClose' = {}
  /\ Reply(s, "closed")
  /\ UNCHANGED <<roomVars, lastPoll, wantsExtend, kind, by, at, seenCap, history, drops, now>>

\* The rows after the voter's own has been written in try_extend.
Voters(s) == wantsExtend \cup ({by[s]} \cap Roster)
Touched(s) == [q \in Roster |-> IF q = by[s] THEN at[s] ELSE lastPoll[q]]

\* Mutant: the live participants are counted before the voter is touched.
LiveBeforeVoting(s) == LiveAt(at[s])

\* The live participants as try_extend counts them: after its own touch.
LiveVoting(s) == {q \in Roster : at[s] - Touched(s)[q] <= GhostAfter}

\* Mutant: the bump leaves the votes standing.
TryExtendKeepsVotes(s) ==
  /\ pc[s] = "extend"
  /\ lastPoll' = Touched(s)
  /\ wantsExtend' = Voters(s)
  /\ IF Cardinality(Voters(s) \cap LiveVoting(s)) >= Needed(Cardinality(LiveVoting(s)))
     THEN cap' = cap + ExtendStep /\ asked' = {} /\ Reply(s, "extended")
     ELSE asked' = asked \cup ({by[s]} \cap Roster) /\ Reply(s, "proposed") /\ UNCHANGED cap
  /\ UNCHANGED <<closed, count, wantsClose, kind, by, at, seenCap, joined, ending, drops, now>>

\* try_extend: one transaction.
TryExtend(s) ==
  /\ pc[s] = "extend"
  /\ lastPoll' = Touched(s)
  /\ IF Cardinality(Voters(s) \cap LiveVoting(s)) >= Needed(Cardinality(LiveVoting(s)))
     THEN /\ cap' = cap + ExtendStep
          /\ wantsExtend' = {} /\ asked' = {}
          /\ Reply(s, "extended")
     ELSE /\ wantsExtend' = Voters(s) /\ asked' = asked \cup ({by[s]} \cap Roster)
          /\ Reply(s, "proposed")
          /\ UNCHANGED cap
  /\ UNCHANGED <<closed, count, wantsClose, kind, by, at, seenCap, joined, ending, drops, now>>

\* The client disconnects: what is written stays.
Drop(s) ==
  /\ InFlight(s)
  /\ drops < MaxDrops
  /\ drops' = drops + 1
  /\ Reply(s, "dropped")
  /\ UNCHANGED <<roomVars, rowVars, kind, by, at, seenCap, history, now>>

-----------------------------------------------------------------------------

Handle(s) ==
  \/ Insert(s) \/ Unclose(s) \/ Unextend(s)
  \/ Touch(s) \/ Vote(s) \/ Count(s) \/ Cas(s) \/ CasMiss(s) \/ Clear(s)
  \/ TryExtend(s)

Next ==
  \/ Tick
  \/ \E p \in Participants : Poll(p)
  \/ Prune
  \/ \E s \in Requests, k \in Kinds, p \in Participants : Arrive(s, k, p)
  \/ \E s \in Requests : Handle(s) \/ Drop(s)

Spec == Init /\ [][Next]_vars

-----------------------------------------------------------------------------
(* Properties.                                                             *)

TypeOK ==
  /\ closed \in BOOLEAN /\ cap \in Nat /\ count \in Nat /\ now \in Nat /\ drops \in 0 .. MaxDrops
  /\ Roster \subseteq joined /\ lastPoll \in [Roster -> Nat]
  /\ wantsClose \subseteq Roster /\ wantsExtend \subseteq Roster
  /\ kind \in [Requests -> AllKinds]
  /\ by \in [Requests -> Participants \cup {Nobody}]
  /\ pc \in [Requests -> {"unborn", "insert", "unclose", "unextend", "touch", "vote",
                          "count", "cas", "clear", "extend", "done"}]
  /\ at \in [Requests -> Nat] /\ seenCap \in [Requests -> Nat]
  /\ reply \in [Requests -> {"none", "ok", "conflict", "proposed", "extended", "closed", "dropped"}]
  /\ joined \subseteq Participants /\ ending \subseteq joined /\ asked \subseteq joined

\* The hard cap holds although senders compare with the cap they read earlier
\* and the cap grows meanwhile (create_message_capped).
CapRespected == count <= cap

Settled == \A s \in Requests : ~InFlight(s)

\* No deadlock of consensus close: when everybody who ever joined has voted to
\* close and has not spoken since, in any order of messages and votes, the room
\* is closed, unless a close was told to retry or its client hung up (or nobody
\* is left on the roster).  A handler that outlasts GhostAfter could stall it: it
\* writes an old last_poll_at, and makes the only participant left a ghost.
NoStalledClose ==
  MaxHandling <= GhostAfter /\ Settled /\ Roster # {} /\ joined \subseteq ending
    => closed \/ \E s \in Requests : kind[s] = "close" /\ reply[s] \in {"conflict", "dropped"}

\* Nor of consensus extend: never has everybody asked for the same extension
\* without getting it, whoever turned ghost or came back between the votes.
NoStalledExtend == Roster # {} => ~(joined \subseteq asked)

\* A close passes its count only with the vote of every participant that is
\* live by the clock at that moment, although the handler took its `now` before
\* (all-quorum), and with the needed number of votes (any quorum).
LiveAreHeard ==
  [][ \A s \in Requests : pc[s] = "count" /\ pc'[s] = "cas" =>
        /\ Quorum = "all" => LiveAt(now) \subseteq wantsClose
        /\ Cardinality(wantsClose) >= Needed(Cardinality(LiveAt(now))) ]_vars

\* The cap grows one step at a time, and every step was asked for since the
\* last one by every participant that is live (try_extend never bumps twice for
\* the same votes, however the deciding votes race).
BumpIsAgreed ==
  [][ cap' # cap =>
        /\ cap' = cap + ExtendStep
        /\ \E s \in Requests :
             /\ pc[s] = "extend" /\ reply'[s] = "extended"
             /\ Quorum = "all" => LiveAt(now) \subseteq asked \cup {by[s]} ]_vars
=============================================================================
