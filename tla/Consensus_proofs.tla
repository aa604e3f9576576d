-------------------------- MODULE Consensus_proofs --------------------------
(***************************************************************************)
(* For any number of participants and requests, either quorum rule and any *)
(* cap, step and ghost threshold: the types of Consensus, the hard cap, who *)
(* is heard by a close, who asked for an extension, and that no extension  *)
(* everybody asked for stays ungranted.                                    *)
(***************************************************************************)
EXTENDS Consensus, FiniteSetTheorems, TLAPS

-----------------------------------------------------------------------------
(* Quorums.                                                                *)

LEMMA NeededBounds ==
  ASSUME NEW n \in Nat
  PROVE  /\ Needed(n) \in Nat /\ Needed(n) >= 1
         /\ Quorum = "all" => Needed(n) >= n
         /\ n >= 1 => Needed(n) <= n
         /\ \A m \in Nat : m <= n => Needed(m) <= Needed(n)
BY DEF Needed

\* An all-quorum of the live is a vote of each of them.
LEMMA QuorumOfAll ==
  ASSUME NEW votes, NEW live, IsFiniteSet(live), Quorum = "all",
         Cardinality(votes \cap live) >= Needed(Cardinality(live))
  PROVE  live \subseteq votes
<1>1. Cardinality(live) \in Nat /\ Cardinality(votes \cap live) \in Nat
      /\ votes \cap live \subseteq live
  BY FS_CardinalityType, FS_Subset
<1>2. Cardinality(votes \cap live) >= Cardinality(live)
  BY <1>1, NeededBounds
<1>3. votes \cap live = live
  BY <1>1, <1>2, FS_Subset
<1>4. QED BY <1>3

\* The votes of everybody, somebody among them live, make either quorum.
LEMMA EverybodyIsEnough ==
  ASSUME NEW votes, NEW live, IsFiniteSet(live), live # {}, live \subseteq votes
  PROVE  Cardinality(votes \cap live) >= Needed(Cardinality(live))
<1>1. votes \cap live = live /\ Cardinality(live) \in Nat /\ Cardinality(live) # 0
  BY FS_CardinalityType, FS_EmptySet
<1>2. QED BY <1>1, NeededBounds

-----------------------------------------------------------------------------
(* The inductive invariant.                                                *)

\* A sender compares with a cap that has only grown since.
CapKnown == /\ \A s \in Requests : seenCap[s] <= cap
            /\ count <= cap

\* A handler's clock is behind the wall clock.
ClockKnown == \A s \in Requests : at[s] <= now

\* The extend votes that stand are those of the rows that asked since the last
\* extension: a prune takes the row's vote, and a pruned handle never returns.
AskedStand == asked \cap Roster = wantsExtend

RowTypes ==
  /\ Roster \subseteq joined /\ lastPoll \in [Roster -> Nat]
  /\ wantsClose \subseteq Roster /\ wantsExtend \subseteq Roster
  /\ joined \subseteq Participants /\ ending \subseteq joined /\ asked \subseteq joined

RoomTypes ==
  closed \in BOOLEAN /\ cap \in Nat /\ count \in Nat /\ now \in Nat /\ drops \in 0 .. MaxDrops

RequestTypes ==
  /\ kind \in [Requests -> AllKinds]
  /\ by \in [Requests -> Participants \cup {Nobody}]
  /\ pc \in [Requests -> {"unborn", "insert", "unclose", "unextend", "touch", "vote",
                          "count", "cas", "clear", "extend", "done"}]
  /\ at \in [Requests -> Nat] /\ seenCap \in [Requests -> Nat]
  /\ reply \in [Requests -> {"none", "ok", "conflict", "proposed", "extended", "closed", "dropped"}]

LEMMA TypeSplit == TypeOK <=> RowTypes /\ RoomTypes /\ RequestTypes
BY DEF TypeOK, RowTypes, RoomTypes, RequestTypes

Sound == RowTypes /\ RoomTypes /\ RequestTypes /\ CapKnown /\ ClockKnown /\ AskedStand /\ NoStalledExtend

LEMMA SoundInit == Init => Sound
<1> SUFFICES ASSUME Init PROVE Sound
  OBVIOUS
<1>1. RowTypes /\ AskedStand /\ NoStalledExtend
  BY DEF Init, RowTypes, AskedStand, NoStalledExtend, Roster
<1>2. RoomTypes
  <2>1. InitialCap \in Nat /\ MaxDrops \in Nat
    BY ConsensusAssumption
  <2>2. closed \in BOOLEAN
    BY DEF Init
  <2>3. cap \in Nat /\ count \in Nat /\ now \in Nat /\ drops \in 0 .. MaxDrops
    BY <2>1 DEF Init
  <2>4. QED BY <2>2, <2>3 DEF RoomTypes
<1>3. RequestTypes
  BY DEF Init, RequestTypes, AllKinds
<1>4. CapKnown /\ ClockKnown
  BY ConsensusAssumption DEF Init, CapKnown, ClockKnown
<1>5. QED BY <1>1, <1>2, <1>3, <1>4 DEF Sound

-----------------------------------------------------------------------------
(* Steps.                                                                  *)

\* A handler that goes on or answers.
LEMMA RequestStep ==
  ASSUME RequestTypes, NEW s \in Requests, UNCHANGED <<kind, by, at, seenCap>>,
         \/ \E l \in {"unclose", "unextend", "vote", "count", "cas", "clear"} : Goto(s, l)
         \/ \E a \in {"ok", "conflict", "proposed", "extended", "closed", "dropped"} : Reply(s, a)
  PROVE  RequestTypes'
BY DEF RequestTypes, Goto, Reply

LEMMA TickSound == ASSUME Sound, Tick PROVE Sound'
BY DEF Tick, Sound, RowTypes, RoomTypes, RequestTypes, CapKnown, ClockKnown, AskedStand,
       NoStalledExtend, Roster, roomVars, rowVars, reqVars, history

LEMMA PollSound == ASSUME Sound, NEW p \in Participants, Poll(p) PROVE Sound'
<1>1. UNCHANGED <<roomVars, wantsClose, wantsExtend, reqVars, ending, asked, drops, now>>
      /\ Roster' = Roster \cup {p} /\ joined' = joined \cup {p}
  BY DEF Poll, Roster
<1>2. lastPoll' \in [Roster' -> Nat]
  BY DEF Poll, Sound, RowTypes, RoomTypes, Roster
<1>3. RowTypes'
  BY <1>1, <1>2 DEF Sound, RowTypes
<1>4. RoomTypes' /\ RequestTypes' /\ CapKnown' /\ ClockKnown'
  BY <1>1 DEF Sound, RoomTypes, RequestTypes, CapKnown, ClockKnown, roomVars, reqVars
<1>5. AskedStand' /\ NoStalledExtend'
  <2>1. p \in Roster \/ p \notin asked
    BY DEF Poll, Sound, RowTypes
  <2>2. CASE p \in Roster
    BY <1>1, <2>2 DEF Sound, RowTypes, AskedStand, NoStalledExtend
  <2>3. CASE p \notin asked
    BY <1>1, <2>3 DEF Sound, RowTypes, AskedStand, NoStalledExtend
  <2>4. QED BY <2>1, <2>2, <2>3
<1>6. QED BY <1>3, <1>4, <1>5 DEF Sound

LEMMA PruneSound == ASSUME Sound, Prune PROVE Sound'
<1>1. UNCHANGED <<roomVars, reqVars, history, drops, now>>
      /\ Roster' = LiveAt(now) /\ LiveAt(now) \subseteq Roster
      /\ wantsClose' = wantsClose \cap LiveAt(now) /\ wantsExtend' = wantsExtend \cap LiveAt(now)
  BY DEF Prune, Roster, LiveAt
<1>2. lastPoll' \in [Roster' -> Nat]
  BY <1>1 DEF Prune, Sound, RowTypes, Roster
<1>3. RowTypes'
  BY <1>1, <1>2 DEF Sound, RowTypes, history
<1>4. RoomTypes' /\ RequestTypes' /\ CapKnown' /\ ClockKnown'
  BY <1>1 DEF Sound, RoomTypes, RequestTypes, CapKnown, ClockKnown, roomVars, reqVars
<1>5. AskedStand' /\ NoStalledExtend'
  BY <1>1 DEF Sound, AskedStand, NoStalledExtend, history
<1>6. QED BY <1>3, <1>4, <1>5 DEF Sound

LEMMA ArriveSound ==
  ASSUME Sound, NEW s \in Requests, NEW k \in Kinds, NEW p \in Participants, Arrive(s, k, p)
  PROVE  Sound'
<1>1. UNCHANGED <<roomVars, rowVars, history, drops, now>>
  BY DEF Arrive
<1>2. RowTypes' /\ RoomTypes' /\ AskedStand' /\ NoStalledExtend'
  BY <1>1 DEF Sound, RowTypes, RoomTypes, AskedStand, NoStalledExtend, Roster, roomVars, rowVars, history
<1>3. k \in AllKinds /\ FirstStep(k) \in {"insert", "touch", "cas", "extend"}
  BY ConsensusAssumption DEF AllKinds, FirstStep
<1>4. RequestTypes'
  BY <1>3 DEF Arrive, Goto, Sound, RequestTypes, RoomTypes
<1>5. CapKnown' /\ ClockKnown'
  BY <1>1 DEF Arrive, Sound, RequestTypes, RoomTypes, CapKnown, ClockKnown, roomVars
<1>6. QED BY <1>2, <1>4, <1>5 DEF Sound

\* A sender's message is stored only below the cap it read.
LEMMA InsertSound == ASSUME Sound, NEW s \in Requests, Insert(s) PROVE Sound'
<1>1. UNCHANGED <<closed, cap, rowVars, kind, by, at, seenCap, joined, asked, drops, now>>
      /\ ending' \subseteq ending
  BY DEF Insert
<1>2. RowTypes' /\ ClockKnown' /\ AskedStand' /\ NoStalledExtend'
  BY <1>1 DEF Sound, RowTypes, ClockKnown, AskedStand, NoStalledExtend, Roster, rowVars
<1>3. RequestTypes'
  BY <1>1, RequestStep DEF Insert, Sound
<1>4. RoomTypes' /\ CapKnown'
  BY <1>1 DEF Insert, Sound, RoomTypes, RequestTypes, CapKnown
<1>5. QED BY <1>2, <1>3, <1>4 DEF Sound

\* The steps that change neither the cap nor the extend votes.
LEMMA CloseStepSound ==
  ASSUME Sound, NEW s \in Requests,
         \/ Unclose(s) \/ Touch(s) \/ Vote(s) \/ Count(s) \/ Cas(s) \/ CasMiss(s) \/ Clear(s)
         \/ Drop(s)
  PROVE  Sound'
<1>1. /\ UNCHANGED <<cap, count, wantsExtend, kind, by, at, seenCap, joined, asked, now>>
      /\ Roster' = Roster
  BY DEF Unclose, Touch, Vote, Count, Cas, CasMiss, Clear, Drop, roomVars, rowVars, history, Roster
<1>2. CapKnown' /\ ClockKnown' /\ AskedStand' /\ NoStalledExtend'
  BY <1>1 DEF Sound, CapKnown, ClockKnown, AskedStand, NoStalledExtend
<1>3. RequestTypes'
  BY <1>1, RequestStep DEF Unclose, Touch, Vote, Count, Cas, CasMiss, Clear, Drop, Sound
<1>4. RoomTypes'
  <2>1. closed' \in BOOLEAN
    BY DEF Unclose, Touch, Vote, Count, Cas, CasMiss, Clear, Drop, roomVars, Sound, RoomTypes
  <2>2. drops' = drops \/ (drops < MaxDrops /\ drops' = drops + 1)
    BY DEF Unclose, Touch, Vote, Count, Cas, CasMiss, Clear, Drop
  <2>3. drops' \in 0 .. MaxDrops
    BY <2>2, ConsensusAssumption DEF Sound, RoomTypes
  <2>4. QED BY <1>1, <2>1, <2>3 DEF Sound, RoomTypes
<1>5. wantsClose' \subseteq Roster /\ ending' \subseteq joined
  BY DEF Unclose, Touch, Vote, Count, Cas, CasMiss, Clear, Drop, rowVars, history, Sound, RowTypes
<1>6. lastPoll' \in [Roster -> Nat]
  BY DEF Unclose, Touch, Vote, Count, Cas, CasMiss, Clear, Drop, rowVars, Sound, RowTypes, RequestTypes
<1>7. RowTypes'
  BY <1>1, <1>5, <1>6 DEF Sound, RowTypes
<1>8. QED BY <1>2, <1>3, <1>4, <1>7 DEF Sound

\* A message takes its sender's extend vote back.
LEMMA UnextendSound == ASSUME Sound, NEW s \in Requests, Unextend(s) PROVE Sound'
<1>1. /\ UNCHANGED <<roomVars, lastPoll, wantsClose, kind, by, at, seenCap, joined, ending, drops, now>>
      /\ wantsExtend' = wantsExtend \ {by[s]} /\ asked' = asked \ {by[s]}
      /\ Roster' = Roster
  BY DEF Unextend, Roster
<1>2. RowTypes' /\ AskedStand' /\ NoStalledExtend'
  BY <1>1 DEF Sound, RowTypes, AskedStand, NoStalledExtend
<1>3. RoomTypes' /\ CapKnown' /\ ClockKnown'
  BY <1>1 DEF Sound, RoomTypes, CapKnown, ClockKnown, roomVars
<1>4. RequestTypes'
  BY <1>1, RequestStep DEF Unextend, Sound
<1>5. QED BY <1>2, <1>3, <1>4 DEF Sound

LEMMA LiveIsFinite ==
  ASSUME Sound, NEW live, live \subseteq Roster
  PROVE  IsFiniteSet(live)
<1>1. live \subseteq Participants
  BY DEF Sound, RowTypes
<1>2. QED BY <1>1, ConsensusAssumption, FS_Subset

\* What try_extend counts: its voter, if still on the roster, and everybody
\* that is live by the wall clock.
LEMMA LiveVotingHas ==
  ASSUME Sound, NEW s \in Requests
  PROVE  /\ LiveVoting(s) \subseteq Roster
         /\ by[s] \in Roster => by[s] \in LiveVoting(s)
         /\ LiveAt(now) \subseteq LiveVoting(s)
<1>1. at[s] \in Nat /\ now \in Nat /\ at[s] <= now /\ GhostAfter \in Nat
      /\ lastPoll \in [Roster -> Nat]
  BY ConsensusAssumption DEF Sound, RequestTypes, RoomTypes, RowTypes, ClockKnown
<1>2. QED BY <1>1 DEF LiveVoting, LiveAt, Touched

LEMMA TryExtendSound == ASSUME Sound, NEW s \in Requests, TryExtend(s) PROVE Sound'
<1>1. /\ UNCHANGED <<closed, count, wantsClose, kind, by, at, seenCap, joined, ending, drops, now>>
      /\ Roster' = Roster /\ lastPoll' = Touched(s)
  BY DEF TryExtend, Touched, Roster
<1>2. lastPoll' \in [Roster -> Nat]
  BY <1>1 DEF Touched, Sound, RowTypes, RequestTypes
<1>3. Voters(s) \subseteq Roster /\ Voters(s) = (asked \cup ({by[s]} \cap Roster)) \cap Roster
  BY DEF Voters, Sound, RowTypes, AskedStand
<1>4. CASE Cardinality(Voters(s) \cap LiveVoting(s)) >= Needed(Cardinality(LiveVoting(s)))
  <2>1. cap' = cap + ExtendStep /\ wantsExtend' = {} /\ asked' = {} /\ Reply(s, "extended")
    BY <1>4 DEF TryExtend
  <2>2. RowTypes' /\ AskedStand' /\ NoStalledExtend'
    BY <1>1, <1>2, <2>1 DEF Sound, RowTypes, AskedStand, NoStalledExtend
  <2>3. RoomTypes' /\ CapKnown' /\ ClockKnown'
    BY <1>1, <2>1, ConsensusAssumption
    DEF Sound, RoomTypes, RequestTypes, CapKnown, ClockKnown
  <2>4. RequestTypes'
    BY <1>1, <2>1, RequestStep DEF Sound
  <2>5. QED BY <2>2, <2>3, <2>4 DEF Sound
<1>5. CASE ~(Cardinality(Voters(s) \cap LiveVoting(s)) >= Needed(Cardinality(LiveVoting(s))))
  <2>1. /\ wantsExtend' = Voters(s) /\ asked' = asked \cup ({by[s]} \cap Roster)
        /\ Reply(s, "proposed") /\ cap' = cap
    BY <1>5 DEF TryExtend
  <2>2. RowTypes' /\ AskedStand'
    BY <1>1, <1>2, <1>3, <2>1 DEF Sound, RowTypes, AskedStand
  <2>3. NoStalledExtend'
    <3>1. CASE by[s] \notin Roster
      BY <1>1, <2>1, <3>1 DEF Sound, NoStalledExtend
    <3>2. CASE by[s] \in Roster
      <4>1. LiveVoting(s) # {} /\ LiveVoting(s) \subseteq Roster /\ IsFiniteSet(LiveVoting(s))
        BY <3>2, LiveVotingHas, LiveIsFinite
      <4>2. ~(LiveVoting(s) \subseteq Voters(s))
        BY <1>5, <4>1, EverybodyIsEnough
      <4>3. ~(Roster \subseteq asked')
        BY <1>3, <2>1, <4>1, <4>2
      <4>4. QED BY <1>1, <4>3 DEF Sound, RowTypes, NoStalledExtend
    <3>3. QED BY <3>1, <3>2
  <2>4. RoomTypes' /\ CapKnown' /\ ClockKnown'
    BY <1>1, <2>1 DEF Sound, RoomTypes, CapKnown, ClockKnown
  <2>5. RequestTypes'
    BY <1>1, <2>1, RequestStep DEF Sound
  <2>6. QED BY <2>2, <2>3, <2>4, <2>5 DEF Sound
<1>6. QED BY <1>4, <1>5

LEMMA StutterSound == ASSUME Sound, UNCHANGED vars PROVE Sound'
BY DEF Sound, RowTypes, RoomTypes, RequestTypes, CapKnown, ClockKnown, AskedStand, NoStalledExtend,
       Roster, vars, roomVars, rowVars, reqVars, history

LEMMA StepSound == ASSUME Sound, [Next]_vars PROVE Sound'
BY TickSound, PollSound, PruneSound, ArriveSound, InsertSound, CloseStepSound, UnextendSound,
   TryExtendSound, StutterSound
DEF Next, Handle

THEOREM ConsensusSound == Spec => []Sound
BY SoundInit, StepSound, PTL DEF Spec

-----------------------------------------------------------------------------
(* The theorems.                                                           *)

\* The room, its rows and its requests stay well typed; votes are only those
\* of rows that are there.
THEOREM ConsensusTypeCorrect == Spec => []TypeOK
<1>1. Sound => TypeOK
  BY TypeSplit DEF Sound
<1>2. QED BY <1>1, ConsensusSound, PTL

\* No race of senders and extensions stores a message beyond the hard cap.
THEOREM HardCapHolds == Spec => []CapRespected
<1>1. Sound => CapRespected
  BY DEF Sound, CapKnown, CapRespected
<1>2. QED BY <1>1, ConsensusSound, PTL

\* Never has everybody asked for the same extension without getting it: the
\* last one to ask meets the quorum, whoever was pruned, fell silent or came
\* back between the votes.
THEOREM NoExtendStalls == Spec => []NoStalledExtend
<1>1. Sound => NoStalledExtend
  BY DEF Sound
<1>2. QED BY <1>1, ConsensusSound, PTL

\* The cap changes only by one step, in a request that is answered so, and
\* under an all-quorum everybody live had asked.
THEOREM BumpsAreAgreed == Spec => BumpIsAgreed
<1>1. ASSUME Sound, [Next]_vars, cap' # cap
      PROVE  /\ cap' = cap + ExtendStep
             /\ \E s \in Requests :
                  /\ pc[s] = "extend" /\ reply'[s] = "extended"
                  /\ Quorum = "all" => LiveAt(now) \subseteq asked \cup {by[s]}
  <2>1. PICK s \in Requests : TryExtend(s)
    BY <1>1 DEF Next, Handle, Tick, Poll, Prune, Arrive, Insert, Unclose, Unextend, Touch, Vote,
                Count, Cas, CasMiss, Clear, Drop, vars, roomVars
  <2>2. Cardinality(Voters(s) \cap LiveVoting(s)) >= Needed(Cardinality(LiveVoting(s)))
    BY <1>1, <2>1 DEF TryExtend
  <2>3. cap' = cap + ExtendStep /\ pc[s] = "extend" /\ reply'[s] = "extended"
    BY <1>1, <2>1, <2>2 DEF TryExtend, Reply, Sound, RequestTypes
  <2>4. ASSUME Quorum = "all" PROVE LiveAt(now) \subseteq asked \cup {by[s]}
    <3>1. LiveVoting(s) \subseteq Voters(s)
      BY <1>1, <2>2, <2>4, LiveVotingHas, LiveIsFinite, QuorumOfAll
    <3>2. Voters(s) \subseteq asked \cup {by[s]}
      BY <1>1 DEF Voters, Sound, AskedStand
    <3>3. QED BY <1>1, <3>1, <3>2, LiveVotingHas
  <2>5. QED BY <2>3, <2>4
<1>2. QED BY <1>1, ConsensusSound, PTL DEF Spec, BumpIsAgreed

\* A close passes its count only with the votes the rule asks of those that
\* are live by the wall clock, although it counts by the clock it arrived with.
THEOREM ClosesAreHeard == Spec => LiveAreHeard
<1>1. ASSUME Sound, [Next]_vars, NEW s \in Requests, pc[s] = "count", pc'[s] = "cas"
      PROVE  /\ Quorum = "all" => LiveAt(now) \subseteq wantsClose
             /\ Cardinality(wantsClose) >= Needed(Cardinality(LiveAt(now)))
  <2>1. Count(s)
    <3>1. ASSUME NEW r \in Requests, Handle(r) \/ Drop(r) PROVE r = s
      BY <1>1, <3>1 DEF Handle, Drop, Insert, Unclose, Unextend, Touch, Vote, Count, Cas, CasMiss,
                        Clear, TryExtend, Goto, Reply, Sound, RequestTypes
    <3>2. ASSUME NEW r \in Requests, NEW k \in Kinds, NEW p \in Participants, Arrive(r, k, p)
          PROVE  FALSE
      BY <1>1, <3>2 DEF Arrive, Goto, Sound, RequestTypes
    <3>3. ~(Tick \/ Prune \/ (\E p \in Participants : Poll(p)) \/ UNCHANGED vars)
      BY <1>1 DEF Tick, Prune, Poll, reqVars, vars
    <3>4. Handle(s) \/ Drop(s)
      BY <1>1, <3>1, <3>2, <3>3 DEF Next
    <3>5. QED BY <1>1, <3>4 DEF Handle, Drop, Insert, Unclose, Unextend, Touch, Vote, Cas, CasMiss,
                                Clear, TryExtend, Reply, Sound, RequestTypes
  <2>2. Agreed(wantsClose, at[s])
    BY <1>1, <2>1 DEF Count, Reply, Sound, RequestTypes
  <2>3. LiveAt(now) \subseteq LiveAt(at[s]) /\ LiveAt(at[s]) \subseteq Roster
    <3>1. at[s] \in Nat /\ now \in Nat /\ at[s] <= now /\ GhostAfter \in Nat
          /\ lastPoll \in [Roster -> Nat]
      BY <1>1, ConsensusAssumption DEF Sound, RequestTypes, RoomTypes, RowTypes, ClockKnown
    <3>2. QED BY <3>1 DEF LiveAt
  <2>4. /\ IsFiniteSet(LiveAt(now)) /\ IsFiniteSet(LiveAt(at[s])) /\ IsFiniteSet(wantsClose)
    BY <1>1, <2>3, LiveIsFinite DEF Sound, RowTypes
  <2>5. ASSUME Quorum = "all" PROVE LiveAt(now) \subseteq wantsClose
    BY <2>2, <2>3, <2>4, <2>5, QuorumOfAll DEF Agreed
  <2>6. Cardinality(wantsClose) >= Needed(Cardinality(LiveAt(now)))
    <3>1. Cardinality(LiveAt(now)) <= Cardinality(LiveAt(at[s]))
      BY <2>3, <2>4, FS_Subset
    <3>2. Cardinality(wantsClose \cap LiveAt(at[s])) <= Cardinality(wantsClose)
      BY <2>4, FS_Subset
    <3>3. /\ Cardinality(wantsClose) \in Nat /\ Cardinality(LiveAt(now)) \in Nat
          /\ Cardinality(LiveAt(at[s])) \in Nat
          /\ Cardinality(wantsClose \cap LiveAt(at[s])) \in Nat
      BY <2>4, FS_Subset, FS_CardinalityType
    <3>4. /\ Needed(Cardinality(LiveAt(now))) <= Needed(Cardinality(LiveAt(at[s])))
          /\ Needed(Cardinality(LiveAt(now))) \in Nat /\ Needed(Cardinality(LiveAt(at[s]))) \in Nat
      BY <3>1, <3>3, NeededBounds
    <3>5. QED BY <2>2, <3>2, <3>3, <3>4 DEF Agreed
  <2>7. QED BY <2>5, <2>6
<1>2. Sound /\ [Next]_vars =>
        [ \A s \in Requests : pc[s] = "count" /\ pc'[s] = "cas" =>
            /\ Quorum = "all" => LiveAt(now) \subseteq wantsClose
            /\ Cardinality(wantsClose) >= Needed(Cardinality(LiveAt(now))) ]_vars
  BY <1>1
<1>3. QED BY <1>2, ConsensusSound, PTL DEF Spec, LiveAreHeard

-----------------------------------------------------------------------------
(* No close that everybody voted for stalls.                               *)

\* The clock of a handler is at most MaxHandling old, an agent makes one call
\* at a time, and a request has an error only when it is over.
Requesting ==
  /\ \A s \in Requests : InFlight(s) => now - at[s] <= MaxHandling
  /\ \A r, s \in Requests : r # s /\ InFlight(r) /\ InFlight(s) => by[r] # by[s]
  /\ \A s \in Requests : pc[s] \in {"touch", "vote", "count"} => kind[s] = "close"
  /\ \A s \in Requests : pc[s] = "clear" => closed
  /\ \A s \in Requests : reply[s] \in {"conflict", "dropped"} => pc[s] = "done"

\* Who has voted to close and not spoken since has its vote standing, and who
\* is still taking it back has spoken.
CloseVotesStand ==
  /\ closed \/ ending \cap Roster \subseteq wantsClose
  /\ \A s \in Requests : pc[s] \in {"unclose", "unextend"} => by[s] \notin ending

\* A closer still on the roster is live by its own clock.
CloserIsLive ==
  \A s \in Requests :
    pc[s] \in {"vote", "count"} /\ by[s] \in Roster => lastPoll[by[s]] >= at[s]

\* A close that will pass its count, or that excuses the stall.
Closing(s) ==
  /\ kind[s] = "close"
  /\ \/ reply[s] \in {"conflict", "dropped"}
     \/ pc[s] = "cas"
     \/ pc[s] = "count" /\ LiveAt(at[s]) # {}

ClosePending ==
  Roster # {} /\ joined \subseteq ending => closed \/ \E s \in Requests : Closing(s)

Close == Requesting /\ CloseVotesStand /\ CloserIsLive /\ ClosePending

LEMMA CloseInit == Init => Close
BY DEF Init, Close, Requesting, InFlight, CloseVotesStand, CloserIsLive, ClosePending, Roster

\* A step that changes the rows only.
LEMMA RowStep ==
  ASSUME Requesting, UNCHANGED <<closed, now, reqVars>> PROVE Requesting'
BY DEF Requesting, InFlight, reqVars

LEMMA TickClose == ASSUME Sound, Close, Tick PROVE Close'
<1>1. /\ UNCHANGED <<roomVars, rowVars, reqVars, history>> /\ now' = now + 1
      /\ \A s \in Requests : InFlight(s) => now - at[s] < MaxHandling
  BY DEF Tick
<1>2. now \in Nat /\ MaxHandling \in Nat /\ at \in [Requests -> Nat]
  BY ConsensusAssumption DEF Sound, RoomTypes, RequestTypes
<1>3. Requesting'
  BY <1>1, <1>2 DEF Close, Requesting, InFlight, roomVars, reqVars
<1>4. CloseVotesStand' /\ CloserIsLive' /\ ClosePending'
  BY <1>1 DEF Close, CloseVotesStand, CloserIsLive, ClosePending, Closing, LiveAt, Roster, roomVars,
              rowVars, reqVars, history
<1>5. QED BY <1>3, <1>4 DEF Close

\* The clocks a quorum compares.
LEMMA Clocks ==
  ASSUME Sound
  PROVE  /\ now \in Nat /\ GhostAfter \in Nat /\ MaxHandling \in Nat
         /\ at \in [Requests -> Nat] /\ lastPoll \in [Roster -> Nat]
         /\ \A s \in Requests : at[s] <= now
BY ConsensusAssumption DEF Sound, RoomTypes, RequestTypes, RowTypes, ClockKnown

LEMMA PollClose == ASSUME Sound, Close, NEW p \in Participants, Poll(p) PROVE Close'
<1>1. /\ UNCHANGED <<closed, wantsClose, reqVars, ending, now>>
      /\ Roster' = Roster \cup {p} /\ joined' = joined \cup {p} /\ lastPoll'[p] = now
      /\ \A q \in Roster : q # p => lastPoll'[q] = lastPoll[q]
      /\ p \in Roster \/ p \notin joined
  BY DEF Poll, Roster, roomVars
<1>2. Requesting'
  BY <1>1, RowStep DEF Close
<1>3. CloseVotesStand'
  BY <1>1 DEF Close, CloseVotesStand, reqVars, Sound, RowTypes
<1>4. CloserIsLive'
  BY <1>1, Clocks DEF Close, CloserIsLive, reqVars
<1>5. ASSUME NEW s \in Requests, Closing(s) PROVE Closing(s)'
  <2>1. ASSUME NEW q \in LiveAt(at[s]) PROVE q \in LiveAt(at[s])'
    BY <1>1, <2>1, Clocks DEF LiveAt, reqVars
  <2>2. QED BY <1>1, <1>5, <2>1 DEF Closing, reqVars
<1>6. ClosePending'
  <2>1. CASE p \in Roster
    BY <1>1, <1>5, <2>1 DEF Close, ClosePending, Sound, RowTypes
  <2>2. CASE p \notin joined
    BY <1>1, <2>2 DEF ClosePending, Sound, RowTypes
  <2>3. QED BY <1>1, <2>1, <2>2
<1>7. QED BY <1>2, <1>3, <1>4, <1>6 DEF Close

\* Whom a prune leaves is live by every handler's clock.
LEMMA PruneClose == ASSUME Sound, Close, Prune PROVE Close'
<1>1. /\ UNCHANGED <<closed, reqVars, joined, ending, now>>
      /\ Roster' = LiveAt(now) /\ LiveAt(now) \subseteq Roster
      /\ wantsClose' = wantsClose \cap LiveAt(now)
      /\ \A q \in LiveAt(now) : lastPoll'[q] = lastPoll[q]
  BY DEF Prune, Roster, LiveAt, roomVars, history
<1>2. Requesting'
  BY <1>1, RowStep DEF Close
<1>3. CloseVotesStand' /\ CloserIsLive'
  BY <1>1 DEF Close, CloseVotesStand, CloserIsLive, reqVars
<1>4. ASSUME NEW s \in Requests, Closing(s), Roster' # {} PROVE Closing(s)'
  <2>1. LiveAt(at[s])' = Roster'
    BY <1>1, Clocks DEF LiveAt, reqVars
  <2>2. QED BY <1>1, <1>4, <2>1 DEF Closing, reqVars
<1>5. ClosePending'
  BY <1>1, <1>4 DEF Close, ClosePending
<1>6. QED BY <1>2, <1>3, <1>5 DEF Close

LEMMA ArriveClose ==
  ASSUME Sound, Close, NEW s \in Requests, NEW k \in Kinds, NEW p \in Participants, Arrive(s, k, p)
  PROVE  Close'
<1>1. /\ UNCHANGED <<roomVars, rowVars, history, now, reply>>
      /\ pc[s] = "unborn" /\ pc' = [pc EXCEPT ![s] = FirstStep(k)] /\ ~closed
      /\ kind' = [kind EXCEPT ![s] = k] /\ by' = [by EXCEPT ![s] = p] /\ at' = [at EXCEPT ![s] = now]
      /\ \A r \in Requests : InFlight(r) => by[r] # p
  BY DEF Arrive, Goto
<1>2. \A r \in Requests \ {s} : pc'[r] = pc[r] /\ kind'[r] = kind[r] /\ by'[r] = by[r] /\ at'[r] = at[r]
  BY <1>1 DEF Sound, RequestTypes
<1>3. pc'[s] = FirstStep(k) /\ kind'[s] = k /\ by'[s] = p /\ at'[s] = now
  BY <1>1 DEF Sound, RequestTypes
<1>4. FirstStep(k) \in {"insert", "touch", "cas", "extend"} /\ (FirstStep(k) = "touch" => k = "close")
  BY ConsensusAssumption DEF AllKinds, FirstStep
<1>5. reply[s] \notin {"conflict", "dropped"}
  BY <1>1 DEF Close, Requesting
<1>6. Requesting'
  <2>1. closed' = closed /\ reply' = reply /\ now' = now /\ now - now <= MaxHandling
    BY <1>1, Clocks DEF roomVars
  <2>2. \A r \in Requests \ {s} : InFlight(r)' <=> InFlight(r)
    BY <1>2 DEF InFlight
  <2>3. \A r \in Requests : InFlight(r)' => now' - at'[r] <= MaxHandling
    BY <1>2, <1>3, <2>1, <2>2 DEF Close, Requesting
  <2>4. \A r, t \in Requests : r # t /\ InFlight(r)' /\ InFlight(t)' => by'[r] # by'[t]
    BY <1>1, <1>2, <1>3, <2>2 DEF Close, Requesting
  <2>5. QED BY <1>2, <1>3, <1>4, <1>5, <2>1, <2>3, <2>4 DEF Close, Requesting
<1>7. CloseVotesStand' /\ CloserIsLive'
  BY <1>1, <1>2, <1>3, <1>4 DEF Close, CloseVotesStand, CloserIsLive, Roster, roomVars, rowVars, history
<1>8. ASSUME NEW r \in Requests, Closing(r) PROVE Closing(r)'
  <2>1. r # s
    BY <1>1, <1>5, <1>8 DEF Closing
  <2>2. QED BY <1>1, <1>2, <1>8, <2>1 DEF Closing, LiveAt, Roster, rowVars
<1>9. ClosePending'
  BY <1>1, <1>8 DEF Close, ClosePending, Roster, roomVars, rowVars, history
<1>10. QED BY <1>6, <1>7, <1>9 DEF Close

\* A handler that goes on, or answers.
LEMMA HandlerRequesting ==
  ASSUME Sound, Requesting, NEW s \in Requests, InFlight(s),
         UNCHANGED <<kind, by, at, now>>, closed => closed',
         \/ \E l \in {"unclose", "unextend", "cas"} : Goto(s, l)
         \/ kind[s] = "close" /\ \E l \in {"vote", "count"} : Goto(s, l)
         \/ closed' /\ Goto(s, "clear")
         \/ \E a \in {"ok", "conflict", "proposed", "extended", "closed", "dropped"} : Reply(s, a)
  PROVE  /\ Requesting'
         /\ \A r \in Requests \ {s} : pc'[r] = pc[r] /\ reply'[r] = reply[r]
<1>1. \A r \in Requests \ {s} : pc'[r] = pc[r] /\ reply'[r] = reply[r]
  BY DEF Goto, Reply, Sound, RequestTypes
<1>2. /\ pc'[s] \in {"unclose", "unextend", "cas", "vote", "count", "clear", "done"}
      /\ pc'[s] \in {"vote", "count"} => kind[s] = "close"
      /\ pc'[s] = "clear" => closed'
      /\ reply'[s] \in {"conflict", "dropped"} => pc'[s] = "done"
  BY DEF Goto, Reply, Sound, RequestTypes, Requesting, InFlight
<1>3. \A r \in Requests \ {s} : InFlight(r)' <=> InFlight(r)
  BY <1>1 DEF InFlight
<1>4. \A r \in Requests : InFlight(r)' => InFlight(r)
  BY <1>3
<1>5. Requesting'
  <2>1. \A r \in Requests : InFlight(r)' => now' - at'[r] <= MaxHandling
    BY <1>4 DEF Requesting
  <2>2. \A r, t \in Requests : r # t /\ InFlight(r)' /\ InFlight(t)' => by'[r] # by'[t]
    BY <1>4 DEF Requesting
  <2>3. QED BY <1>1, <1>2, <2>1, <2>2 DEF Requesting
<1>6. QED BY <1>1, <1>5

\* A close that is not moved stays on its way while somebody is live for it.
LEMMA StaysClosing ==
  ASSUME NEW r \in Requests, Closing(r), pc'[r] = pc[r], reply'[r] = reply[r],
         UNCHANGED <<kind, at>>, LiveAt(at[r]) # {} => LiveAt(at[r])' # {}
  PROVE  Closing(r)'
BY DEF Closing

\* The steps of a message, which only end agreement.
LEMMA MessageClose ==
  ASSUME Sound, Close, NEW s \in Requests, Insert(s) \/ Unclose(s) \/ Unextend(s)
  PROVE  Close'
<1>1. /\ UNCHANGED <<closed, lastPoll, joined, now, kind, by, at>> /\ Roster' = Roster
      /\ ending' \subseteq ending /\ pc[s] \in {"insert", "unclose", "unextend"}
  BY DEF Insert, Unclose, Unextend, roomVars, rowVars, history, Roster
<1>2. Requesting' /\ \A r \in Requests \ {s} : pc'[r] = pc[r] /\ reply'[r] = reply[r]
  BY <1>1, HandlerRequesting DEF Insert, Unclose, Unextend, Close, InFlight
<1>3. CloseVotesStand'
  <2>1. closed \/ ending' \cap Roster \subseteq wantsClose'
    <3>1. wantsClose' = wantsClose \/ (wantsClose' = wantsClose \ {by[s]} /\ by[s] \notin ending)
      BY DEF Insert, Unclose, Unextend, rowVars, Close, CloseVotesStand
    <3>2. QED BY <1>1, <3>1 DEF Close, CloseVotesStand
  <2>2. pc'[s] \in {"unclose", "unextend"} => by[s] \notin ending'
    BY DEF Insert, Unclose, Unextend, Goto, Reply, history, Close, CloseVotesStand, Sound, RequestTypes
  <2>3. QED BY <1>1, <1>2, <2>1, <2>2 DEF Close, CloseVotesStand
<1>4. CloserIsLive'
  <2>1. pc'[s] \notin {"vote", "count"}
    BY DEF Insert, Unclose, Unextend, Goto, Reply, Sound, RequestTypes
  <2>2. QED BY <1>1, <1>2, <2>1 DEF Close, CloserIsLive
<1>5. ASSUME NEW r \in Requests, Closing(r) PROVE Closing(r)'
  <2>1. r # s
    BY <1>1, <1>5 DEF Closing, Close, Requesting
  <2>2. QED BY <1>1, <1>2, <1>5, <2>1, StaysClosing DEF LiveAt
<1>6. ClosePending'
  BY <1>1, <1>5 DEF Close, ClosePending
<1>7. QED BY <1>2, <1>3, <1>4, <1>6 DEF Close

\* A handler that writes its own clock as last_poll_at leaves its participant
\* live for every other handler: no clock is more than GhostAfter ahead of it.
LEMMA TouchLeavesLive ==
  ASSUME Sound, Close, MaxHandling <= GhostAfter, NEW s \in Requests, InFlight(s),
         NEW r \in Requests, at' = at, lastPoll' = Touched(s), LiveAt(at[r]) # {}
  PROVE  LiveAt(at[r])' # {}
<1>1. PICK q \in Roster : at[r] - lastPoll[q] <= GhostAfter
  BY DEF LiveAt
<1>2. Roster' = Roster /\ lastPoll'[q] = IF q = by[s] THEN at[s] ELSE lastPoll[q]
  BY <1>1 DEF Touched, Roster
<1>3. at[r] - at[s] <= GhostAfter
  <2>1. now - at[s] <= MaxHandling /\ at[r] <= now
    BY Clocks DEF Close, Requesting
  <2>2. at[r] \in Nat /\ at[s] \in Nat
    BY Clocks
  <2>3. QED BY <2>1, <2>2, Clocks
<1>4. q \in LiveAt(at[r])'
  BY <1>1, <1>2, <1>3 DEF LiveAt
<1>5. QED BY <1>4

LEMMA TouchClose ==
  ASSUME Sound, Close, MaxHandling <= GhostAfter, NEW s \in Requests, Touch(s) \/ TryExtend(s)
  PROVE  Close'
<1>1. /\ UNCHANGED <<closed, wantsClose, joined, ending, now, kind, by, at>> /\ Roster' = Roster
      /\ lastPoll' = Touched(s) /\ pc[s] \in {"touch", "extend"} /\ InFlight(s)
  BY DEF Touch, TryExtend, Touched, roomVars, history, Roster, InFlight
<1>2. Requesting' /\ \A r \in Requests \ {s} : pc'[r] = pc[r] /\ reply'[r] = reply[r]
  <2>1. pc[s] = "touch" => kind[s] = "close"
    BY DEF Close, Requesting
  <2>2. QED BY <1>1, <2>1, HandlerRequesting DEF Touch, TryExtend, Close
<1>3. pc'[s] \notin {"unclose", "unextend", "count"}
  BY DEF Touch, TryExtend, Goto, Reply, Sound, RequestTypes
<1>4. CloseVotesStand'
  BY <1>1, <1>2, <1>3 DEF Close, CloseVotesStand
<1>5. CloserIsLive'
  <2>1. ASSUME NEW r \in Requests, pc'[r] \in {"vote", "count"}, by[r] \in Roster
        PROVE  lastPoll'[by[r]] >= at[r]
    <3>1. CASE r = s
      BY <1>1, <2>1, <3>1, Clocks DEF Touched
    <3>2. CASE r # s
      <4>1. pc[r] \in {"vote", "count"} /\ by[r] # by[s]
        BY <1>1, <1>2, <2>1, <3>2 DEF Close, Requesting, InFlight
      <4>2. lastPoll'[by[r]] = lastPoll[by[r]]
        BY <1>1, <2>1, <4>1 DEF Touched
      <4>3. QED BY <2>1, <4>1, <4>2 DEF Close, CloserIsLive
    <3>3. QED BY <3>1, <3>2
  <2>2. QED BY <1>1, <2>1 DEF CloserIsLive
<1>6. ASSUME NEW r \in Requests, Closing(r) PROVE Closing(r)'
  <2>1. r # s
    BY <1>1, <1>6 DEF Closing, Close, Requesting
  <2>2. QED BY <1>1, <1>2, <1>6, <2>1, StaysClosing, TouchLeavesLive
<1>7. ClosePending'
  BY <1>1, <1>6 DEF Close, ClosePending
<1>8. QED BY <1>2, <1>4, <1>5, <1>7 DEF Close

\* The last vote makes a close that will pass its count.
LEMMA VoteClose == ASSUME Sound, Close, NEW s \in Requests, Vote(s) PROVE Close'
<1>1. /\ UNCHANGED <<closed, lastPoll, joined, now, kind, by, at, reply>> /\ Roster' = Roster
      /\ wantsClose' = wantsClose \cup ({by[s]} \cap Roster)
      /\ ending' = ending \cup ({by[s]} \cap Roster)
      /\ pc[s] = "vote" /\ pc'[s] = "count" /\ kind[s] = "close" /\ InFlight(s)
  BY DEF Vote, Goto, roomVars, Roster, Close, Requesting, InFlight, Sound, RequestTypes
<1>2. Requesting' /\ \A r \in Requests \ {s} : pc'[r] = pc[r] /\ reply'[r] = reply[r]
  BY <1>1, HandlerRequesting DEF Vote, Close
<1>3. CloseVotesStand'
  <2>1. ASSUME NEW r \in Requests, pc'[r] \in {"unclose", "unextend"} PROVE by[r] \notin ending'
    <3>1. r # s /\ pc[r] \in {"unclose", "unextend"}
      BY <1>1, <1>2, <2>1
    <3>2. by[r] # by[s]
      BY <1>1, <3>1 DEF Close, Requesting, InFlight
    <3>3. QED BY <1>1, <3>1, <3>2 DEF Close, CloseVotesStand
  <2>2. QED BY <1>1, <2>1 DEF Close, CloseVotesStand
<1>4. CloserIsLive'
  BY <1>1, <1>2 DEF Close, CloserIsLive
<1>5. ASSUME NEW r \in Requests, Closing(r) PROVE Closing(r)'
  <2>1. r # s
    BY <1>1, <1>5 DEF Closing, Close, Requesting
  <2>2. QED BY <1>1, <1>2, <1>5, <2>1, StaysClosing DEF LiveAt
<1>6. ClosePending'
  <2>1. CASE by[s] \notin Roster
    BY <1>1, <1>5, <2>1 DEF Close, ClosePending
  <2>2. CASE by[s] \in Roster
    <3>1. by[s] \in LiveAt(at[s])'
      <4>1. lastPoll[by[s]] >= at[s]
        BY <1>1, <2>2 DEF Close, CloserIsLive
      <4>2. at[s] - lastPoll[by[s]] <= GhostAfter
        BY <2>2, <4>1, Clocks
      <4>3. QED BY <1>1, <2>2, <4>2 DEF LiveAt
    <3>2. Closing(s)'
      BY <1>1, <3>1 DEF Closing
    <3>3. QED BY <3>2 DEF ClosePending
  <2>3. QED BY <2>1, <2>2
<1>7. QED BY <1>2, <1>3, <1>4, <1>6 DEF Close

LEMMA CountClose == ASSUME Sound, Close, NEW s \in Requests, Count(s) PROVE Close'
<1>1. /\ UNCHANGED <<roomVars, rowVars, kind, by, at, history, now>> /\ Roster' = Roster
      /\ pc[s] = "count" /\ kind[s] = "close" /\ InFlight(s) /\ reply[s] \notin {"conflict", "dropped"}
  BY DEF Count, rowVars, Roster, Close, Requesting, InFlight
<1>2. Requesting' /\ \A r \in Requests \ {s} : pc'[r] = pc[r] /\ reply'[r] = reply[r]
  BY <1>1, HandlerRequesting DEF Count, Close, roomVars
<1>3. pc'[s] \in {"cas", "done"} /\ (Agreed(wantsClose, at[s]) => pc'[s] = "cas")
  BY DEF Count, Goto, Reply, Sound, RequestTypes
<1>4. CloseVotesStand' /\ CloserIsLive'
  BY <1>1, <1>2, <1>3 DEF Close, CloseVotesStand, CloserIsLive, roomVars, rowVars, history
<1>5. ASSUME NEW r \in Requests, r # s, Closing(r) PROVE Closing(r)'
  BY <1>1, <1>2, <1>5, StaysClosing DEF LiveAt, rowVars
<1>6. ASSUME Closing(s), joined \subseteq ending, ~closed PROVE Closing(s)'
  <2>1. LiveAt(at[s]) # {} /\ LiveAt(at[s]) \subseteq Roster
    BY <1>1, <1>6 DEF Closing, LiveAt
  <2>2. Roster \subseteq wantsClose
    BY <1>6 DEF Sound, RowTypes, Close, CloseVotesStand
  <2>3. Agreed(wantsClose, at[s])
    BY <2>1, <2>2, LiveIsFinite, EverybodyIsEnough DEF Agreed
  <2>4. QED BY <1>1, <1>3, <2>3 DEF Closing
<1>7. ClosePending'
  BY <1>1, <1>5, <1>6 DEF Close, ClosePending, roomVars, history
<1>8. QED BY <1>2, <1>4, <1>7 DEF Close

\* A CAS that is lost, and a handler cut off, excuse the stall.
LEMMA EndClose == ASSUME Sound, Close, NEW s \in Requests, CasMiss(s) \/ Drop(s) PROVE Close'
<1>1. /\ UNCHANGED <<roomVars, rowVars, kind, by, at, history, now>> /\ Roster' = Roster
      /\ InFlight(s) /\ reply[s] \notin {"conflict", "dropped"}
      /\ pc'[s] = "done" /\ reply'[s] \in {"conflict", "dropped"}
  BY DEF CasMiss, Drop, Reply, rowVars, Roster, Close, Requesting, InFlight, Sound, RequestTypes
<1>2. Requesting' /\ \A r \in Requests \ {s} : pc'[r] = pc[r] /\ reply'[r] = reply[r]
  BY <1>1, HandlerRequesting DEF CasMiss, Drop, Close, roomVars
<1>3. CloseVotesStand' /\ CloserIsLive'
  BY <1>1, <1>2 DEF Close, CloseVotesStand, CloserIsLive, roomVars, rowVars, history
<1>4. ASSUME NEW r \in Requests, Closing(r) PROVE Closing(r)'
  <2>1. CASE r = s
    BY <1>1, <1>4, <2>1 DEF Closing
  <2>2. CASE r # s
    BY <1>1, <1>2, <1>4, <2>2, StaysClosing DEF LiveAt, rowVars
  <2>3. QED BY <2>1, <2>2
<1>5. ClosePending'
  BY <1>1, <1>4 DEF Close, ClosePending, roomVars, history
<1>6. QED BY <1>2, <1>3, <1>5 DEF Close

\* Once the room is closed there is nothing left to stall.
LEMMA ClosedClose == ASSUME Sound, Close, NEW s \in Requests, Cas(s) \/ Clear(s) PROVE Close'
<1>1. /\ UNCHANGED <<lastPoll, kind, by, at, history, now>> /\ Roster' = Roster
      /\ pc[s] \in {"cas", "clear"} /\ InFlight(s) /\ closed' /\ pc'[s] \in {"clear", "done"}
  BY DEF Cas, Clear, Goto, Reply, roomVars, rowVars, Roster, Close, Requesting, InFlight, Sound, RequestTypes
<1>2. Requesting' /\ \A r \in Requests \ {s} : pc'[r] = pc[r] /\ reply'[r] = reply[r]
  BY <1>1, HandlerRequesting DEF Cas, Clear, Close
<1>3. CloseVotesStand' /\ CloserIsLive' /\ ClosePending'
  BY <1>1, <1>2 DEF Close, CloseVotesStand, CloserIsLive, ClosePending, history
<1>4. QED BY <1>2, <1>3 DEF Close

LEMMA StutterClose == ASSUME Close, UNCHANGED vars PROVE Close'
BY DEF Close, Requesting, InFlight, CloseVotesStand, CloserIsLive, ClosePending, Closing, LiveAt, Roster,
       vars, roomVars, rowVars, reqVars, history

LEMMA StepClose ==
  ASSUME MaxHandling <= GhostAfter, Sound, Close, [Next]_vars PROVE Close'
BY TickClose, PollClose, PruneClose, ArriveClose, MessageClose, TouchClose, VoteClose, CountClose,
   EndClose, ClosedClose, StutterClose
DEF Next, Handle

\* While no handler outlasts GhostAfter: when everybody who ever joined has
\* voted to close and has not spoken since, whatever was written, pruned, said
\* and taken back in between, the room is closed or a closer was told to retry.
THEOREM NoCloseStalls == Spec => []NoStalledClose
<1>1. CASE MaxHandling <= GhostAfter
  <2>1. Close => NoStalledClose
    BY DEF Close, ClosePending, Closing, NoStalledClose, Settled, InFlight
  <2>2. QED BY <1>1, <2>1, CloseInit, StepClose, ConsensusSound, PTL DEF Spec
<1>2. CASE ~(MaxHandling <= GhostAfter)
  <2>1. NoStalledClose
    BY <1>2 DEF NoStalledClose
  <2>2. QED BY <2>1, PTL
<1>3. QED BY <1>1, <1>2
=============================================================================
