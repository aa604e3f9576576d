-------------------------- MODULE PollLoop_proofs ---------------------------
(* Proofs about PollLoop, for any two agents, options and budgets: the      *)
(* types, with every count within its budget; that a loop on the line keeps *)
(* its agent from looking like a ghost; and that a loop gives up only on a  *)
(* counterpart whose silence has lasted through the whole hold.             *)
(*                                                                          *)
(* Both arguments are about time.  What an agent's age may still grow to    *)
(* before its loop's next wait arrives is bounded by the sleep it is in and *)
(* the errors it may still run into, and HeartbeatAssumption says that this *)
(* fits into GhostAfter.                                                    *)
EXTENDS PollLoop, TLAPS

-----------------------------------------------------------------------------
(* The constants.                                                           *)

LEMMA ConstantTypes ==
  /\ GhostAfter \in Nat /\ Park \in Nat /\ JoinBackoff \in Nat /\ StaleBackoff \in Nat
  /\ ErrorBackoff \in Nat /\ MaxJoin \in Nat /\ MaxStale \in Nat /\ MaxPolls \in Nat
  /\ EscalateAfter \in Nat /\ QuietCap \in Nat /\ MinSleep \in Nat /\ MaxErrors \in Nat
  /\ MinSleep > 0 /\ MaxErrors > 0 /\ Park > 0 /\ MaxJoin > 0 /\ MaxStale > 0
  /\ Hints \subseteq Nat
BY PollLoopAssumption

LEMMA LongestFacts ==
  /\ LongestSleep \in Nat
  /\ \A m \in Sleeps : m <= LongestSleep
<1>1. \E n \in Sleeps : \A m \in Sleeps : m <= n
  BY PollLoopAssumption
<1>2. LongestSleep \in Sleeps /\ \A m \in Sleeps : m <= LongestSleep
  BY <1>1 DEF LongestSleep
<1>3. Sleeps \subseteq Nat
  BY ConstantTypes DEF Sleeps
<1> QED
  BY <1>2, <1>3

\* A quiet hold sleeps for a while, and no longer than the longest sleep.
LEMMA BackoffFacts ==
  ASSUME NEW base \in {JoinBackoff, StaleBackoff}, NEW quiet \in Nat
  PROVE  /\ QuietBackoff(base, quiet) \in Nat
         /\ 0 < QuietBackoff(base, quiet) /\ QuietBackoff(base, quiet) <= LongestSleep
<1>1. /\ base \in Nat /\ QuietCap \in Nat /\ MinSleep \in Nat /\ EscalateAfter \in Nat
      /\ 0 < MinSleep
  BY ConstantTypes
<1>2. base <= LongestSleep /\ QuietCap <= LongestSleep /\ MinSleep <= LongestSleep
      /\ LongestSleep \in Nat
  BY LongestFacts DEF Sleeps
<1> QED
  BY <1>1, <1>2 DEF QuietBackoff, Larger

LEMMA HintFacts ==
  ASSUME NEW h \in Hints
  PROVE  /\ Larger(h, MinSleep) \in Nat
         /\ 0 < Larger(h, MinSleep) /\ Larger(h, MinSleep) <= LongestSleep
<1>1. h \in Nat /\ MinSleep \in Nat /\ 0 < MinSleep
  BY ConstantTypes
<1>2. h <= LongestSleep /\ MinSleep <= LongestSleep /\ LongestSleep \in Nat
  BY LongestFacts DEF Sleeps
<1> QED
  BY <1>1, <1>2 DEF Larger

\* Every count starts within its budget.
LEMMA ZeroFits ==
  /\ 0 \in 0 .. MaxErrors - 1 /\ 0 \in 0 .. MaxPolls
  /\ 0 \in 0 .. MaxJoin + LongestSleep /\ 0 \in 0 .. MaxStale + LongestSleep
<1>1. /\ MaxErrors \in Nat /\ MaxErrors > 0 /\ MaxPolls \in Nat
      /\ MaxJoin \in Nat /\ MaxStale \in Nat /\ LongestSleep \in Nat
  BY ConstantTypes, LongestFacts
<1> QED
  BY <1>1

\* There are two agents.
LEMMA TwoAgents ==
  ASSUME NEW p \in Agents
  PROVE  /\ Other(p) \in Agents /\ Other(p) # p
         /\ \A q \in Agents : q # p => q = Other(p)
<1>1. PICK a \in Agents, b \in Agents : a # b /\ Agents = {a, b}
  BY PollLoopAssumption
<1>2. \E q \in Agents : q # p
  BY <1>1
<1>3. Other(p) \in Agents /\ Other(p) # p
  BY <1>2 DEF Other
<1> QED
  BY <1>1, <1>3

-----------------------------------------------------------------------------
(* The types.                                                               *)

RoomOK ==
  /\ Roster \subseteq Agents /\ age \in [Roster -> 0 .. Oldest]
  /\ left \subseteq Agents /\ mail \subseteq Roster /\ away \subseteq Agents
  /\ halted \in BOOLEAN

\* A loop that is off holds nothing, and each deadline is within its bound.
LoopOK(p) ==
  /\ pc[p] \in {"off", "gave up", "call"} => timer[p] = 0
  /\ pc[p] = "parked" => met[p] /\ timer[p] <= Park
  /\ pc[p] = "sleep" /\ errors[p] = 0 => timer[p] <= LongestSleep
  /\ pc[p] = "sleep" /\ errors[p] # 0 => timer[p] <= ErrorBackoff
  /\ ~Running(p) => ~met[p] /\ ~announced[p] /\ staleWait[p] = 0 /\ errors[p] = 0

LoopsOK ==
  /\ pc \in [Agents -> {"off", "gave up", "call", "parked", "sleep"}]
  /\ timer \in [Agents -> Nat]
  /\ errors \in [Agents -> 0 .. MaxErrors - 1]
  /\ empty \in [Agents -> 0 .. MaxPolls]
  /\ joinWait \in [Agents -> 0 .. MaxJoin + LongestSleep]
  /\ staleWait \in [Agents -> 0 .. MaxStale + LongestSleep]
  /\ announced \in [Agents -> BOOLEAN] /\ met \in [Agents -> BOOLEAN]
  /\ \A p \in Agents : LoopOK(p)

Inv == RoomOK /\ LoopsOK

\* The parts together are the type invariant.
LEMMA InvTypes == Inv => TypeOK
<1> SUFFICES ASSUME Inv PROVE TypeOK
  OBVIOUS
<1>1. age \in UNION {[S -> 0 .. Oldest] : S \in SUBSET Agents}
  BY DEF Inv, RoomOK
<1>2. timer \in [Agents -> 0 .. Park + LongestSleep + ErrorBackoff]
  <2>1. ASSUME NEW p \in Agents PROVE timer[p] \in 0 .. Park + LongestSleep + ErrorBackoff
    <3>1. /\ pc[p] \in {"off", "gave up", "call", "parked", "sleep"}
          /\ timer[p] \in Nat /\ LoopOK(p)
      BY DEF Inv, LoopsOK
    <3>2. timer[p] = 0 \/ timer[p] <= Park \/ timer[p] <= LongestSleep \/ timer[p] <= ErrorBackoff
      BY <3>1 DEF LoopOK
    <3>3. Park \in Nat /\ LongestSleep \in Nat /\ ErrorBackoff \in Nat /\ timer[p] \in Nat
      BY <3>1, ConstantTypes, LongestFacts
    <3> QED
      BY <3>2, <3>3
  <2> QED
    BY <2>1 DEF Inv, LoopsOK
<1>3. \A p \in Agents : ~Running(p) => ~met[p] /\ ~announced[p]
  BY DEF Inv, LoopsOK, LoopOK
<1> QED
  BY <1>1, <1>2, <1>3 DEF Inv, RoomOK, LoopsOK, TypeOK

LEMMA InitInv == Init => Inv
<1> SUFFICES ASSUME Init PROVE Inv
  OBVIOUS
<1>1. RoomOK
  BY DEF Init, RoomOK, Roster
<1>2. 0 \in 0 .. MaxErrors - 1 /\ 0 \in 0 .. MaxPolls /\ 0 \in 0 .. MaxJoin + LongestSleep
      /\ 0 \in 0 .. MaxStale + LongestSleep
  BY ZeroFits
<1>3. \A p \in Agents : LoopOK(p)
  BY DEF Init, LoopOK
<1>4. LoopsOK
  BY <1>2, <1>3 DEF Init, LoopsOK
<1> QED
  BY <1>1, <1>4 DEF Inv

-----------------------------------------------------------------------------
(* What a step does to the loops.                                           *)

Others(p) ==
  \A q \in Agents : q # p =>
    /\ pc'[q] = pc[q] /\ timer'[q] = timer[q] /\ errors'[q] = errors[q]
    /\ empty'[q] = empty[q] /\ joinWait'[q] = joinWait[q] /\ staleWait'[q] = staleWait[q]
    /\ announced'[q] = announced[q] /\ met'[q] = met[q]

Exited(p) ==
  /\ pc'[p] \in {"off", "gave up"} /\ timer'[p] = 0 /\ errors'[p] = 0
  /\ staleWait'[p] = 0 /\ ~announced'[p] /\ ~met'[p]

Held(p) ==
  /\ pc'[p] = "sleep" /\ timer'[p] \in Nat /\ timer'[p] <= LongestSleep
  /\ errors'[p] = 0 /\ met'[p]

LEMMA ExitFacts ==
  ASSUME LoopsOK, NEW p \in Agents, NEW l \in {"off", "gave up"}, Exit(p, l)
  PROVE  LoopsOK' /\ Others(p) /\ Exited(p) /\ pc'[p] = l
<1>1. /\ pc' = [pc EXCEPT ![p] = l] /\ timer' = [timer EXCEPT ![p] = 0]
      /\ errors' = [errors EXCEPT ![p] = 0] /\ empty' = [empty EXCEPT ![p] = 0]
      /\ joinWait' = [joinWait EXCEPT ![p] = 0] /\ staleWait' = [staleWait EXCEPT ![p] = 0]
      /\ announced' = [announced EXCEPT ![p] = FALSE] /\ met' = [met EXCEPT ![p] = FALSE]
  BY DEF Exit, Goto, ClearStale
<1>2. 0 \in 0 .. MaxErrors - 1 /\ 0 \in 0 .. MaxPolls /\ 0 \in 0 .. MaxJoin + LongestSleep
      /\ 0 \in 0 .. MaxStale + LongestSleep
  BY ZeroFits
<1>3. Others(p) /\ Exited(p) /\ pc'[p] = l
  BY <1>1 DEF LoopsOK, Others, Exited
<1>4. \A q \in Agents : LoopOK(q)'
  BY <1>3 DEF LoopsOK, LoopOK, Others, Exited, Running
<1>5. /\ pc' \in [Agents -> {"off", "gave up", "call", "parked", "sleep"}]
      /\ timer' \in [Agents -> Nat]
      /\ errors' \in [Agents -> 0 .. MaxErrors - 1]
      /\ empty' \in [Agents -> 0 .. MaxPolls]
      /\ joinWait' \in [Agents -> 0 .. MaxJoin + LongestSleep]
      /\ staleWait' \in [Agents -> 0 .. MaxStale + LongestSleep]
      /\ announced' \in [Agents -> BOOLEAN] /\ met' \in [Agents -> BOOLEAN]
  BY <1>1, <1>2 DEF LoopsOK
<1> QED
  BY <1>3, <1>4, <1>5 DEF LoopsOK

\* The room is answered; whatever the reason, the loop sleeps on it.
LEMMA HoldFacts ==
  ASSUME LoopsOK, NEW p \in Agents, NEW secs \in Nat, secs <= LongestSleep, Hold(p, secs)
  PROVE  /\ pc' = [pc EXCEPT ![p] = "sleep"] /\ timer' = [timer EXCEPT ![p] = secs]
         /\ errors' = [errors EXCEPT ![p] = 0] /\ met' = [met EXCEPT ![p] = TRUE]
         /\ Held(p)
         /\ pc' \in [Agents -> {"off", "gave up", "call", "parked", "sleep"}]
         /\ timer' \in [Agents -> Nat]
         /\ errors' \in [Agents -> 0 .. MaxErrors - 1]
         /\ met' \in [Agents -> BOOLEAN]
<1>1. /\ pc' = [pc EXCEPT ![p] = "sleep"] /\ timer' = [timer EXCEPT ![p] = secs]
      /\ errors' = [errors EXCEPT ![p] = 0] /\ met' = [met EXCEPT ![p] = TRUE]
  BY DEF Hold, Goto
<1>2. Held(p)
  BY <1>1 DEF LoopsOK, Held
<1> QED
  BY <1>1, <1>2, ZeroFits DEF LoopsOK

\* A loop that sleeps is well formed, and so are those left alone.
LEMMA HeldLoops ==
  ASSUME LoopsOK, NEW p \in Agents, Others(p), Held(p)
  PROVE  \A q \in Agents : LoopOK(q)'
<1>1. \A q \in Agents : q # p => LoopOK(q)'
  BY DEF LoopsOK, LoopOK, Others, Running
<1>2. LoopOK(p)'
  BY DEF LoopOK, Held, Running
<1> QED
  BY <1>1, <1>2

LEMMA TimeoutFacts ==
  ASSUME LoopsOK, NEW p \in Agents, NEW h \in Hints, OnTimeout(p, h)
  PROVE  LoopsOK' /\ Others(p)
         /\ \/ Exited(p) /\ pc'[p] = "off"
            \/ Held(p) /\ staleWait'[p] = 0
<1>1. CASE MaxPolls # 0 /\ empty[p] + 1 >= MaxPolls
  BY <1>1, ExitFacts DEF OnTimeout
<1>2. CASE ~(MaxPolls # 0 /\ empty[p] + 1 >= MaxPolls)
  <2>1. /\ empty' = [empty EXCEPT ![p] = IF MaxPolls = 0 THEN 0 ELSE empty[p] + 1]
        /\ ClearStale(p)
        /\ Hold(p, Larger(h, MinSleep))
        /\ UNCHANGED joinWait
    BY <1>2 DEF OnTimeout
  <2> DEFINE n == IF MaxPolls = 0 THEN 0 ELSE empty[p] + 1
  <2>2. n \in 0 .. MaxPolls
    <3>1. MaxPolls \in Nat /\ empty[p] \in 0 .. MaxPolls
      BY ConstantTypes DEF LoopsOK
    <3> QED
      BY <1>2, <3>1
  <2>3. empty' = [empty EXCEPT ![p] = n]
    BY <2>1
  <2> HIDE DEF n
  <2>4. /\ pc' = [pc EXCEPT ![p] = "sleep"]
        /\ timer' = [timer EXCEPT ![p] = Larger(h, MinSleep)]
        /\ errors' = [errors EXCEPT ![p] = 0] /\ met' = [met EXCEPT ![p] = TRUE]
        /\ Held(p)
        /\ pc' \in [Agents -> {"off", "gave up", "call", "parked", "sleep"}]
        /\ timer' \in [Agents -> Nat]
        /\ errors' \in [Agents -> 0 .. MaxErrors - 1]
        /\ met' \in [Agents -> BOOLEAN]
    BY <2>1, HintFacts, HoldFacts
  <2>5. /\ staleWait' = [staleWait EXCEPT ![p] = 0] /\ joinWait' = joinWait
        /\ announced' = [announced EXCEPT ![p] = FALSE]
    BY <2>1 DEF ClearStale
  <2>6. Others(p) /\ staleWait'[p] = 0
    BY <2>3, <2>4, <2>5 DEF LoopsOK, Others
  <2>7. LoopsOK'
    BY <2>2, <2>3, <2>4, <2>5, <2>6, HeldLoops, ZeroFits DEF LoopsOK
  <2> QED
    BY <2>4, <2>6, <2>7
<1> QED
  BY <1>1, <1>2

LEMMA AwaitingFacts ==
  ASSUME LoopsOK, NEW p \in Agents, OnAwaiting(p)
  PROVE  LoopsOK' /\ Others(p)
         /\ \/ Exited(p) /\ pc'[p] = "off"
            \/ Held(p) /\ staleWait'[p] = staleWait[p]
<1>1. CASE joinWait[p] >= MaxJoin
  BY <1>1, ExitFacts DEF OnAwaiting
<1>2. CASE ~(joinWait[p] >= MaxJoin)
  <2> DEFINE secs == QuietBackoff(JoinBackoff, joinWait[p])
             n == joinWait[p] + secs
  <2>1. /\ joinWait' = [joinWait EXCEPT ![p] = n]
        /\ Hold(p, secs)
        /\ UNCHANGED <<empty, staleWait, announced>>
    BY <1>2 DEF OnAwaiting
  <2>2. joinWait[p] \in Nat
    <3>1. joinWait[p] \in 0 .. MaxJoin + LongestSleep
      BY DEF LoopsOK
    <3> QED
      BY <3>1
  <2>3. secs \in Nat /\ secs <= LongestSleep
    BY <2>2, BackoffFacts
  <2> HIDE DEF secs
  <2>4. n \in 0 .. MaxJoin + LongestSleep
    <3>1. MaxJoin \in Nat /\ LongestSleep \in Nat
      BY ConstantTypes, LongestFacts
    <3> QED
      BY <1>2, <2>2, <2>3, <3>1
  <2> HIDE DEF n
  <2>5. /\ pc' = [pc EXCEPT ![p] = "sleep"] /\ timer' = [timer EXCEPT ![p] = secs]
        /\ errors' = [errors EXCEPT ![p] = 0] /\ met' = [met EXCEPT ![p] = TRUE]
        /\ Held(p)
        /\ pc' \in [Agents -> {"off", "gave up", "call", "parked", "sleep"}]
        /\ timer' \in [Agents -> Nat]
        /\ errors' \in [Agents -> 0 .. MaxErrors - 1]
        /\ met' \in [Agents -> BOOLEAN]
    BY <2>1, <2>3, HoldFacts
  <2>6. Others(p)
    BY <2>1, <2>5 DEF LoopsOK, Others
  <2>7. LoopsOK'
    BY <2>1, <2>4, <2>5, <2>6, HeldLoops DEF LoopsOK
  <2> QED
    BY <2>1, <2>5, <2>6, <2>7
<1> QED
  BY <1>1, <1>2

LEMMA StaleFacts ==
  ASSUME LoopsOK, NEW p \in Agents, OnStale(p)
  PROVE  LoopsOK' /\ Others(p)
         /\ \/ Exited(p) /\ staleWait[p] >= MaxStale
            \/ Held(p) /\ staleWait'[p] = staleWait[p] + timer'[p]
<1>1. CASE staleWait[p] >= MaxStale
  BY <1>1, ExitFacts DEF OnStale
<1>2. CASE ~(staleWait[p] >= MaxStale)
  <2> DEFINE secs == QuietBackoff(StaleBackoff, staleWait[p])
             n == staleWait[p] + secs
  <2>1. /\ staleWait' = [staleWait EXCEPT ![p] = n]
        /\ announced' = [announced EXCEPT ![p] = TRUE]
        /\ Hold(p, secs)
        /\ UNCHANGED <<empty, joinWait>>
    BY <1>2 DEF OnStale
  <2>2. staleWait[p] \in Nat
    <3>1. staleWait[p] \in 0 .. MaxStale + LongestSleep
      BY DEF LoopsOK
    <3> QED
      BY <3>1
  <2>3. secs \in Nat /\ secs <= LongestSleep
    BY <2>2, BackoffFacts
  <2> HIDE DEF secs
  <2>4. n \in 0 .. MaxStale + LongestSleep
    <3>1. MaxStale \in Nat /\ LongestSleep \in Nat
      BY ConstantTypes, LongestFacts
    <3> QED
      BY <1>2, <2>2, <2>3, <3>1
  <2>5. n = staleWait[p] + secs
    OBVIOUS
  <2> HIDE DEF n
  <2>6. /\ pc' = [pc EXCEPT ![p] = "sleep"] /\ timer' = [timer EXCEPT ![p] = secs]
        /\ errors' = [errors EXCEPT ![p] = 0] /\ met' = [met EXCEPT ![p] = TRUE]
        /\ Held(p)
        /\ pc' \in [Agents -> {"off", "gave up", "call", "parked", "sleep"}]
        /\ timer' \in [Agents -> Nat]
        /\ errors' \in [Agents -> 0 .. MaxErrors - 1]
        /\ met' \in [Agents -> BOOLEAN]
    BY <2>1, <2>3, HoldFacts
  <2>7. Others(p) /\ staleWait'[p] = n /\ timer'[p] = secs
    BY <2>1, <2>6 DEF LoopsOK, Others
  <2>8. LoopsOK'
    BY <2>1, <2>4, <2>6, <2>7, HeldLoops DEF LoopsOK
  <2> QED
    BY <2>5, <2>6, <2>7, <2>8
<1> QED
  BY <1>1, <1>2

\* The next call, a park and an error leave a loop's spell and budgets alone.
Called(p) ==
  /\ pc'[p] = "call" /\ timer'[p] = 0
  /\ errors'[p] = errors[p] /\ staleWait'[p] = staleWait[p] /\ met'[p] = met[p]

ParkedNow(p) ==
  /\ pc'[p] = "parked" /\ timer'[p] \in Nat /\ timer'[p] <= Park
  /\ errors'[p] = errors[p] /\ staleWait'[p] = staleWait[p] /\ met'[p]

Failed(p) ==
  /\ errors[p] + 1 <= MaxErrors - 1
  /\ pc'[p] = "sleep" /\ timer'[p] = ErrorBackoff
  /\ errors'[p] = errors[p] + 1 /\ staleWait'[p] = staleWait[p] /\ met'[p] = met[p]

LEMMA CalledFacts ==
  ASSUME LoopsOK, NEW p \in Agents, Launch(p) \/ Resume(p)
  PROVE  LoopsOK' /\ Others(p) /\ Called(p)
<1>1. /\ pc' = [pc EXCEPT ![p] = "call"] /\ timer' = [timer EXCEPT ![p] = 0]
      /\ UNCHANGED <<errors, empty, joinWait, staleWait, announced, met>>
  BY DEF Launch, Resume, Goto, budgets
<1>2. Others(p) /\ Called(p)
  BY <1>1 DEF LoopsOK, Others, Called
<1>3. \A q \in Agents : LoopOK(q)'
  BY <1>2 DEF LoopsOK, LoopOK, Others, Called, Running
<1> QED
  BY <1>1, <1>2, <1>3 DEF LoopsOK

LEMMA ParkFacts ==
  ASSUME LoopsOK, NEW p \in Agents, ParkFor(p)
  PROVE  LoopsOK' /\ Others(p) /\ ParkedNow(p)
<1>1. PICK t \in Nat : t <= Park /\ Goto(p, "parked", t)
  BY ConstantTypes DEF ParkFor
<1>2. /\ pc' = [pc EXCEPT ![p] = "parked"] /\ timer' = [timer EXCEPT ![p] = t]
      /\ met' = [met EXCEPT ![p] = TRUE]
      /\ UNCHANGED <<errors, empty, joinWait, staleWait, announced>>
  BY <1>1 DEF ParkFor, Goto, budgets
<1>3. Others(p) /\ ParkedNow(p)
  BY <1>1, <1>2 DEF LoopsOK, Others, ParkedNow
<1>4. \A q \in Agents : LoopOK(q)'
  BY <1>3 DEF LoopsOK, LoopOK, Others, ParkedNow, Running
<1> QED
  BY <1>2, <1>3, <1>4 DEF LoopsOK

LEMMA FailFacts ==
  ASSUME LoopsOK, NEW p \in Agents, WaitFails(p)
  PROVE  LoopsOK' /\ Others(p) /\ ((Exited(p) /\ pc'[p] = "off") \/ Failed(p))
<1>1. CASE errors[p] + 1 >= MaxErrors
  BY <1>1, ExitFacts DEF WaitFails
<1>2. CASE ~(errors[p] + 1 >= MaxErrors)
  <2>1. /\ errors' = [errors EXCEPT ![p] = errors[p] + 1]
        /\ pc' = [pc EXCEPT ![p] = "sleep"] /\ timer' = [timer EXCEPT ![p] = ErrorBackoff]
        /\ UNCHANGED <<empty, joinWait, staleWait, announced, met>>
    BY <1>2 DEF WaitFails, Goto, budgets
  <2>2. errors[p] \in Nat /\ errors[p] + 1 <= MaxErrors - 1
        /\ errors[p] + 1 \in 0 .. MaxErrors - 1
    <3>1. MaxErrors \in Nat /\ errors[p] \in 0 .. MaxErrors - 1
      BY ConstantTypes DEF LoopsOK
    <3> QED
      BY <1>2, <3>1
  <2>3. ErrorBackoff \in Nat
    BY ConstantTypes
  <2>4. Others(p)
    BY <2>1 DEF LoopsOK, Others
  <2>5. Failed(p)
    BY <2>1, <2>2 DEF LoopsOK, Failed
  <2>6. \A q \in Agents : q # p => LoopOK(q)'
    BY <2>4 DEF LoopsOK, LoopOK, Others, Running
  <2>7. LoopOK(p)'
    BY <2>2, <2>3, <2>5 DEF LoopOK, Failed, Running
  <2> QED
    BY <2>1, <2>2, <2>3, <2>4, <2>5, <2>6, <2>7 DEF LoopsOK
<1> QED
  BY <1>1, <1>2

\* The steps of one loop, by what they make of it.
LEMMA CallKinds ==
  ASSUME LoopsOK, NEW p \in Agents, Call(p)
  PROVE  LoopsOK' /\ Others(p)
         /\ \/ Exited(p) /\ pc'[p] = "off"
            \/ Other(p) \notin Roster /\ Held(p) /\ staleWait'[p] = staleWait[p]
            \/ /\ Silent(p) /\ Exited(p) /\ staleWait[p] >= MaxStale
            \/ /\ Silent(p) /\ Held(p) /\ staleWait'[p] = staleWait[p] + timer'[p]
            \/ ParkedNow(p)
<1>1. \/ Exit(p, "off")
      \/ Other(p) \notin Roster /\ OnAwaiting(p)
      \/ Silent(p) /\ OnStale(p)
      \/ ParkFor(p)
  BY DEF Call, Gates
<1> QED
  BY <1>1, ExitFacts, AwaitingFacts, StaleFacts, ParkFacts

LEMMA EndKinds ==
  ASSUME LoopsOK, NEW p \in Agents, Answered(p) \/ Proposed(p) \/ Kill(p)
  PROVE  LoopsOK' /\ Others(p) /\ Exited(p) /\ pc'[p] = "off"
BY ExitFacts DEF Answered, Proposed, Kill

LEMMA TimeoutKinds ==
  ASSUME LoopsOK, NEW p \in Agents, TimedOut(p)
  PROVE  LoopsOK' /\ Others(p) /\ pc[p] = "parked" /\ timer[p] = 0
         /\ \/ /\ Silent(p) /\ Exited(p) /\ staleWait[p] >= MaxStale
            \/ /\ Silent(p) /\ Held(p) /\ staleWait'[p] = staleWait[p] + timer'[p]
            \/ Exited(p) /\ pc'[p] = "off"
            \/ Held(p) /\ staleWait'[p] = 0
<1>1. \/ Silent(p) /\ OnStale(p)
      \/ \E h \in Hints : OnTimeout(p, h)
  BY DEF TimedOut
<1>2. pc[p] = "parked" /\ timer[p] = 0
  BY DEF TimedOut
<1> QED
  BY <1>1, <1>2, StaleFacts, TimeoutFacts

-----------------------------------------------------------------------------
(* What a step does to the room.                                            *)

LEMMA OldestFacts == Oldest \in Nat /\ 0 \in 0 .. Oldest /\ Oldest = GhostAfter + MaxStale + 1
<1>1. GhostAfter \in Nat /\ MaxStale \in Nat
  BY ConstantTypes
<1> QED
  BY <1>1 DEF Oldest

\* A poll starts the caller's age anew, and leaves the others'.
LEMMA PolledFacts ==
  ASSUME RoomOK, NEW p \in Agents, Polled(p)
  PROVE  /\ Roster' = Roster \cup {p} /\ age' \in [Roster' -> 0 .. Oldest]
         /\ Roster' \subseteq Agents
         /\ age'[p] = 0 /\ \A q \in Roster : q # p => age'[q] = age[q]
<1>1. age' = [q \in Roster \cup {p} |-> IF q = p THEN 0 ELSE age[q]]
  BY DEF Polled
<1>2. Roster' = Roster \cup {p}
  BY <1>1 DEF Roster
<1>3. \A q \in Roster \cup {p} : (IF q = p THEN 0 ELSE age[q]) \in 0 .. Oldest
  BY OldestFacts DEF RoomOK
<1> QED
  BY <1>1, <1>2, <1>3 DEF RoomOK

LEMMA PruneFacts ==
  ASSUME RoomOK, NEW p \in Agents, Prune(p)
  PROVE  /\ Roster' = Roster \ {p} /\ age' \in [Roster' -> 0 .. Oldest]
         /\ p \in Roster /\ left' = left \cup {p}
         /\ \A q \in Roster' : age'[q] = age[q]
<1>1. age' = [q \in Roster \ {p} |-> age[q]] /\ left' = left \cup {p} /\ p \in Roster
  BY DEF Prune
<1>2. Roster' = Roster \ {p}
  BY <1>1 DEF Roster
<1> QED
  BY <1>1, <1>2 DEF RoomOK

LEMMA TickFacts ==
  ASSUME Inv, Tick
  PROVE  /\ Roster' = Roster /\ age' \in [Roster' -> 0 .. Oldest]
         /\ \A q \in Roster : age'[q] = IF age[q] = Oldest THEN Oldest ELSE age[q] + 1
         /\ \A p \in Agents : timer'[p] = IF timer[p] = 0 THEN 0 ELSE timer[p] - 1
         /\ \A p \in Agents : ~Due(p)
         /\ UNCHANGED <<left, mail, away, halted, pc, errors, empty, joinWait, staleWait,
                        announced, met>>
<1>1. /\ age' = [p \in Roster |-> IF age[p] = Oldest THEN Oldest ELSE age[p] + 1]
      /\ timer' = [p \in Agents |-> IF timer[p] = 0 THEN 0 ELSE timer[p] - 1]
      /\ \A p \in Agents : ~Due(p)
  BY DEF Tick
<1>2. UNCHANGED <<left, mail, away, halted, pc, errors, empty, joinWait, staleWait,
                  announced, met>>
  BY DEF Tick, budgets
<1>3. Roster' = Roster
  BY <1>1 DEF Roster
<1>4. \A q \in Roster : age[q] \in 0 .. Oldest /\
        (IF age[q] = Oldest THEN Oldest ELSE age[q] + 1) \in 0 .. Oldest
  <2>1. \A q \in Roster : age[q] \in 0 .. Oldest
    BY DEF Inv, RoomOK
  <2> QED
    BY <2>1, OldestFacts
<1> QED
  BY <1>1, <1>2, <1>3, <1>4

LEMMA RoomStep ==
  ASSUME Inv, [Next]_vars
  PROVE  RoomOK'
<1> USE DEF Inv
<1>1. CASE UNCHANGED roomVars
  BY <1>1 DEF roomVars, RoomOK, Roster
<1>2. CASE Halt
  BY <1>2 DEF Halt, RoomOK, Roster
<1>3. CASE Tick
  BY <1>3, TickFacts DEF RoomOK
<1>4. ASSUME NEW p \in Agents,
             Join(p) \/ Prune(p) \/ Send(p) \/ Call(p) \/ Answered(p)
      PROVE  RoomOK'
  <2>1. CASE Join(p)
    BY <2>1, PolledFacts DEF Join, RoomOK
  <2>2. CASE Prune(p)
    BY <2>2, PruneFacts DEF Prune, RoomOK
  <2>3. CASE Send(p)
    BY <2>3 DEF Send, RoomOK, Roster
  <2>4. CASE Call(p)
    <3>1. Polled(p) /\ UNCHANGED <<left, away, halted>>
      BY <2>4 DEF Call
    <3>2. mail' \subseteq mail
      BY <2>4 DEF Call, Gates
    <3> QED
      BY <3>1, <3>2, PolledFacts DEF RoomOK
  <2>5. CASE Answered(p)
    <3>1. UNCHANGED <<age, left, away, halted>> /\ mail' \subseteq mail
      BY <2>5 DEF Answered
    <3> QED
      BY <3>1 DEF RoomOK, Roster
  <2> QED
    BY <1>4, <2>1, <2>2, <2>3, <2>4, <2>5
<1>5. \/ UNCHANGED roomVars \/ Halt \/ Tick
      \/ \E p \in Agents : Join(p) \/ Prune(p) \/ Send(p) \/ Call(p) \/ Answered(p)
  BY DEF Next, vars, LoopStep, Launch, Resume, TimedOut, WaitFails, Proposed, Kill
<1> QED
  BY <1>1, <1>2, <1>3, <1>4, <1>5

LEMMA TickLoops ==
  ASSUME Inv, Tick
  PROVE  LoopsOK'
<1>1. \A p \in Agents : timer[p] \in Nat
  BY DEF Inv, LoopsOK
<1>2. \A p \in Agents : timer'[p] \in Nat /\ timer'[p] <= timer[p] /\ (timer[p] = 0 => timer'[p] = 0)
  BY <1>1, TickFacts
<1>3. timer' \in [Agents -> Nat]
  <2>1. timer' = [p \in Agents |-> IF timer[p] = 0 THEN 0 ELSE timer[p] - 1]
    BY DEF Tick
  <2> QED
    BY <1>1, <2>1
<1>4. ASSUME NEW p \in Agents PROVE LoopOK(p)'
  <2>1. LoopOK(p) /\ timer[p] \in Nat
    BY DEF Inv, LoopsOK
  <2>2. UNCHANGED <<pc, errors, staleWait, announced, met>>
    BY TickFacts
  <2>3. Park \in Nat /\ LongestSleep \in Nat /\ ErrorBackoff \in Nat
    BY ConstantTypes, LongestFacts
  <2>4. \A n \in Nat : timer[p] <= n => timer'[p] <= n
    BY <1>2, <2>1
  <2> QED
    BY <1>2, <2>1, <2>2, <2>3, <2>4 DEF LoopOK, Running
<1> QED
  BY <1>3, <1>4, TickFacts DEF Inv, LoopsOK

LEMMA InvStep == Inv /\ [Next]_vars => Inv'
<1> SUFFICES ASSUME Inv, [Next]_vars PROVE Inv'
  OBVIOUS
<1>1. LoopsOK
  BY DEF Inv
<1>2. CASE UNCHANGED loopVars
  <2>1. UNCHANGED <<pc, timer, errors, empty, joinWait, staleWait, announced, met>>
    BY <1>2 DEF loopVars, budgets
  <2>2. LoopsOK'
    BY <1>1, <2>1 DEF LoopsOK, LoopOK, Running
  <2> QED
    BY <2>2, RoomStep DEF Inv
<1>3. CASE Tick
  BY <1>3, TickLoops, RoomStep DEF Inv
<1>4. ASSUME NEW p \in Agents, Launch(p) \/ LoopStep(p) \/ Proposed(p) \/ Kill(p)
      PROVE  Inv'
  <2>1. LoopsOK'
    BY <1>1, <1>4, CalledFacts, CallKinds, EndKinds, TimeoutKinds, FailFacts DEF LoopStep
  <2> QED
    BY <2>1, RoomStep DEF Inv
<1>5. \/ UNCHANGED loopVars \/ Tick
      \/ \E p \in Agents : Launch(p) \/ LoopStep(p) \/ Proposed(p) \/ Kill(p)
  BY DEF Next, vars, Join, Prune, Send, Halt
<1> QED
  BY <1>2, <1>3, <1>4, <1>5

\* Every behaviour keeps the types: no deadline is longer than a park and a
\* sleep, no run of errors reaches MAX_CONSECUTIVE_ERRORS, no count overruns
\* its budget by more than one sleep, and a loop that has ended has forgotten
\* what it was waiting for.
THEOREM PollTypes == Spec => []TypeOK
<1>1. Spec => []Inv
  BY InitInv, InvStep, PTL DEF Spec
<1> QED
  BY <1>1, InvTypes, PTL

-----------------------------------------------------------------------------
(* A loop on the line keeps its agent's last poll recent.                   *)

\* The longest that a loop goes without a poll once it has had e errors in a
\* row: the park that failed, the sleep before it, and a backoff for each error.
Lag(e) == LongestSleep + Park + e * ErrorBackoff

LEMMA ErrorSum ==
  ASSUME NEW m \in Nat, NEW e \in Nat, e <= m, NEW b \in Nat
  PROVE  /\ e * b \in Nat /\ e * b <= m * b
         /\ (e + 1) * b = e * b + b
<1>1. e * b \in Nat /\ (e + 1) * b = e * b + b
  OBVIOUS
<1>2. (m - e) \in Nat /\ (m - e) * b \in Nat
  OBVIOUS
<1>3. m * b = e * b + (m - e) * b
  OBVIOUS
<1> QED
  BY <1>1, <1>2, <1>3

LEMMA LagFacts ==
  ASSUME NEW e \in 0 .. MaxErrors - 1
  PROVE  /\ Lag(e) \in Nat /\ Lag(e) <= GhostAfter
         /\ LongestSleep + Park <= Lag(e)
         /\ Lag(e + 1) = Lag(e) + ErrorBackoff
         /\ Lag(0) = LongestSleep + Park
<1> DEFINE m == MaxErrors - 1
<1>1. /\ m \in Nat /\ e \in Nat /\ e <= m /\ ErrorBackoff \in Nat /\ Park \in Nat
      /\ GhostAfter \in Nat /\ LongestSleep \in Nat /\ MaxErrors = m + 1 /\ 0 * ErrorBackoff = 0
  BY ConstantTypes, LongestFacts
<1>2. /\ e * ErrorBackoff \in Nat /\ e * ErrorBackoff <= m * ErrorBackoff
      /\ (e + 1) * ErrorBackoff = e * ErrorBackoff + ErrorBackoff
  BY <1>1, ErrorSum
<1>3. MaxErrors * Park = m * Park + Park /\ m * Park \in Nat
  BY <1>1
<1>4. m * ErrorBackoff \in Nat
  BY <1>1
<1>5. LongestSleep + MaxErrors * Park + m * ErrorBackoff <= GhostAfter
  BY HeartbeatAssumption
<1> DEFINE x == m * Park
           y == m * ErrorBackoff
           z == e * ErrorBackoff
<1>6. LongestSleep + (x + Park) + y <= GhostAfter /\ x \in Nat /\ y \in Nat /\ z \in Nat /\ z <= y
  BY <1>2, <1>3, <1>4, <1>5
<1>7. /\ Lag(e) = LongestSleep + Park + z
      /\ Lag(e + 1) = LongestSleep + Park + (z + ErrorBackoff)
      /\ Lag(0) = LongestSleep + Park + 0
  BY <1>1, <1>2 DEF Lag
<1> HIDE DEF x, y, z, m
<1> QED
  BY <1>1, <1>6, <1>7

LagFor(p) ==
  met[p] =>
    /\ p \in Roster \cup left
    /\ p \in Roster =>
         /\ age[p] + timer[p] <= Lag(errors[p])
         /\ pc[p] = "parked" => age[p] + timer[p] <= Park

Lagging == \A p \in Agents : LagFor(p)

\* A loop that nothing happens to, in a room in which its agent has not aged.
LEMMA LagKept ==
  ASSUME Inv, NEW p \in Agents, LagFor(p),
         pc'[p] = pc[p], timer'[p] = timer[p], errors'[p] = errors[p], met'[p] = met[p],
         left \subseteq left',
         p \in Roster => p \in Roster' \cup left',
         p \in Roster' => p \notin Roster \cup left \/ (p \in Roster /\ age'[p] = age[p])
  PROVE  LagFor(p)'
BY DEF LagFor

LEMMA LagStep == Inv /\ Inv' /\ Lagging /\ [Next]_vars => Lagging'
<1> SUFFICES ASSUME Inv, Inv', Lagging, [Next]_vars PROVE Lagging'
  OBVIOUS
<1>0. /\ RoomOK /\ LoopsOK
      /\ Park \in Nat /\ LongestSleep \in Nat /\ ErrorBackoff \in Nat
      /\ 0 \in 0 .. MaxErrors - 1
      /\ \A p \in Agents : timer[p] \in Nat /\ errors[p] \in 0 .. MaxErrors - 1 /\ LagFor(p) /\ LoopOK(p)
      /\ \A p \in Roster : age[p] \in Nat
  <2>1. \A p \in Roster : age[p] \in 0 .. Oldest
    BY DEF Inv, RoomOK
  <2>2. \A p \in Roster : age[p] \in Nat
    BY <2>1, OldestFacts
  <2> QED
    BY <2>2, ConstantTypes, LongestFacts, ZeroFits DEF Inv, LoopsOK, Lagging
<1>1. ASSUME UNCHANGED loopVars, NEW p \in Agents, left \subseteq left',
             p \in Roster => p \in Roster' \cup left',
             p \in Roster' => p \notin Roster \cup left \/ (p \in Roster /\ age'[p] = age[p])
      PROVE  LagFor(p)'
  BY <1>0, <1>1, LagKept DEF loopVars, Inv
<1>2. CASE UNCHANGED vars
  BY <1>1, <1>2 DEF vars, roomVars, Lagging, Roster
<1>3. CASE Halt
  BY <1>1, <1>3 DEF Halt, Lagging, Roster
<1>4. ASSUME NEW q \in Agents, Join(q) \/ Prune(q) \/ Send(q)
      PROVE  Lagging'
  <2>1. CASE Join(q)
    <3>1. /\ Roster' = Roster \cup {q} /\ left' = left /\ q \notin Roster \cup left
          /\ \A p \in Roster : p # q => age'[p] = age[p]
          /\ UNCHANGED loopVars
      BY <1>0, <2>1, PolledFacts DEF Join
    <3> QED
      BY <1>1, <3>1 DEF Lagging
  <2>2. CASE Prune(q)
    <3>1. /\ Roster' = Roster \ {q} /\ left' = left \cup {q}
          /\ \A p \in Roster' : age'[p] = age[p]
          /\ UNCHANGED loopVars
      BY <1>0, <2>2, PruneFacts DEF Prune
    <3> QED
      BY <1>1, <3>1 DEF Lagging
  <2>3. CASE Send(q)
    BY <1>1, <2>3 DEF Send, Lagging, Roster
  <2> QED
    BY <1>4, <2>1, <2>2, <2>3
<1>5. CASE Tick
  <2>1. ASSUME NEW p \in Agents, met'[p] PROVE LagFor(p)'
    <3>1. UNCHANGED <<left, pc, errors, met>> /\ Roster' = Roster /\ ~Due(p)
      BY <1>5, TickFacts
    <3>2. pc[p] \in {"parked", "sleep"} /\ timer[p] # 0 /\ met[p]
      BY <1>0, <2>1, <3>1 DEF LoopOK, Running, Due
    <3>3. timer'[p] = timer[p] - 1 /\ timer[p] \in Nat
      BY <1>0, <1>5, <3>2, TickFacts
    <3>4. ASSUME p \in Roster
          PROVE  age[p] \in Nat /\ age'[p] \in Nat /\ age'[p] <= age[p] + 1
      <4>1. age[p] \in Nat /\ age'[p] = IF age[p] = Oldest THEN Oldest ELSE age[p] + 1
        BY <1>0, <1>5, <3>4, TickFacts
      <4> QED
        BY <4>1
    <3>5. p \in Roster => age'[p] + timer'[p] <= age[p] + timer[p]
                          /\ age'[p] + timer'[p] \in Int /\ age[p] + timer[p] \in Int
      BY <3>3, <3>4
    <3>6. Lag(errors[p]) \in Int /\ Park \in Int
      BY <1>0, LagFacts
    <3>7. LagFor(p)
      BY <1>0
    <3>8. p \in Roster => age'[p] + timer'[p] <= Lag(errors[p])
      BY <3>2, <3>5, <3>6, <3>7 DEF LagFor
    <3>9. p \in Roster /\ pc[p] = "parked" => age'[p] + timer'[p] <= Park
      BY <3>2, <3>5, <3>6, <3>7 DEF LagFor
    <3>10. p \in Roster \cup left
      BY <3>2, <3>7 DEF LagFor
    <3>11. Lag(errors[p])' = Lag(errors[p])
      BY <3>1 DEF Lag
    <3> QED
      BY <3>1, <3>8, <3>9, <3>10, <3>11 DEF LagFor
  <2> QED
    BY <2>1 DEF Lagging, LagFor
<1>6. ASSUME NEW q \in Agents, Others(q), UNCHANGED left, LagFor(q)',
             UNCHANGED age \/ (q \in Roster /\ Polled(q))
      PROVE  Lagging'
  <2>1. ASSUME NEW p \in Agents, p # q PROVE LagFor(p)'
    <3>1. Roster' = Roster /\ \A x \in Roster : x # q => age'[x] = age[x]
      BY <1>0, <1>6, PolledFacts DEF Roster
    <3> QED
      BY <1>0, <1>6, <2>1, <3>1, LagKept DEF Others
  <2> QED
    BY <1>6, <2>1 DEF Lagging
<1>7. ASSUME NEW q \in Agents, Exited(q) PROVE LagFor(q)'
  BY <1>7 DEF Exited, LagFor
<1>8. ASSUME NEW q \in Agents, Launch(q) \/ Resume(q)
      PROVE  Lagging'
  <2>1. Others(q) /\ Called(q) /\ UNCHANGED <<age, left>>
    BY <1>0, <1>8, CalledFacts DEF Launch, Resume, roomVars
  <2>2. timer[q] = 0 \/ ~met[q]
    BY <1>0, <1>8 DEF Launch, Resume, LoopOK
  <2>3. LagFor(q)'
    <3>1. LagFor(q)
      BY <1>0
    <3>2. Lag(errors[q])' = Lag(errors[q])
      BY <2>1 DEF Called, Lag
    <3> QED
      BY <2>1, <2>2, <3>1, <3>2 DEF LagFor, Called, Roster
  <2> QED
    BY <1>6, <2>1, <2>3
<1>9. ASSUME NEW q \in Agents, Call(q)
      PROVE  Lagging'
  <2>1. q \in Roster /\ Polled(q) /\ UNCHANGED left
    BY <1>9 DEF Call
  <2>2. Roster' = Roster /\ age'[q] = 0
    BY <1>0, <2>1, PolledFacts
  <2>3. Others(q) /\ (Exited(q) \/ Held(q) \/ ParkedNow(q))
    BY <1>0, <1>9, CallKinds
  <2>4. CASE Held(q)
    <3>1. timer'[q] \in Nat /\ timer'[q] <= LongestSleep /\ errors'[q] = 0 /\ pc'[q] = "sleep"
      BY <2>4 DEF Held
    <3>2. age'[q] + timer'[q] <= Lag(0)
      BY <1>0, <2>2, <3>1, LagFacts
    <3>3. Lag(errors[q])' = Lag(0)
      BY <3>1 DEF Lag
    <3>4. LagFor(q)'
      BY <2>1, <2>2, <3>1, <3>2, <3>3 DEF LagFor
    <3> QED
      BY <1>6, <2>1, <2>3, <3>4
  <2>5. CASE ParkedNow(q)
    <3>1. timer'[q] \in Nat /\ timer'[q] <= Park /\ errors'[q] = errors[q]
      BY <2>5 DEF ParkedNow
    <3>2. age'[q] + timer'[q] <= Park
      BY <1>0, <2>2, <3>1
    <3>3. Lag(errors[q])' = Lag(errors[q])
      BY <3>1 DEF Lag
    <3>4. Lag(errors[q]) \in Nat /\ LongestSleep + Park <= Lag(errors[q])
      BY <1>0, LagFacts
    <3>5. age'[q] + timer'[q] <= Lag(errors[q])
      BY <1>0, <2>2, <3>1, <3>4
    <3>6. LagFor(q)'
      BY <2>1, <2>2, <3>2, <3>3, <3>5 DEF LagFor
    <3> QED
      BY <1>6, <2>1, <2>3, <3>6
  <2> QED
    BY <1>6, <1>7, <2>1, <2>3, <2>4, <2>5
<1>10. ASSUME NEW q \in Agents, Answered(q) \/ Proposed(q) \/ Kill(q)
       PROVE  Lagging'
  <2>1. UNCHANGED <<age, left>>
    BY <1>10 DEF Answered, Proposed, Kill, roomVars
  <2> QED
    BY <1>0, <1>6, <1>7, <1>10, <2>1, EndKinds
<1>11. ASSUME NEW q \in Agents, TimedOut(q)
       PROVE  Lagging'
  <2>1. UNCHANGED <<age, left>> /\ pc[q] = "parked" /\ timer[q] = 0
    BY <1>11 DEF TimedOut, roomVars
  <2>2. Others(q) /\ (Exited(q) \/ Held(q))
    BY <1>0, <1>11, TimeoutKinds
  <2>3. CASE Held(q)
    <3>1. timer'[q] \in Nat /\ timer'[q] <= LongestSleep /\ errors'[q] = 0 /\ pc'[q] = "sleep"
      BY <2>3 DEF Held
    <3>2. LagFor(q) /\ met[q]
      BY <1>0, <2>1 DEF LoopOK
    <3>3. Lag(0) = LongestSleep + Park /\ Lag(errors[q])' = Lag(0)
      BY <1>0, <3>1, LagFacts DEF Lag
    <3>4. q \in Roster => age[q] \in Nat /\ age[q] <= Park
      BY <1>0, <2>1, <3>2 DEF LagFor
    <3>5. q \in Roster => age[q] + timer'[q] <= Lag(0)
      BY <1>0, <3>1, <3>3, <3>4
    <3>6. LagFor(q)'
      BY <2>1, <3>1, <3>2, <3>3, <3>5 DEF LagFor, Roster
    <3> QED
      BY <1>6, <2>1, <2>2, <3>6
  <2> QED
    BY <1>6, <1>7, <2>1, <2>2, <2>3
<1>12. ASSUME NEW q \in Agents, WaitFails(q)
       PROVE  Lagging'
  <2>1. UNCHANGED <<age, left>> /\ pc[q] \in {"call", "parked"}
    BY <1>12 DEF WaitFails, roomVars
  <2>2. Others(q) /\ (Exited(q) \/ Failed(q))
    BY <1>0, <1>12, FailFacts
  <2>3. CASE Failed(q)
    <3>1. timer'[q] = ErrorBackoff /\ errors'[q] = errors[q] + 1 /\ pc'[q] = "sleep"
          /\ met'[q] = met[q]
      BY <2>3 DEF Failed
    <3>2. Lag(errors[q]) \in Nat /\ Lag(errors[q] + 1) = Lag(errors[q]) + ErrorBackoff
      BY <1>0, LagFacts
    <3>3. Lag(errors[q])' = Lag(errors[q] + 1)
      BY <3>1 DEF Lag
    <3>4. met[q] /\ q \in Roster => age[q] \in Nat /\ age[q] <= Lag(errors[q])
      BY <1>0, <3>2 DEF LagFor
    <3>5. met[q] /\ q \in Roster => age[q] + ErrorBackoff <= Lag(errors[q] + 1)
      BY <1>0, <3>2, <3>4
    <3>6. LagFor(q)
      BY <1>0
    <3>7. LagFor(q)'
      BY <2>1, <3>1, <3>3, <3>5, <3>6 DEF LagFor, Roster
    <3> QED
      BY <1>6, <2>1, <2>2, <3>7
  <2> QED
    BY <1>6, <1>7, <2>1, <2>2, <2>3
<1> QED
  BY <1>2, <1>3, <1>4, <1>5, <1>8, <1>9, <1>10, <1>11, <1>12 DEF Next, LoopStep

LEMMA InitLag == Init => Lagging
BY DEF Init, Lagging, LagFor

\* An agent with a loop on the line is no ghost: whatever its waits return,
\* through parks, sleeps and runs of errors, its last poll is never older than
\* GHOST_AFTER, so that it is neither called stale nor pruned.  With any
\* options for which HeartbeatAssumption holds.
THEOREM LoopNeverGhost == Spec => []LoopIsNoGhost
<1>1. Spec => [](Inv /\ Lagging)
  BY InitInv, InvStep, InitLag, LagStep, PTL DEF Spec
<1>2. Inv /\ Lagging => LoopIsNoGhost
  <2> SUFFICES ASSUME Inv, Lagging, NEW p \in Roster, met[p] PROVE age[p] <= GhostAfter
    BY DEF LoopIsNoGhost
  <2>1. p \in Agents /\ age[p] \in 0 .. Oldest /\ timer[p] \in Nat
        /\ errors[p] \in 0 .. MaxErrors - 1 /\ LagFor(p)
    BY DEF Inv, RoomOK, LoopsOK, Lagging
  <2>2. age[p] \in Nat /\ GhostAfter \in Nat
    BY <2>1, OldestFacts, ConstantTypes
  <2>3. age[p] + timer[p] <= Lag(errors[p])
    BY <2>1 DEF LagFor
  <2> QED
    BY <2>1, <2>2, <2>3, LagFacts
<1> QED
  BY <1>1, <1>2, PTL

-----------------------------------------------------------------------------
(* A loop that gives up has been through one unbroken silence.              *)

\* The time that the errors still to come can take, a park and a backoff each.
Spare(e) == (MaxErrors - 1 - e) * (Park + ErrorBackoff)

LEMMA Spread ==
  ASSUME NEW m \in Nat, NEW x \in Nat, NEW y \in Nat
  PROVE  /\ m * (x + y) = m * x + m * y /\ (m + 1) * x = m * x + x
         /\ m * x \in Nat /\ m * y \in Nat
OBVIOUS

LEMMA SpareFacts ==
  ASSUME NEW e \in 0 .. MaxErrors - 1
  PROVE  /\ Spare(e) \in Nat
         /\ LongestSleep + Park + Spare(e) <= GhostAfter
         /\ e + 1 <= MaxErrors - 1 => /\ Spare(e) = Spare(e + 1) + Park + ErrorBackoff
                                      /\ Spare(e + 1) \in Nat
         /\ e # 0 => ErrorBackoff + Park + Spare(e) <= GhostAfter
<1> DEFINE m == MaxErrors - 1
           b == Park + ErrorBackoff
           k == m - e
<1>1. /\ m \in Nat /\ e \in Nat /\ e <= m /\ ErrorBackoff \in Nat /\ Park \in Nat
      /\ GhostAfter \in Nat /\ LongestSleep \in Nat /\ MaxErrors = m + 1
      /\ b \in Nat /\ k \in Nat /\ k <= m
  BY ConstantTypes, LongestFacts
<1>2. k * b \in Nat /\ k * b <= m * b /\ (k + 1) * b = k * b + b
  BY <1>1, ErrorSum
<1>3. m * b = m * Park + m * ErrorBackoff /\ MaxErrors * Park = m * Park + Park
      /\ m * Park \in Nat /\ m * ErrorBackoff \in Nat
  <2>1. m \in Nat /\ Park \in Nat /\ ErrorBackoff \in Nat /\ MaxErrors = m + 1
    BY <1>1
  <2> HIDE DEF m
  <2>2. /\ m * (Park + ErrorBackoff) = m * Park + m * ErrorBackoff
        /\ (m + 1) * Park = m * Park + Park
        /\ m * Park \in Nat /\ m * ErrorBackoff \in Nat
    BY <2>1, Spread
  <2> QED
    BY <2>1, <2>2
<1>4. LongestSleep + MaxErrors * Park + m * ErrorBackoff <= GhostAfter
  BY HeartbeatAssumption
<1>5. Spare(e) = k * b
  BY <1>1 DEF Spare
<1>6. ASSUME e + 1 <= m
      PROVE  k * b = (k - 1) * b + b /\ (k - 1) * b \in Nat /\ Spare(e + 1) = (k - 1) * b
  <2>1. k - 1 \in Nat /\ k - 1 <= m /\ (k - 1) + 1 = k
    BY <1>1, <1>6
  <2>2. (k - 1) * b \in Nat /\ ((k - 1) + 1) * b = (k - 1) * b + b
    BY <1>1, <2>1, ErrorSum
  <2>3. Spare(e + 1) = (k - 1) * b
    BY <1>1 DEF Spare
  <2> QED
    BY <2>1, <2>2, <2>3
<1>7. ASSUME e # 0
      PROVE  k * b + b <= m * b
  <2>1. k + 1 \in Nat /\ k + 1 <= m
    BY <1>1, <1>7
  <2>2. (k + 1) * b <= m * b
    BY <1>1, <2>1, ErrorSum
  <2> QED
    BY <1>2, <2>2
<1>8. LongestSleep + Park + m * b <= GhostAfter
  <2> DEFINE x == m * Park
             y == m * ErrorBackoff
  <2>1. x \in Nat /\ y \in Nat /\ m * b = x + y /\ LongestSleep + (x + Park) + y <= GhostAfter
    BY <1>3, <1>4
  <2> HIDE DEF x, y
  <2> QED
    BY <1>1, <2>1
<1> DEFINE z == k * b
           w == m * b
           v == (k - 1) * b
<1>9. m * b \in Int
  BY <1>1
<1>10. /\ z \in Nat /\ z <= w /\ w \in Int /\ LongestSleep + Park + w <= GhostAfter /\ Spare(e) = z
       /\ e + 1 <= m => z = v + b /\ v \in Nat /\ Spare(e + 1) = v
       /\ e # 0 => z + b <= w
  BY <1>2, <1>5, <1>6, <1>7, <1>8, <1>9
<1>11. b = Park + ErrorBackoff /\ m = MaxErrors - 1
  OBVIOUS
<1> HIDE DEF z, w, v, b, k, m
<1>12. LongestSleep + Park + z <= GhostAfter
  BY <1>1, <1>10
<1>13. e # 0 => ErrorBackoff + Park + z <= GhostAfter
  BY <1>1, <1>10, <1>11
<1>14. e + 1 <= m => z = v + Park + ErrorBackoff
  BY <1>1, <1>10, <1>11
<1> QED
  BY <1>10, <1>11, <1>12, <1>13, <1>14

\* How long it may still take a loop to find out that the other one is back.
Ahead(p) ==
  IF pc[p] = "sleep" THEN timer[p] + Park + Spare(errors[p])
  ELSE IF pc[p] = "call" THEN Park + Spare(errors[p])
  ELSE timer[p] + Spare(errors[p])

\* What is left of the sleep that staleWait already counts.
Rest(p) == IF pc[p] = "sleep" /\ errors[p] = 0 THEN timer[p] ELSE 0

\* While a silent spell is on record, o has been silent ever since it started,
\* or is back, and then for so short a time that the loop will see it.
SpellFor(p, o) ==
  staleWait[p] > 0 =>
    /\ o \in Roster \cup left
    /\ o \in Roster => \/ age[o] = Oldest
                       \/ age[o] + Rest(p) > GhostAfter + staleWait[p]
                       \/ age[o] + Ahead(p) <= GhostAfter

Spell == \A p, o \in Agents : p # o => SpellFor(p, o)

LEMMA AheadFits ==
  ASSUME LoopsOK, NEW p \in Agents, staleWait[p] > 0
  PROVE  Ahead(p) \in Nat /\ Ahead(p) <= GhostAfter /\ pc[p] \in {"call", "parked", "sleep"}
<1>1. /\ pc[p] \in {"off", "gave up", "call", "parked", "sleep"}
      /\ timer[p] \in Nat /\ errors[p] \in 0 .. MaxErrors - 1 /\ LoopOK(p)
  BY DEF LoopsOK
<1>2. pc[p] \in {"call", "parked", "sleep"}
  <2>0. staleWait[p] # 0
    OBVIOUS
  <2>1. Running(p)
    BY <1>1, <2>0 DEF LoopOK
  <2> QED
    BY <2>1 DEF Running
<1>3. /\ Park \in Nat /\ ErrorBackoff \in Nat /\ LongestSleep \in Nat /\ GhostAfter \in Nat
      /\ Spare(errors[p]) \in Nat
      /\ LongestSleep + Park + Spare(errors[p]) <= GhostAfter
      /\ errors[p] # 0 => ErrorBackoff + Park + Spare(errors[p]) <= GhostAfter
  BY <1>1, ConstantTypes, LongestFacts, SpareFacts
<1>4. CASE pc[p] = "sleep"
  <2>1. Ahead(p) = timer[p] + Park + Spare(errors[p])
    BY <1>4 DEF Ahead
  <2>2. timer[p] <= LongestSleep \/ (errors[p] # 0 /\ timer[p] <= ErrorBackoff)
    BY <1>1, <1>4 DEF LoopOK
  <2>3. timer[p] \in Nat
    BY <1>1
  <2>4. timer[p] + Park + Spare(errors[p]) <= GhostAfter
    BY <1>3, <2>2, <2>3
  <2>5. timer[p] + Park + Spare(errors[p]) \in Nat
    BY <1>3, <2>3
  <2> QED
    BY <1>4, <2>1, <2>4, <2>5
<1>5. CASE pc[p] = "call"
  <2>1. Ahead(p) = Park + Spare(errors[p])
    BY <1>5 DEF Ahead
  <2> QED
    BY <1>2, <1>3, <2>1
<1>6. CASE pc[p] = "parked"
  <2>1. Ahead(p) = timer[p] + Spare(errors[p])
    BY <1>6 DEF Ahead
  <2>2. timer[p] <= Park
    BY <1>1, <1>6 DEF LoopOK
  <2>3. timer[p] \in Nat
    BY <1>1
  <2>4. timer[p] + Spare(errors[p]) <= GhostAfter /\ timer[p] + Spare(errors[p]) \in Nat
    BY <1>3, <2>2, <2>3
  <2> QED
    BY <1>6, <2>1, <2>4
<1> QED
  BY <1>2, <1>4, <1>5, <1>6

AllFit ==
  \A p \in Agents : staleWait[p] > 0 => Ahead(p) \in Nat /\ Ahead(p) <= GhostAfter

LEMMA AheadFitsNext == LoopsOK' => AllFit'
<1>1. LoopsOK => AllFit
  BY AheadFits DEF AllFit
<1> QED
  BY <1>1, PTL

\* A loop that nothing happens to, and the other agent neither.
LEMMA SpellKept ==
  ASSUME NEW p \in Agents, NEW o \in Agents, SpellFor(p, o),
         pc'[p] = pc[p], timer'[p] = timer[p], errors'[p] = errors[p],
         staleWait'[p] = staleWait[p],
         o \in Roster \cup left => o \in Roster' \cup left',
         o \in Roster' => o \notin Roster \cup left \/ (o \in Roster /\ age'[o] = age[o])
  PROVE  SpellFor(p, o)'
<1>1. Rest(p)' = Rest(p) /\ Ahead(p)' = Ahead(p)
  BY DEF Rest, Ahead, Spare
<1> QED
  BY <1>1 DEF SpellFor, Oldest

\* What the proof of a step knows of its state.
LEMMA SpellContext ==
  ASSUME Inv, Spell, NEW p \in Agents, NEW o \in Agents, p # o
  PROVE  /\ RoomOK /\ LoopsOK /\ LoopOK(p) /\ SpellFor(p, o) /\ o = Other(p)
         /\ timer[p] \in Nat /\ errors[p] \in 0 .. MaxErrors - 1 /\ staleWait[p] \in Nat
         /\ GhostAfter \in Nat /\ MaxStale \in Nat /\ Park \in Nat /\ ErrorBackoff \in Nat
         /\ o \in Roster => age[o] \in Nat /\ age[o] <= Oldest
         /\ Rest(p) \in Nat /\ Oldest = GhostAfter + MaxStale + 1
<1>1. RoomOK /\ LoopsOK /\ LoopOK(p) /\ SpellFor(p, o) /\ o = Other(p)
  BY TwoAgents DEF Inv, LoopsOK, Spell
<1>2. timer[p] \in Nat /\ errors[p] \in 0 .. MaxErrors - 1
  BY <1>1 DEF LoopsOK
<1>3. staleWait[p] \in Nat
  <2>1. staleWait[p] \in 0 .. MaxStale + LongestSleep
    BY <1>1 DEF LoopsOK
  <2> QED
    BY <2>1
<1>4. o \in Roster => age[o] \in 0 .. Oldest
  BY <1>1 DEF RoomOK
<1>5. o \in Roster => age[o] \in Nat /\ age[o] <= Oldest
  BY <1>4, OldestFacts
<1>6. Rest(p) \in Nat
  BY <1>2 DEF Rest
<1> QED
  BY <1>1, <1>2, <1>3, <1>5, <1>6, OldestFacts, ConstantTypes

\* Time goes on: a silence gets longer, and a return gets closer to being seen.
LEMMA SpellTick ==
  ASSUME Inv, Spell, Tick, NEW p \in Agents, NEW o \in Agents, p # o
  PROVE  SpellFor(p, o)'
<1> SUFFICES ASSUME staleWait'[p] > 0 PROVE SpellFor(p, o)'
  BY DEF SpellFor
<1>1. UNCHANGED <<left, pc, errors, staleWait>> /\ Roster' = Roster /\ ~Due(p)
  BY TickFacts
<1>2. staleWait[p] > 0
  BY <1>1
<1>3. /\ RoomOK /\ LoopsOK /\ SpellFor(p, o) /\ timer[p] \in Nat
      /\ errors[p] \in 0 .. MaxErrors - 1 /\ staleWait[p] \in Nat
      /\ GhostAfter \in Nat /\ MaxStale \in Nat /\ Park \in Nat
      /\ o \in Roster => age[o] \in Nat /\ age[o] <= Oldest
      /\ Oldest = GhostAfter + MaxStale + 1
  BY SpellContext
<1>4. pc[p] \in {"parked", "sleep"} /\ timer[p] # 0
  BY <1>1, <1>2, <1>3, AheadFits DEF Due
<1>5. timer'[p] = timer[p] - 1
  BY <1>4, TickFacts
<1>6. Rest(p)' >= Rest(p) - 1 /\ Rest(p)' \in Nat /\ Rest(p) \in Nat
  BY <1>1, <1>3, <1>4, <1>5 DEF Rest
<1>7. Ahead(p)' = Ahead(p) - 1 /\ Ahead(p) \in Nat
  <2>1. Spare(errors[p]) \in Nat
    BY <1>3, SpareFacts
  <2>2. Spare(errors[p])' = Spare(errors[p])
    BY <1>1 DEF Spare
  <2> QED
    BY <1>1, <1>3, <1>4, <1>5, <2>1, <2>2 DEF Ahead
<1>8. o \in Roster \cup left => o \in Roster' \cup left'
  BY <1>1
<1>9. ASSUME o \in Roster
      PROVE  \/ age'[o] = Oldest
             \/ age'[o] + Rest(p)' > GhostAfter + staleWait[p]
             \/ age'[o] + Ahead(p)' <= GhostAfter
  <2>1. age'[o] = IF age[o] = Oldest THEN Oldest ELSE age[o] + 1
    BY <1>9, TickFacts
  <2>2. age[o] \in Nat
    BY <1>3, <1>9
  <2>3. \/ age[o] = Oldest
        \/ age[o] + Rest(p) > GhostAfter + staleWait[p]
        \/ age[o] + Ahead(p) <= GhostAfter
    BY <1>2, <1>3, <1>9 DEF SpellFor
  <2>4. CASE age[o] = Oldest
    BY <2>1, <2>4
  <2>5. CASE age[o] # Oldest /\ age[o] + Rest(p) > GhostAfter + staleWait[p]
    <3>1. age'[o] = age[o] + 1
      BY <2>1, <2>5
    <3> QED
      BY <1>3, <1>6, <2>2, <2>5, <3>1
  <2>6. CASE age[o] # Oldest /\ age[o] + Ahead(p) <= GhostAfter
    <3>1. age'[o] = age[o] + 1
      BY <2>1, <2>6
    <3> QED
      BY <1>3, <1>7, <2>2, <2>6, <3>1
  <2> QED
    BY <2>3, <2>4, <2>5, <2>6
<1> QED
  BY <1>1, <1>2, <1>3, <1>8, <1>9 DEF SpellFor, Oldest

\* The other agent polls: it is back, and there is time to see it.
LEMMA SpellBack ==
  ASSUME Inv, Inv', NEW p \in Agents, NEW o \in Agents, p # o,
         o \in Roster', age'[o] = 0
  PROVE  SpellFor(p, o)'
<1>1. staleWait'[p] > 0 => Ahead(p)' \in Nat /\ Ahead(p)' <= GhostAfter
  BY AheadFitsNext DEF Inv, AllFit
<1> QED
  BY <1>1, ConstantTypes DEF SpellFor

\* The steps of p's own loop, while the other agent's age stands still.
LEMMA SpellOwn ==
  ASSUME Inv, Spell, NEW p \in Agents, NEW o \in Agents, p # o,
         o \in Roster \cup left => o \in Roster' \cup left',
         o \in Roster' <=> o \in Roster,
         o \in Roster => age'[o] = age[o],
         \/ Exited(p)
         \/ (Launch(p) \/ Resume(p)) /\ Called(p)
         \/ WaitFails(p) /\ Failed(p)
         \/ Call(p) /\ ParkedNow(p)
         \/ Held(p) /\ staleWait'[p] = 0
         \/ Held(p) /\ staleWait'[p] = staleWait[p] /\ o \notin Roster
         \/ /\ pc[p] \in {"call", "parked"} /\ Silent(p) /\ Held(p)
            /\ staleWait'[p] = staleWait[p] + timer'[p]
  PROVE  SpellFor(p, o)'
<1> SUFFICES ASSUME staleWait'[p] > 0 PROVE SpellFor(p, o)'
  BY DEF SpellFor
<1>1. /\ RoomOK /\ LoopsOK /\ LoopOK(p) /\ SpellFor(p, o) /\ o = Other(p)
      /\ timer[p] \in Nat /\ errors[p] \in 0 .. MaxErrors - 1 /\ staleWait[p] \in Nat
      /\ GhostAfter \in Nat /\ MaxStale \in Nat /\ Park \in Nat /\ ErrorBackoff \in Nat
      /\ o \in Roster => age[o] \in Nat /\ age[o] <= Oldest
      /\ Rest(p) \in Nat /\ Oldest = GhostAfter + MaxStale + 1
  BY SpellContext
<1>2. Spare(errors[p]) \in Nat /\ (errors[p] + 1 <= MaxErrors - 1 =>
        Spare(errors[p]) = Spare(errors[p] + 1) + Park + ErrorBackoff
        /\ Spare(errors[p] + 1) \in Nat)
  BY <1>1, SpareFacts
<1>3. staleWait'[p] # 0
  OBVIOUS
<1>4. ~Exited(p) /\ ~(Held(p) /\ staleWait'[p] = 0)
  BY <1>3 DEF Exited
\* Steps that neither start a sleep that counts nor end the spell.
<1>5. ASSUME staleWait'[p] = staleWait[p], Rest(p)' = Rest(p),
             Ahead(p)' \in Nat, Ahead(p)' <= Ahead(p), Ahead(p) \in Nat
      PROVE  SpellFor(p, o)'
  <2>1. o \in Roster => \/ age[o] = Oldest
                        \/ age[o] + Rest(p) > GhostAfter + staleWait[p]
                        \/ age[o] + Ahead(p) <= GhostAfter
    BY <1>1, <1>5 DEF SpellFor
  <2>2. o \in Roster => \/ age[o] = Oldest
                        \/ age[o] + Rest(p) > GhostAfter + staleWait[p]
                        \/ age[o] + Ahead(p)' <= GhostAfter
    BY <1>1, <1>5, <2>1
  <2>3. o \in Roster \cup left
    BY <1>1, <1>5 DEF SpellFor
  <2> QED
    BY <1>5, <2>2, <2>3 DEF SpellFor, Oldest
<1>6. CASE (Launch(p) \/ Resume(p)) /\ Called(p)
  <2>1. Resume(p)
    <3>1. Launch(p) => staleWait[p] = 0
      BY <1>1 DEF Launch, LoopOK
    <3> QED
      BY <1>3, <1>6, <3>1 DEF Called
  <2>2. pc[p] = "sleep" /\ timer[p] = 0 /\ pc'[p] = "call" /\ errors'[p] = errors[p]
        /\ staleWait'[p] = staleWait[p]
    BY <1>6, <2>1 DEF Resume, Called
  <2>3. Rest(p)' = 0 /\ Rest(p) = 0
    BY <2>2 DEF Rest
  <2>4. Ahead(p)' = Park + Spare(errors[p]) /\ Ahead(p) = 0 + Park + Spare(errors[p])
    BY <2>2 DEF Ahead, Spare
  <2> QED
    BY <1>1, <1>2, <1>5, <2>2, <2>3, <2>4
<1>7. CASE WaitFails(p) /\ Failed(p)
  <2>1. /\ pc[p] \in {"call", "parked"} /\ errors[p] + 1 <= MaxErrors - 1
        /\ pc'[p] = "sleep" /\ timer'[p] = ErrorBackoff /\ errors'[p] = errors[p] + 1
        /\ staleWait'[p] = staleWait[p]
    BY <1>7 DEF WaitFails, Failed
  <2>2. Rest(p)' = 0 /\ Rest(p) = 0
    <3>1. errors'[p] # 0
      BY <1>1, <2>1
    <3> QED
      BY <2>1, <3>1 DEF Rest
  <2>3. Ahead(p)' = ErrorBackoff + Park + Spare(errors[p] + 1)
    BY <2>1 DEF Ahead, Spare
  <2>4. Ahead(p) = Park + Spare(errors[p]) \/ Ahead(p) = timer[p] + Spare(errors[p])
    BY <2>1 DEF Ahead
  <2>5. Ahead(p) \in Nat /\ Ahead(p)' \in Nat /\ Ahead(p)' <= Ahead(p)
    BY <1>1, <1>2, <2>1, <2>3, <2>4
  <2> QED
    BY <1>5, <2>1, <2>2, <2>5
<1>8. CASE Call(p) /\ ParkedNow(p)
  <2>1. /\ pc[p] = "call" /\ pc'[p] = "parked" /\ timer'[p] \in Nat /\ timer'[p] <= Park
        /\ errors'[p] = errors[p] /\ staleWait'[p] = staleWait[p]
    BY <1>8 DEF Call, ParkedNow
  <2>2. Rest(p)' = 0 /\ Rest(p) = 0
    BY <2>1 DEF Rest
  <2>3. Ahead(p)' = timer'[p] + Spare(errors[p]) /\ Ahead(p) = Park + Spare(errors[p])
    BY <2>1 DEF Ahead, Spare
  <2>4. Ahead(p) \in Nat /\ Ahead(p)' \in Nat /\ Ahead(p)' <= Ahead(p)
    BY <1>1, <1>2, <2>1, <2>3
  <2> QED
    BY <1>5, <2>1, <2>2, <2>4
<1>9. CASE Held(p) /\ staleWait'[p] = staleWait[p] /\ o \notin Roster
  BY <1>1, <1>9 DEF SpellFor
<1>10. CASE /\ pc[p] \in {"call", "parked"} /\ Silent(p) /\ Held(p)
            /\ staleWait'[p] = staleWait[p] + timer'[p]
  <2>1. o \in Roster /\ age[o] > GhostAfter
    BY <1>1, <1>10 DEF Silent
  <2>2. Rest(p) = 0
    BY <1>10 DEF Rest
  <2>3. Rest(p)' = timer'[p] /\ timer'[p] \in Nat
    BY <1>10 DEF Rest, Held
  <2>4. staleWait[p] > 0 => Ahead(p) \in Nat
    BY <1>1, AheadFits
  <2>5. age[o] = Oldest \/ age[o] > GhostAfter + staleWait[p]
    <3>1. CASE staleWait[p] = 0
      BY <1>1, <2>1, <3>1
    <3>2. CASE staleWait[p] > 0
      <4>1. \/ age[o] = Oldest
            \/ age[o] + 0 > GhostAfter + staleWait[p]
            \/ age[o] + Ahead(p) <= GhostAfter
        BY <1>1, <2>1, <2>2, <3>2 DEF SpellFor
      <4>2. ~(age[o] + Ahead(p) <= GhostAfter)
        BY <1>1, <2>1, <2>4, <3>2
      <4> QED
        BY <1>1, <2>1, <4>1, <4>2
    <3> QED
      BY <1>1, <3>1, <3>2
  <2>6. age[o] = Oldest \/ age[o] + timer'[p] > GhostAfter + (staleWait[p] + timer'[p])
    BY <1>1, <2>1, <2>3, <2>5
  <2> QED
    BY <1>10, <2>1, <2>3, <2>6 DEF SpellFor, Oldest
<1> QED
  BY <1>4, <1>6, <1>7, <1>8, <1>9, <1>10

LEMMA SpellStep == Inv /\ Inv' /\ Spell /\ [Next]_vars => Spell'
<1> SUFFICES ASSUME Inv, Inv', Spell, [Next]_vars PROVE Spell'
  OBVIOUS
<1>0. RoomOK /\ LoopsOK /\ \A p, o \in Agents : p # o => SpellFor(p, o)
  BY DEF Inv, Spell
<1>1. ASSUME UNCHANGED loopVars,
             NEW p \in Agents, NEW o \in Agents, p # o,
             o \in Roster \cup left => o \in Roster' \cup left',
             o \in Roster' => o \notin Roster \cup left \/ (o \in Roster /\ age'[o] = age[o])
      PROVE  SpellFor(p, o)'
  BY <1>0, <1>1, SpellKept DEF loopVars, budgets
<1>2. CASE UNCHANGED vars
  BY <1>1, <1>2 DEF vars, roomVars, Spell, Roster
<1>3. CASE Halt
  BY <1>1, <1>3 DEF Halt, Spell, Roster
<1>4. ASSUME NEW q \in Agents, Join(q) \/ Prune(q) \/ Send(q)
      PROVE  Spell'
  <2>1. CASE Join(q)
    <3>1. /\ Roster' = Roster \cup {q} /\ left' = left /\ q \notin Roster \cup left
          /\ \A x \in Roster : x # q => age'[x] = age[x]
          /\ UNCHANGED loopVars
      BY <1>0, <2>1, PolledFacts DEF Join
    <3> QED
      BY <1>1, <3>1 DEF Spell
  <2>2. CASE Prune(q)
    <3>1. /\ Roster' = Roster \ {q} /\ left' = left \cup {q}
          /\ \A x \in Roster' : age'[x] = age[x]
          /\ UNCHANGED loopVars
      BY <1>0, <2>2, PruneFacts DEF Prune
    <3> QED
      BY <1>1, <3>1 DEF Spell
  <2>3. CASE Send(q)
    BY <1>1, <2>3 DEF Send, Spell, Roster
  <2> QED
    BY <1>4, <2>1, <2>2, <2>3
<1>5. CASE Tick
  BY <1>5, SpellTick DEF Spell
<1>6. ASSUME NEW q \in Agents, Others(q), UNCHANGED left,
             UNCHANGED age \/ (q \in Roster /\ Polled(q)),
             \A o \in Agents : q # o => SpellFor(q, o)'
      PROVE  Spell'
  <2>1. Roster' = Roster /\ \A x \in Roster : x # q => age'[x] = age[x]
    BY <1>0, <1>6, PolledFacts DEF Roster
  <2>2. ASSUME NEW p \in Agents, NEW o \in Agents, p # o, p # q
        PROVE  SpellFor(p, o)'
    <3>1. CASE UNCHANGED age \/ o # q
      <4>1. o \in Roster => age'[o] = age[o]
        BY <2>1, <3>1
      <4> QED
        BY <1>0, <1>6, <2>1, <2>2, <4>1, SpellKept DEF Others
    <3>2. CASE ~(UNCHANGED age) /\ o = q
      <4>1. o \in Roster' /\ age'[o] = 0
        BY <1>0, <1>6, <2>1, <3>2, PolledFacts
      <4> QED
        BY <2>2, <4>1, SpellBack
    <3> QED
      BY <3>1, <3>2
  <2> QED
    BY <1>6, <2>2 DEF Spell
<1>7. ASSUME NEW q \in Agents, Launch(q) \/ LoopStep(q) \/ Proposed(q) \/ Kill(q)
      PROVE  Spell'
  <2>1. UNCHANGED left /\ (UNCHANGED age \/ (Call(q) /\ q \in Roster /\ Polled(q)))
    BY <1>7 DEF LoopStep, Launch, Resume, Call, Answered, TimedOut, WaitFails, Proposed, Kill,
                roomVars
  <2>2. Roster' = Roster /\ \A x \in Roster : x # q => age'[x] = age[x]
    BY <1>0, <2>1, PolledFacts DEF Roster
  <2>3. Others(q)
    BY <1>0, <1>7, CalledFacts, CallKinds, EndKinds, TimeoutKinds, FailFacts DEF LoopStep
  <2>4. ASSUME NEW o \in Agents, q # o PROVE SpellFor(q, o)'
    <3>1. o = Other(q)
      BY <2>4, TwoAgents
    <3>2. /\ o \in Roster \cup left => o \in Roster' \cup left'
          /\ o \in Roster' <=> o \in Roster
          /\ o \in Roster => age'[o] = age[o]
      BY <2>1, <2>2, <2>4
    <3>3. \/ Exited(q)
          \/ (Launch(q) \/ Resume(q)) /\ Called(q)
          \/ WaitFails(q) /\ Failed(q)
          \/ Call(q) /\ ParkedNow(q)
          \/ Held(q) /\ staleWait'[q] = 0
          \/ Held(q) /\ staleWait'[q] = staleWait[q] /\ o \notin Roster
          \/ /\ pc[q] \in {"call", "parked"} /\ Silent(q) /\ Held(q)
             /\ staleWait'[q] = staleWait[q] + timer'[q]
      <4>1. CASE Launch(q) \/ Resume(q)
        BY <1>0, <4>1, CalledFacts
      <4>2. CASE Call(q)
        <5>1. pc[q] = "call"
          BY <4>2 DEF Call
        <5> QED
          BY <1>0, <3>1, <4>2, <5>1, CallKinds
      <4>3. CASE Answered(q) \/ Proposed(q) \/ Kill(q)
        BY <1>0, <4>3, EndKinds
      <4>4. CASE TimedOut(q)
        BY <1>0, <4>4, TimeoutKinds
      <4>5. CASE WaitFails(q)
        BY <1>0, <4>5, FailFacts
      <4> QED
        BY <1>7, <4>1, <4>2, <4>3, <4>4, <4>5 DEF LoopStep
    <3> QED
      BY <2>4, <3>2, <3>3, SpellOwn
  <2> QED
    BY <1>6, <2>1, <2>3, <2>4
<1> QED
  BY <1>2, <1>3, <1>4, <1>5, <1>7 DEF Next

LEMMA InitSpell == Init => Spell
BY DEF Init, Spell, SpellFor

\* A loop that looks at a silent counterpart with the whole budget spent has
\* waited it out: its spell began after the counterpart was already silent.
LEMMA SpentSpell ==
  ASSUME Inv, Spell, NEW p \in Agents, NEW o \in Agents, o = Other(p), p # o,
         Silent(p), staleWait[p] >= MaxStale, pc[p] \in {"call", "parked"}
  PROVE  age[o] > GhostAfter + MaxStale
<1>1. /\ staleWait[p] \in Nat /\ GhostAfter \in Nat /\ MaxStale \in Nat
      /\ Oldest = GhostAfter + MaxStale + 1 /\ MaxStale > 0
  BY SpellContext, ConstantTypes
<1>2. o \in Roster /\ age[o] > GhostAfter
  BY DEF Silent
<1>3. age[o] \in Nat
  BY <1>2, SpellContext
<1>4. staleWait[p] > 0
  BY <1>1
<1>5. Ahead(p) \in Nat /\ Rest(p) = 0 /\ SpellFor(p, o)
  BY <1>4, AheadFits, SpellContext DEF Rest
<1>6. \/ age[o] = Oldest
      \/ age[o] + 0 > GhostAfter + staleWait[p]
      \/ age[o] + Ahead(p) <= GhostAfter
  BY <1>2, <1>4, <1>5 DEF SpellFor
<1> HIDE DEF Ahead, Oldest
<1> QED
  BY <1>1, <1>2, <1>3, <1>5, <1>6

\* A step that gives up comes from a look at a counterpart that is silent, with
\* the whole budget spent.
LEMMA GiveUpStep ==
  ASSUME Inv, Spell, [Next]_vars, NEW p \in Agents, Running(p), pc'[p] = "gave up"
  PROVE  age[Other(p)] > GhostAfter + MaxStale
<1>0. RoomOK /\ LoopsOK
  BY DEF Inv
<1>1. pc[p] \notin {"off", "gave up"}
  BY DEF Running
<1>2. \E q \in Agents : Launch(q) \/ LoopStep(q) \/ Proposed(q) \/ Kill(q)
  BY <1>1 DEF Next, vars, loopVars, Join, Prune, Send, Halt, Tick
<1>3. PICK q \in Agents : Launch(q) \/ LoopStep(q) \/ Proposed(q) \/ Kill(q)
  BY <1>2
<1>4. Others(q)
  BY <1>0, <1>3, CalledFacts, CallKinds, EndKinds, TimeoutKinds, FailFacts DEF LoopStep
<1>5. q = p
  BY <1>1, <1>4 DEF Others
<1>6. Silent(p) /\ staleWait[p] >= MaxStale /\ pc[p] \in {"call", "parked"}
  <2>1. CASE Launch(p) \/ Resume(p)
    BY <1>0, <2>1, CalledFacts DEF Called
  <2>2. CASE Call(p)
    <3>1. pc[p] = "call"
      BY <2>2 DEF Call
    <3> QED
      BY <1>0, <2>2, <3>1, CallKinds DEF Held, ParkedNow
  <2>3. CASE Answered(p) \/ Proposed(p) \/ Kill(p)
    BY <1>0, <2>3, EndKinds
  <2>4. CASE TimedOut(p)
    BY <1>0, <2>4, TimeoutKinds DEF Held
  <2>5. CASE WaitFails(p)
    BY <1>0, <2>5, FailFacts DEF Failed
  <2> QED
    BY <1>3, <1>5, <2>1, <2>2, <2>3, <2>4, <2>5 DEF LoopStep
<1>7. PICK o \in Agents : o = Other(p) /\ o # p
  BY TwoAgents
<1> QED
  BY <1>6, <1>7, SpentSpell

\* A loop that gives up on a silent counterpart has been through one unbroken
\* silence: the counterpart has not polled for GHOST_AFTER and then for as long
\* as the loop promises to hold.  A counterpart that came back meanwhile is seen
\* before it can look silent again, by HeartbeatAssumption, so that what
\* stale_wait holds is never left over from an earlier silence.
THEOREM GiveUpEarned == Spec => GiveUpIsEarned
<1>1. Spec => [](Inv /\ Spell)
  BY InitInv, InvStep, InitSpell, SpellStep, PTL DEF Spec
<1>2. Inv /\ Spell /\ [Next]_vars =>
        [\A p \in Agents :
           Running(p) /\ pc'[p] = "gave up"
             => age[Other(p)] > GhostAfter + MaxStale]_vars
  BY GiveUpStep
<1> QED
  BY <1>1, <1>2, PTL DEF Spec, GiveUpIsEarned
=============================================================================
