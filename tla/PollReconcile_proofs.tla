------------------------ MODULE PollReconcile_proofs ------------------------
(***************************************************************************)
(* For any sessions, files, rooms and pids: the types of PollReconcile, and *)
(* the two promises of the Stop hook, that it kills no poll of a peer and  *)
(* that its silence about a room is earned.                                *)
(***************************************************************************)
EXTENDS PollReconcile, FiniteSetTheorems, WellFoundedInduction, TLAPS

-----------------------------------------------------------------------------
(* Connections.                                                            *)

LEMMA DeclaredAreConns == AllDeclared \subseteq Conn
BY PollReconcileAssumption DEF AllDeclared, Declared, Conn

\* Among the files that declare a room there is a first one.
LEMMA FirstFile ==
  ASSUME NEW room, NEW f \in Sessions, room \in Holds[f]
  PROVE  \E i \in 1 .. Len(FileOrder) :
           /\ room \in Holds[FileOrder[i]]
           /\ \A j \in 1 .. i - 1 : room \notin Holds[FileOrder[j]]
<1> DEFINE L == Len(FileOrder)
           T == {i \in 1 .. L : room \in Holds[FileOrder[i]]}
<1>1. L \in Nat /\ T \subseteq Nat /\ T # {}
  BY PollReconcileAssumption
<1>2. PICK i \in T : \A j \in T : ~(<<j, i>> \in OpToRel(<, Nat))
  BY <1>1, NatLessThanWellFounded, WFMin
<1>3. ASSUME NEW j \in 1 .. i - 1, room \in Holds[FileOrder[j]] PROVE FALSE
  <2>1. i \in 1 .. L /\ j \in 1 .. L /\ j < i
    BY <1>1
  <2>2. j \in T /\ <<j, i>> \in Nat \X Nat
    BY <2>1, <1>1, <1>3
  <2>3. QED BY <2>1, <2>2, <1>2 DEF OpToRel
<1>4. QED BY <1>2, <1>3

\* id_of answers with an identity whose file declares the room.
LEMMA IdOfDeclares ==
  ASSUME NEW c \in AllDeclared
  PROVE  <<c[1], IdOf(c[1])>> \in AllDeclared
<1>1. PICK f \in Sessions : c[1] \in Holds[f]
  BY PollReconcileAssumption DEF AllDeclared, Declared
<1>2. PICK i \in 1 .. Len(FileOrder) :
        /\ c[1] \in Holds[FileOrder[i]]
        /\ \A j \in 1 .. i - 1 : c[1] \notin Holds[FileOrder[j]]
        /\ IdOf(c[1]) = FileOrder[i]
  BY <1>1, FirstFile DEF IdOf
<1>3. IdOf(c[1]) \in Sessions /\ c[1] \in Holds[IdOf(c[1])]
  BY <1>2, PollReconcileAssumption
<1>4. QED BY <1>3 DEF AllDeclared, Declared

-----------------------------------------------------------------------------
(* Type correctness.                                                       *)

LEMMA NoHookTypes == NoHook \in Hooks
BY DEF NoHook, Hooks

LEMMA TypesInit == Init => TypeOK
<1> SUFFICES ASSUME Init PROVE TypeOK
  OBVIOUS
<1>1. Running \subseteq Pids /\ procs \in [Running -> Conn]
  BY DEF Init, Running
<1>2. marker \in Ages /\ beat \in Ages
  BY PollReconcileAssumption DEF Init, Ages
<1>3. hook \in [Sessions -> Hooks]
  BY NoHookTypes DEF Init
<1>4. QED BY <1>1, <1>2, <1>3 DEF Init, TypeOK

\* A poll starts or ends.
LEMMA ProcTypes ==
  ASSUME TypeOK, NEW k \in Pids,
         Ended(k) \/ \E c \in Conn : Start(k, c)
  PROVE  Running' \subseteq Pids /\ procs' \in [Running' -> Conn]
BY DEF TypeOK, Running, Ended, Start

LEMMA HookTypes ==
  ASSUME TypeOK, NEW s \in Sessions, NEW h \in Hooks, SetHook(s, h)
  PROVE  hook' \in [Sessions -> Hooks]
BY DEF TypeOK, SetHook

\* The agent starts a poll.
LEMMA PollStepTypes ==
  ASSUME TypeOK, NEW s \in Sessions, NEW k \in Pids, NEW c \in Conn,
         Launch(s, k, c) \/ Beat(s, k, c) \/ Obey(s, k, c)
  PROVE  TypeOK'
<1>1. Running' \subseteq Pids /\ procs' \in [Running' -> Conn]
  BY ProcTypes DEF Launch, Beat, Obey
<1>2. marker' \in Ages /\ beat' \in Ages
  <2>1. marker \in Ages /\ beat \in Ages
    BY DEF TypeOK
  <2>2. CASE Beat(s, k, c)
    <3>1. 0 \in 0 .. Window + 1
      BY PollReconcileAssumption
    <3>2. QED BY <2>1, <2>2, <3>1 DEF Beat, Ages
  <2>3. QED BY <2>1, <2>2 DEF Launch, Obey
<1>3. told' \in [Sessions -> SUBSET AllDeclared]
  BY DEF TypeOK, Launch, Beat, Obey
<1>4. hook' = hook /\ stamped' = stamped /\ calm' = calm
  BY DEF Launch, Beat, Obey
<1>5. QED BY <1>1, <1>2, <1>3, <1>4 DEF TypeOK

\* A hook begins: the Stop hook with its own file, SessionStart with all files.
LEMMA BeginTypes ==
  ASSUME TypeOK, NEW s \in Sessions, NEW active \in BOOLEAN, StopScan(s, active) \/ Resume(s)
  PROVE  TypeOK'
<1>1. CASE StopScan(s, active)
  <2>1. ScanDeclared(s) \subseteq AllDeclared
    BY DEF ScanDeclared, AllDeclared
  <2>2. [NoHook EXCEPT !.kind = "count", !.todo = ScanDeclared(s), !.active = active] \in Hooks
    BY <2>1, NoHookTypes DEF Hooks
  <2>3. hook' \in [Sessions -> Hooks]
    BY <1>1, <2>2, HookTypes DEF StopScan
  <2>4. QED BY <1>1, <2>3 DEF StopScan, TypeOK, Running
<1>2. CASE Resume(s)
  <2>1. [NoHook EXCEPT !.kind = "start", !.todo = AllDeclared] \in Hooks
    BY NoHookTypes DEF Hooks
  <2>2. hook' \in [Sessions -> Hooks]
    BY <1>2, <2>1, HookTypes DEF Resume
  <2>3. told' \in [Sessions -> SUBSET AllDeclared] /\ stamped' \subseteq Sessions
    BY <1>2 DEF Resume, TypeOK
  <2>4. QED BY <1>2, <2>2, <2>3 DEF Resume, TypeOK, Running
<1>3. QED BY <1>1, <1>2

\* A hook goes on with one connection.
LEMMA PlanTypes ==
  ASSUME TypeOK, NEW s \in Sessions, NEW c \in Conn,
         StopCount(s, c) \/ StopList(s, c) \/ StartList(s, c)
  PROVE  TypeOK'
<1>1. hook[s] \in Hooks
  BY DEF TypeOK
<1>2. CASE StopCount(s, c)
  <2> DEFINE action == ReconcileAction(Cardinality(Matching(c)), RecentlyPolled(c))
             h == [hook[s] EXCEPT !.todo = @ \ {c},
                     !.kills = IF action = "KillExtras" THEN @ \cup {c} ELSE @,
                     !.relaunch = IF action = "AdviseRelaunch" THEN @ \cup {c} ELSE @]
  <2>1. c \in AllDeclared
    BY <1>1, <1>2 DEF StopCount, Hooks
  <2>2. h \in Hooks
    BY <1>1, <2>1 DEF Hooks
  <2>3. hook' \in [Sessions -> Hooks]
    BY <1>2, <2>2, HookTypes DEF StopCount
  <2>4. QED BY <1>2, <2>3 DEF StopCount, TypeOK, Running
<1>3. CASE StopList(s, c)
  <2> DEFINE h == [hook[s] EXCEPT !.kills = @ \ {c},
                     !.victims = {k \in Matching(c) : \E j \in Matching(c) : j < k}]
  <2>1. Matching(c) \subseteq Pids
    BY DEF TypeOK, Matching
  <2>2. h \in Hooks
    BY <1>1, <2>1 DEF Hooks
  <2>3. hook' \in [Sessions -> Hooks]
    BY <1>3, <2>2, HookTypes DEF StopList
  <2>4. QED BY <1>3, <2>3 DEF StopList, TypeOK, Running
<1>4. CASE StartList(s, c)
  <2> DEFINE d == <<c[1], IdOf(c[1])>>
             h == [hook[s] EXCEPT !.todo = @ \ {c}, !.victims = Matching(d), !.relaunch = @ \cup {d}]
  <2>1. c \in AllDeclared
    BY <1>1, <1>4 DEF StartList, Hooks
  <2>2. d \in AllDeclared /\ Matching(d) \subseteq Pids
    BY <2>1, IdOfDeclares DEF TypeOK, Matching
  <2> HIDE DEF d
  <2>3. h \in Hooks
    BY <1>1, <2>2 DEF Hooks
  <2>4. SetHook(s, h)
    BY <1>4 DEF StartList, d
  <2>5. hook' \in [Sessions -> Hooks]
    BY <2>3, <2>4, HookTypes
  <2>6. QED BY <1>4, <2>5 DEF StartList, TypeOK, Running
<1>5. QED BY <1>2, <1>3, <1>4

\* A hook ends and tells its agent.
LEMMA DoneTypes ==
  ASSUME TypeOK, NEW s \in Sessions, StopAdvise(s) \/ StartDone(s)
  PROVE  TypeOK'
<1>1. hook[s] \in Hooks
  BY DEF TypeOK
<1>2. CASE StopAdvise(s)
  <2>1. hook' \in [Sessions -> Hooks]
    BY <1>2, NoHookTypes, HookTypes DEF StopAdvise
  <2>2. told' \in [Sessions -> SUBSET AllDeclared]
    BY <1>1, <1>2 DEF StopAdvise, TypeOK, Hooks
  <2>3. QED BY <1>2, <2>1, <2>2 DEF StopAdvise, TypeOK, Running
<1>3. CASE StartDone(s)
  <2>1. hook' \in [Sessions -> Hooks]
    BY <1>3, NoHookTypes, HookTypes DEF StartDone
  <2>2. told' \in [Sessions -> SUBSET AllDeclared]
    BY <1>1, <1>3 DEF StartDone, TypeOK, Hooks
  <2>3. QED BY <1>3, <2>1, <2>2 DEF StartDone, TypeOK, Running
<1>4. QED BY <1>2, <1>3

LEMMA ExitTypes ==
  ASSUME TypeOK, NEW k \in Pids, Exit(k)
  PROVE  TypeOK'
<1>1. Running' \subseteq Pids /\ procs' \in [Running' -> Conn]
  BY ProcTypes DEF Exit
<1>2. QED BY <1>1 DEF Exit, TypeOK

\* kill_pid takes a process away, if it is still there.
LEMMA ReapTypes ==
  ASSUME TypeOK, NEW s \in Sessions, NEW k \in Pids, Reap(s, k)
  PROVE  TypeOK'
<1>1. Running' \subseteq Pids /\ procs' \in [Running' -> Conn]
  BY ProcTypes DEF Reap
<1>2. [hook[s] EXCEPT !.victims = @ \ {k}] \in Hooks
  BY DEF TypeOK, Hooks
<1>3. hook' \in [Sessions -> Hooks]
  BY <1>2, HookTypes DEF Reap
<1>4. QED BY <1>1, <1>3 DEF Reap, TypeOK

LEMMA OtherTypes ==
  ASSUME TypeOK, Tick \/ CalmDown \/ UNCHANGED vars \/ \E s \in Sessions : Restamp(s)
  PROVE  TypeOK'
<1>1. CASE Tick
  <2>1. ASSUME NEW age \in Ages PROVE Older(age) \in Ages
    <3>1. ASSUME NEW d \in Conn
          PROVE  (IF age[d] > Window THEN Window + 1 ELSE age[d] + 1) \in 0 .. Window + 1
      <4>1. age[d] \in 0 .. Window + 1
        BY <2>1 DEF Ages
      <4>2. QED BY <4>1, PollReconcileAssumption
    <3>2. QED BY <3>1 DEF Older, Ages
  <2>2. marker' \in Ages /\ beat' \in Ages
    BY <1>1, <2>1 DEF Tick, TypeOK
  <2>3. QED BY <1>1, <2>2 DEF Tick, TypeOK, Running
<1>2. QED BY <1>1 DEF Restamp, CalmDown, vars, TypeOK, Running

LEMMA TypesNext == TypeOK /\ [Next]_vars => TypeOK'
<1> SUFFICES ASSUME TypeOK, [Next]_vars PROVE TypeOK'
  OBVIOUS
<1>1. ASSUME NEW s \in Sessions, HookStep(s) PROVE TypeOK'
  BY <1>1, PlanTypes, DoneTypes, ReapTypes DEF HookStep
<1>2. ASSUME NEW s \in Sessions, Agent(s) PROVE TypeOK'
  BY <1>2, PollStepTypes, OtherTypes DEF Agent
<1>3. ASSUME NEW s \in Sessions,
             \/ \E k \in Pids, c \in Conn : Launch(s, k, c) \/ Beat(s, k, c)
             \/ Resume(s) \/ \E active \in BOOLEAN : StopScan(s, active)
      PROVE  TypeOK'
  BY <1>3, PollStepTypes, BeginTypes
<1>4. QED BY <1>1, <1>2, <1>3, ExitTypes, OtherTypes DEF Next

\* Every variable has its type, and the hooks stay within what the files
\* declare: id_of finds an identity for every room it is asked about.
THEOREM TypesHold == Spec => []TypeOK
<1>1. QED BY TypesInit, TypesNext, PTL DEF Spec

-----------------------------------------------------------------------------
(* The Stop hook spares its peers.  What it plans names its own identity,  *)
(* and between the listing and the kill a victim can only disappear: no    *)
(* poll of a peer comes to run under its pid.                              *)

\* A running Stop hook is about its own identity only.
HookScope ==
  \A s \in Sessions : hook[s].kind = "count" =>
    /\ \A c \in hook[s].todo \cup hook[s].kills : c[2] = s
    /\ \A k \in hook[s].victims \cap Running : procs[k][2] = s

LEMMA ScopeInit == Init => HookScope
BY DEF Init, HookScope, NoHook

\* A poll that starts gets a pid nobody means to kill.
LEMMA StartScope ==
  ASSUME HookScope, NEW k, NEW c, Free(k), Start(k, c), hook' = hook
  PROVE  HookScope'
<1> SUFFICES ASSUME NEW s \in Sessions, hook[s].kind = "count",
                    NEW j \in hook[s].victims, j \in Running'
             PROVE  procs'[j][2] = s
  BY DEF HookScope
<1>1. j # k /\ j \in Running
  BY DEF Free, Start, Running
<1>2. procs'[j] = procs[j]
  BY <1>1 DEF Start
<1>3. QED BY <1>1, <1>2 DEF HookScope

\* A poll that ends leaves fewer to spare.
LEMMA EndScope ==
  ASSUME HookScope, NEW k, Ended(k), NEW s \in Sessions, hook[s].kind = "count",
         NEW j \in hook[s].victims, j \in Running'
  PROVE  procs'[j][2] = s
<1>1. j \in Running /\ procs'[j] = procs[j]
  BY DEF Ended, Running
<1>2. QED BY <1>1 DEF HookScope

LEMMA ReapScope ==
  ASSUME TypeOK, HookScope, NEW s \in Sessions, NEW k \in Pids, Reap(s, k)
  PROVE  HookScope'
<1>1. hook' = [hook EXCEPT ![s] = [hook[s] EXCEPT !.victims = @ \ {k}]]
  BY DEF Reap, SetHook
<1>2. ASSUME NEW z \in Sessions
      PROVE  /\ hook'[z].kind = hook[z].kind /\ hook'[z].todo = hook[z].todo
             /\ hook'[z].kills = hook[z].kills /\ hook'[z].victims \subseteq hook[z].victims
  BY <1>1 DEF TypeOK, Hooks
<1>3. Ended(k)
  BY DEF Reap
<1>4. QED BY <1>2, <1>3, EndScope DEF HookScope

\* A step of the hook of one session is about that session alone.
LEMMA OwnScope ==
  ASSUME TypeOK, HookScope, NEW s \in Sessions, NEW h \in Hooks, SetHook(s, h), procs' = procs,
         h.kind = "count" => /\ \A c \in h.todo \cup h.kills : c[2] = s
                             /\ \A k \in h.victims \cap Running : procs[k][2] = s
  PROVE  HookScope'
<1>1. hook' = [hook EXCEPT ![s] = h] /\ Running' = Running
  BY DEF SetHook, Running
<1>2. hook'[s] = h /\ \A z \in Sessions \ {s} : hook'[z] = hook[z]
  BY <1>1 DEF TypeOK
<1>3. QED BY <1>1, <1>2 DEF HookScope

LEMMA PlanScope ==
  ASSUME TypeOK, HookScope, NEW s \in Sessions, NEW c \in Conn,
         StopCount(s, c) \/ StopList(s, c) \/ StartList(s, c)
  PROVE  HookScope'
<1>1. hook[s] \in Hooks /\ hook'[s] \in Hooks /\ TypeOK'
  BY PlanTypes DEF TypeOK
<1>2. CASE StopCount(s, c)
  <2>1. c \in hook[s].todo /\ c[2] = s
    BY <1>2 DEF StopCount, HookScope
  <2>2. /\ SetHook(s, hook'[s]) /\ procs' = procs
        /\ hook'[s].todo \subseteq hook[s].todo /\ hook'[s].victims = hook[s].victims
        /\ hook'[s].kills \subseteq hook[s].kills \cup {c}
    BY <1>1, <1>2 DEF StopCount, SetHook, TypeOK, Hooks
  <2>3. hook[s].kind = "count"
    BY <1>2 DEF StopCount
  <2>4. QED BY <1>1, <2>1, <2>2, <2>3, OwnScope DEF HookScope
<1>3. CASE StopList(s, c)
  <2>1. c[2] = s
    BY <1>3 DEF StopList, HookScope
  <2>2. /\ SetHook(s, hook'[s]) /\ procs' = procs
        /\ hook'[s].todo = hook[s].todo /\ hook'[s].kills \subseteq hook[s].kills
        /\ hook'[s].victims \subseteq Matching(c)
    BY <1>1, <1>3 DEF StopList, SetHook, TypeOK, Hooks
  <2>3. hook[s].kind = "count"
    BY <1>3 DEF StopList
  <2>4. \A k \in hook'[s].victims : procs[k][2] = s
    BY <2>1, <2>2 DEF Matching
  <2>5. QED BY <1>1, <2>2, <2>3, <2>4, OwnScope DEF HookScope
<1>4. CASE StartList(s, c)
  <2>1. hook[s].kind = "start"
    BY <1>4 DEF StartList
  <2>2. SetHook(s, hook'[s]) /\ procs' = procs /\ hook'[s].kind = hook[s].kind
    BY <1>1, <1>4 DEF StartList, SetHook, TypeOK, Hooks
  <2>3. QED BY <1>1, <2>1, <2>2, OwnScope
<1>5. QED BY <1>2, <1>3, <1>4

LEMMA BeginScope ==
  ASSUME TypeOK, HookScope, NEW s \in Sessions, NEW active \in BOOLEAN,
         StopScan(s, active) \/ Resume(s)
  PROVE  HookScope'
<1>1. hook'[s] \in Hooks
  BY BeginTypes DEF TypeOK
<1>2. CASE StopScan(s, active)
  <2>1. /\ SetHook(s, hook'[s]) /\ procs' = procs
        /\ hook'[s].todo = ScanDeclared(s) /\ hook'[s].kills = {} /\ hook'[s].victims = {}
    BY <1>1, <1>2 DEF StopScan, SetHook, TypeOK, NoHook
  <2>2. \A c \in ScanDeclared(s) : c[2] = s
    BY DEF ScanDeclared, Declared
  <2>3. QED BY <1>1, <2>1, <2>2, OwnScope
<1>3. CASE Resume(s)
  <2>1. SetHook(s, hook'[s]) /\ procs' = procs /\ hook'[s].kind = "start"
    BY <1>1, <1>3 DEF Resume, SetHook, TypeOK, NoHook
  <2>2. QED BY <1>1, <2>1, OwnScope
<1>4. QED BY <1>2, <1>3

LEMMA DoneScope ==
  ASSUME TypeOK, HookScope, NEW s \in Sessions, StopAdvise(s) \/ StartDone(s)
  PROVE  HookScope'
<1>1. SetHook(s, NoHook) /\ procs' = procs
  BY DEF StopAdvise, StartDone
<1>2. NoHook.kind = "none"
  BY DEF NoHook
<1>3. QED BY <1>1, <1>2, NoHookTypes, OwnScope

LEMMA ScopeNext == TypeOK /\ HookScope /\ [Next]_vars => HookScope'
<1> SUFFICES ASSUME TypeOK, HookScope, [Next]_vars PROVE HookScope'
  OBVIOUS
<1>1. ASSUME NEW s \in Sessions, HookStep(s) PROVE HookScope'
  BY <1>1, PlanScope, DoneScope, ReapScope DEF HookStep
<1>2. ASSUME NEW s \in Sessions, NEW k \in Pids, NEW c \in Conn,
             Launch(s, k, c) \/ Beat(s, k, c) \/ Obey(s, k, c)
      PROVE  HookScope'
  BY <1>2, StartScope DEF Launch, Beat, Obey
<1>3. ASSUME NEW k \in Pids, Exit(k) PROVE HookScope'
  <2>1. Ended(k) /\ hook' = hook
    BY <1>3 DEF Exit
  <2>2. QED BY <2>1, EndScope DEF HookScope
<1>4. ASSUME NEW s \in Sessions, NEW active \in BOOLEAN, StopScan(s, active) \/ Resume(s)
      PROVE  HookScope'
  BY <1>4, BeginScope
<1>5. ASSUME hook' = hook, procs' = procs PROVE HookScope'
  BY <1>5 DEF HookScope, Running
<1>6. ASSUME Tick \/ CalmDown \/ UNCHANGED vars \/ \E s \in Sessions : Restamp(s)
      PROVE  HookScope'
  BY <1>5, <1>6 DEF Tick, CalmDown, Restamp, vars
<1>7. QED BY <1>1, <1>2, <1>3, <1>4, <1>6 DEF Next, Agent

\* No friendly fire: the Stop hook of a session kills no poll of another
\* identity, whatever starts, delivers and exits between its count, its second
\* listing and its kills.
THEOREM StopSparesPeersHolds == Spec => StopSparesPeers
<1>1. TypeOK /\ HookScope /\ [Next]_vars => TypeOK' /\ HookScope'
  BY TypesNext, ScopeNext
<1>2. HookScope =>
        [ \A s \in Sessions : \A k \in Pids :
            hook[s].kind = "count" /\ Reaps(s, k) => procs[k][2] = s ]_vars
  BY DEF HookScope, Reaps
<1>3. QED BY <1>1, <1>2, TypesInit, ScopeInit, PTL DEF Spec, StopSparesPeers

-----------------------------------------------------------------------------
(* The silence of the Stop hook is earned: the markers are exactly the     *)
(* trace of the bounded beat polls.                                        *)

LEMMA MarkersAreBeats == (marker = beat) /\ [Next]_vars => (marker = beat)'
<1> SUFFICES ASSUME marker = beat, [Next]_vars PROVE marker' = beat'
  OBVIOUS
<1>1. ASSUME NEW s \in Sessions, HookStep(s) \/ Agent(s) PROVE marker' = beat'
  BY <1>1 DEF HookStep, Agent, StopCount, StopList, StartList, Reap, StopAdvise, StartDone, Restamp, Obey
<1>2. ASSUME NEW s \in Sessions, NEW k \in Pids, NEW c \in Conn, Launch(s, k, c) \/ Beat(s, k, c)
      PROVE  marker' = beat'
  BY <1>2 DEF Launch, Beat
<1>3. ASSUME NEW s \in Sessions, Resume(s) \/ \E active \in BOOLEAN : StopScan(s, active)
      PROVE  marker' = beat'
  BY <1>3 DEF Resume, StopScan
<1>4. ASSUME Tick \/ CalmDown \/ UNCHANGED vars \/ \E k \in Pids : Exit(k) PROVE marker' = beat'
  BY <1>4 DEF Tick, CalmDown, vars, Exit
<1>5. QED BY <1>1, <1>2, <1>3, <1>4 DEF Next

\* What the Stop hook drops from its list without advising a relaunch.
Silent(s, c) ==
  hook[s].kind = "count" /\ c \in hook[s].todo /\ c \notin hook'[s].todo /\ c \notin hook'[s].relaunch

\* A connection leaves the list only when it is counted.
LEMMA OnlyCountIsSilent ==
  ASSUME TypeOK, [Next]_vars, NEW s \in Sessions, NEW c \in hook[s].todo, Silent(s, c)
  PROVE  c \in Conn /\ StopCount(s, c)
<1>1. c \in Conn
  BY DeclaredAreConns DEF TypeOK, Hooks
<1>2. hook'[s] # hook[s]
  BY DEF Silent
<1>3. ASSUME NEW z \in Sessions, NEW h, SetHook(z, h) PROVE z = s /\ hook'[s] = h
  BY <1>2, <1>3 DEF SetHook, TypeOK
<1>4. ASSUME NEW z \in Sessions, HookStep(z) PROVE StopCount(s, c)
  <2>1. ASSUME NEW d \in Conn, StopCount(z, d) PROVE StopCount(s, c)
    <3>1. z = s
      BY <1>3, <2>1 DEF StopCount
    <3>2. hook'[s].todo = hook[s].todo \ {d}
      BY <2>1, <3>1 DEF StopCount, SetHook, TypeOK, Hooks
    <3>3. d = c
      BY <3>2 DEF Silent
    <3>4. QED BY <2>1, <3>1, <3>3
  <2>2. ASSUME NEW d \in Conn, StopList(z, d) PROVE FALSE
    <3>1. z = s /\ hook'[s].todo = hook[s].todo
      BY <1>3, <2>2 DEF StopList, TypeOK, Hooks
    <3>2. QED BY <3>1 DEF Silent
  <2>3. ASSUME NEW d \in Conn, StartList(z, d) PROVE FALSE
    BY <1>3, <2>3 DEF StartList, Silent
  <2>4. ASSUME NEW k \in Pids, Reap(z, k) PROVE FALSE
    <3>1. z = s /\ hook'[s].todo = hook[s].todo
      BY <1>3, <2>4 DEF Reap, TypeOK, Hooks
    <3>2. QED BY <3>1 DEF Silent
  <2>5. ASSUME StopAdvise(z) \/ StartDone(z) PROVE FALSE
    <3>1. z = s
      BY <1>3, <2>5 DEF StopAdvise, StartDone
    <3>2. QED BY <3>1, <2>5 DEF StopAdvise, StartDone, Silent
  <2>6. QED BY <1>4, <2>1, <2>2, <2>3, <2>4, <2>5 DEF HookStep
<1>5. ASSUME NEW z \in Sessions, Resume(z) \/ \E active \in BOOLEAN : StopScan(z, active) PROVE FALSE
  <2>1. z = s
    BY <1>3, <1>5 DEF Resume, StopScan
  <2>2. QED BY <2>1, <1>5 DEF Resume, StopScan, Idle, Silent
<1>6. ASSUME NEW z \in Sessions, NEW k \in Pids, NEW d \in Conn,
             Launch(z, k, d) \/ Beat(z, k, d) \/ Obey(z, k, d) PROVE FALSE
  BY <1>2, <1>6 DEF Launch, Beat, Obey
<1>7. ASSUME Tick \/ CalmDown \/ UNCHANGED vars \/ (\E k \in Pids : Exit(k))
             \/ (\E z \in Sessions : Restamp(z)) PROVE FALSE
  BY <1>2, <1>7 DEF Tick, CalmDown, vars, Exit, Restamp
<1>8. QED BY <1>1, <1>4, <1>5, <1>6, <1>7 DEF Next, Agent

\* A count of nothing without a hint is advised.
LEMMA CountSpeaks ==
  ASSUME TypeOK, NEW s \in Sessions, NEW c \in Conn, StopCount(s, c), c \notin hook'[s].relaunch
  PROVE  RecentlyPolled(c) \/ \E k \in Running : procs[k] = c
<1>1. SUFFICES ASSUME Matching(c) = {}, ~RecentlyPolled(c) PROVE FALSE
  BY DEF Matching
<1>2. ReconcileAction(Cardinality(Matching(c)), RecentlyPolled(c)) = "AdviseRelaunch"
  BY <1>1, FS_EmptySet DEF ReconcileAction
<1>3. c \in hook'[s].relaunch
  BY <1>2 DEF StopCount, SetHook, TypeOK, Hooks
<1>4. QED BY <1>3

\* A room is passed over in silence only for a running poll or a recent beat:
\* a standing poll that came and went leaves no marker to hide behind.
THEOREM SilenceIsEarnedHolds == Spec => SilenceIsEarned
<1>1. TypeOK /\ (marker = beat) /\ [Next]_vars => TypeOK' /\ (marker = beat)'
  BY TypesNext, MarkersAreBeats
<1>2. Init => marker = beat
  BY DEF Init
<1>3. TypeOK /\ (marker = beat) /\ [Next]_vars =>
        [ \A s \in Sessions : \A c \in hook[s].todo :
            hook[s].kind = "count" /\ c \notin hook'[s].todo /\ c \notin hook'[s].relaunch
              => beat[c] <= Window \/ \E k \in Running : procs[k] = c ]_vars
  <2> SUFFICES ASSUME TypeOK, marker = beat, [Next]_vars,
                      NEW s \in Sessions, NEW c \in hook[s].todo, Silent(s, c)
               PROVE  beat[c] <= Window \/ \E k \in Running : procs[k] = c
    BY DEF Silent
  <2>1. c \in Conn /\ StopCount(s, c) /\ c \notin hook'[s].relaunch
    BY OnlyCountIsSilent DEF Silent
  <2>2. QED BY <2>1, CountSpeaks DEF RecentlyPolled
<1>4. QED BY <1>1, <1>2, <1>3, TypesInit, PTL DEF Spec, SilenceIsEarned
=============================================================================
