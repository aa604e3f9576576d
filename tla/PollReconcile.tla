--------------------------- MODULE PollReconcile ---------------------------
(***************************************************************************)
(* The session hooks of cbc: what keeps one standing `cbc poll` running for *)
(* every room a session holds.  At the end of a turn the Stop hook counts  *)
(* the polls of each declared connection in the process table, kills the   *)
(* surplus from a second listing, and advises a relaunch where there is    *)
(* none; after a resume the SessionStart hook kills the polls of every     *)
(* state file and orders them relaunched.  Several sessions share one      *)
(* state directory, and their polls start, deliver and exit between any    *)
(* two steps of a hook.                                                    *)
(*                                                                         *)
(* Each session owns one ACTIVE state file, with a connections block under *)
(* the session's own identity (so an identity is named by its session);    *)
(* files without an identity are left out, and so are harnesses that send  *)
(* no session id.  A session's own agent and hooks take turns.             *)
(***************************************************************************)
EXTENDS Integers, Sequences, FiniteSets

CONSTANTS
  Sessions,   \* the sessions, which also name their identities
  FileOrder,  \* their state files in the order of the paths
  Rooms,
  Holds,      \* the rooms each session's file declares
  Pids,       \* bound: process ids, in the order in which ps lists them
  Window      \* POLL_ALIVE_WINDOW

ASSUME PollReconcileAssumption ==
  /\ FileOrder \in Seq(Sessions)
  /\ Sessions = {FileOrder[i] : i \in 1 .. Len(FileOrder)}
  /\ Holds \in [Sessions -> SUBSET Rooms]
  /\ Pids \subseteq Nat /\ Window \in Nat

\* What a poll's command line and a declared connection name.
Conn == Rooms \X Sessions
Declared(s) == Holds[s] \X {s}
AllDeclared == UNION {Declared(s) : s \in Sessions}

VARIABLES
  procs,     \* the polls in the process table: pid -> connection
  marker,    \* age of each connection's .poll-alive marker, up to Window + 1
             \* (which also stands for a marker that is absent)
  beat,      \* history: time since the last bounded beat poll, likewise
  stamped,   \* sessions whose file carries their present session id
  told,      \* the relaunch commands each session's agent has yet to obey
  hook,      \* the hook each session is running
  calm       \* history: from here on nothing disturbs the polls any more

vars == <<procs, marker, beat, stamped, told, hook, calm>>

Running == DOMAIN procs

\* `todo`: connections to count, or entries to reap; `victims`: pids to kill;
\* `kills` and `relaunch`: the plan; `active`: stop_hook_active.
NoHook == [kind |-> "none", todo |-> {}, victims |-> {},
           kills |-> {}, relaunch |-> {}, active |-> FALSE]

Init ==
  /\ procs = [k \in {} |-> <<>>]
  /\ marker = [c \in Conn |-> Window + 1] /\ beat = [c \in Conn |-> Window + 1]
  /\ stamped = Sessions
  /\ told = [s \in Sessions |-> {}]
  /\ hook = [s \in Sessions |-> NoHook]
  /\ calm = FALSE

Idle(s) == hook[s].kind = "none"
SetHook(s, h) == hook' = [hook EXCEPT ![s] = h]

-----------------------------------------------------------------------------
(* Polls.                                                                  *)

\* poll_matches over a ps listing: the room and the identity have to agree.
Matching(c) == {k \in Running : procs[k] = c}

\* A pid is not given out again while a hook still means to kill it.
Free(k) == k \notin Running /\ \A s \in Sessions : k \notin hook[s].victims

Start(k, c) == procs' = [j \in Running \cup {k} |-> IF j = k THEN c ELSE procs[j]]
Ended(k)    == procs' = [j \in Running \ {k} |-> procs[j]]

\* Mutant: every poll leaves a marker.
LaunchMarked(s, k, c) ==
  /\ Idle(s) /\ ~calm
  /\ c \in Declared(s) /\ Free(k)
  /\ Start(k, c)
  /\ marker' = [marker EXCEPT ![c] = 0]
  /\ UNCHANGED <<beat, stamped, told, hook, calm>>

\* The agent starts a standing poll, perhaps one too many.
Launch(s, k, c) ==
  /\ Idle(s) /\ ~calm
  /\ c \in Declared(s) /\ Free(k)
  /\ Start(k, c)
  /\ UNCHANGED <<marker, beat, stamped, told, hook, calm>>

\* A bounded beat poll: should_mark_alive, touch_poll_alive.
Beat(s, k, c) ==
  /\ Idle(s) /\ ~calm
  /\ c \in Declared(s) /\ Free(k)
  /\ Start(k, c)
  /\ marker' = [marker EXCEPT ![c] = 0]
  /\ beat' = [beat EXCEPT ![c] = 0]
  /\ UNCHANGED <<stamped, told, hook, calm>>

\* A poll delivers, gives up, or is reaped by the harness.
Exit(k) ==
  /\ k \in Running /\ ~calm
  /\ Ended(k)
  /\ UNCHANGED <<marker, beat, stamped, told, hook, calm>>

\* The agent obeys a relaunch command for a room of its own block.
Obey(s, k, c) ==
  /\ Idle(s)
  /\ c \in told[s] /\ c[1] \in Holds[s] /\ Free(k)
  /\ Start(k, c)
  /\ told' = [told EXCEPT ![s] = @ \ {c}]
  /\ UNCHANGED <<marker, beat, stamped, hook, calm>>

\* The agent writes its new session id into its file.
Restamp(s) ==
  /\ Idle(s) /\ s \notin stamped
  /\ stamped' = stamped \cup {s}
  /\ UNCHANGED <<procs, marker, beat, told, hook, calm>>

Older(age) == [c \in Conn |-> IF age[c] > Window THEN Window + 1 ELSE age[c] + 1]

Tick ==
  /\ marker' = Older(marker) /\ beat' = Older(beat)
  /\ UNCHANGED <<procs, stamped, told, hook, calm>>

-----------------------------------------------------------------------------
(* Stop.                                                                   *)

RecentlyPolled(c) == marker[c] <= Window

\* Mutant: one poll too many is tolerated.
ReconcileActionLax(n, hint) ==
  IF n > 2 THEN "KillExtras" ELSE IF n = 0 /\ ~hint THEN "AdviseRelaunch" ELSE "Ok"

\* reconcile_action.
ReconcileAction(n, hint) ==
  IF n > 1 THEN "KillExtras" ELSE IF n = 0 /\ ~hint THEN "AdviseRelaunch" ELSE "Ok"

\* scan_declared, with the session id of the payload.
ScanDeclared(s) == IF s \in stamped THEN Declared(s) ELSE {}

\* run_stop reads the files; without a connection it is done at once.
StopScan(s, active) ==
  /\ Idle(s)
  /\ ScanDeclared(s) # {}
  /\ SetHook(s, [NoHook EXCEPT !.kind = "count", !.todo = ScanDeclared(s), !.active = active])
  /\ UNCHANGED <<procs, marker, beat, stamped, told, calm>>

\* plan_stop, for one connection: count_polls, the marker, the action.
StopCount(s, c) ==
  /\ hook[s].kind = "count" /\ c \in hook[s].todo
  /\ LET action == ReconcileAction(Cardinality(Matching(c)), RecentlyPolled(c))
         h == hook[s]
     IN  SetHook(s, [h EXCEPT !.todo = @ \ {c},
                              !.kills = IF action = "KillExtras" THEN @ \cup {c} ELSE @,
                              !.relaunch = IF action = "AdviseRelaunch" THEN @ \cup {c} ELSE @])
  /\ UNCHANGED <<procs, marker, beat, stamped, told, calm>>

\* Mutant: the second listing takes every poll of the room.
StopListRoom(s, c) ==
  /\ hook[s].kind = "count" /\ hook[s].todo = {} /\ hook[s].victims = {}
  /\ c \in hook[s].kills
  /\ LET all == {k \in Running : procs[k][1] = c[1]}
     IN  SetHook(s, [hook[s] EXCEPT !.kills = @ \ {c},
                       !.victims = {k \in all : \E j \in all : j < k}])
  /\ UNCHANGED <<procs, marker, beat, stamped, told, calm>>

\* kill_surplus_polls lists again; the first of the listing stays.
StopList(s, c) ==
  /\ hook[s].kind = "count" /\ hook[s].todo = {} /\ hook[s].victims = {}
  /\ c \in hook[s].kills
  /\ SetHook(s, [hook[s] EXCEPT !.kills = @ \ {c},
                   !.victims = {k \in Matching(c) : \E j \in Matching(c) : j < k}])
  /\ UNCHANGED <<procs, marker, beat, stamped, told, calm>>

\* kill_pid; a poll that has exited meanwhile is no error.
Reap(s, k) ==
  /\ k \in hook[s].victims
  /\ Ended(k)
  /\ SetHook(s, [hook[s] EXCEPT !.victims = @ \ {k}])
  /\ UNCHANGED <<marker, beat, stamped, told, calm>>

\* The advisory, unless the loop guard is set.
StopAdvise(s) ==
  /\ hook[s].kind = "count"
  /\ hook[s].todo = {} /\ hook[s].kills = {} /\ hook[s].victims = {}
  /\ told' = [told EXCEPT ![s] = IF hook[s].active THEN @ ELSE @ \cup hook[s].relaunch]
  /\ SetHook(s, NoHook)
  /\ UNCHANGED <<procs, marker, beat, stamped, calm>>

-----------------------------------------------------------------------------
(* SessionStart.                                                           *)

\* run_session_start's id_of: the identity of the first connection for the
\* room, over all the files in order.
IdOf(room) ==
  FileOrder[CHOOSE i \in 1 .. Len(FileOrder) :
              /\ room \in Holds[FileOrder[i]]
              /\ \A j \in 1 .. i - 1 : room \notin Holds[FileOrder[j]]]

\* A resume or compaction: the session id rotates, and scan_active lists the
\* entries of every active file, whoever owns it.
Resume(s) ==
  /\ Idle(s) /\ ~calm
  /\ stamped' = stamped \ {s}
  /\ told' = [told EXCEPT ![s] = {}]
  /\ SetHook(s, [NoHook EXCEPT !.kind = "start", !.todo = AllDeclared])
  /\ UNCHANGED <<procs, marker, beat, calm>>

\* emit_relaunch, for one entry: kill_all_polls lists, the command is written.
StartList(s, c) ==
  /\ hook[s].kind = "start" /\ hook[s].victims = {}
  /\ c \in hook[s].todo
  /\ SetHook(s, [hook[s] EXCEPT !.todo = @ \ {c},
                   !.victims = Matching(<<c[1], IdOf(c[1])>>),
                   !.relaunch = @ \cup {<<c[1], IdOf(c[1])>>}])
  /\ UNCHANGED <<procs, marker, beat, stamped, told, calm>>

\* The session starts with the directive before it; of a directive for
\* co-located sessions the agent heeds the rooms of its own block.
StartDone(s) ==
  /\ hook[s].kind = "start" /\ hook[s].todo = {} /\ hook[s].victims = {}
  /\ told' = [told EXCEPT ![s] = {c \in hook[s].relaunch : c[1] \in Holds[s]}]
  /\ SetHook(s, NoHook)
  /\ UNCHANGED <<procs, marker, beat, stamped, calm>>

-----------------------------------------------------------------------------

HookStep(s) ==
  \/ \E c \in Conn : StopCount(s, c) \/ StopList(s, c) \/ StartList(s, c)
  \/ \E k \in Pids : Reap(s, k)
  \/ StopAdvise(s) \/ StartDone(s)

Agent(s) == Restamp(s) \/ \E k \in Pids, c \in Conn : Obey(s, k, c)

CalmDown == ~calm /\ calm' = TRUE /\ UNCHANGED <<procs, marker, beat, stamped, told, hook>>

Next ==
  \/ \E s \in Sessions :
       \/ \E k \in Pids, c \in Conn : Launch(s, k, c) \/ Beat(s, k, c)
       \/ \E active \in BOOLEAN : StopScan(s, active)
       \/ HookStep(s) \/ Agent(s) \/ Resume(s)
  \/ \E k \in Pids : Exit(k)
  \/ Tick \/ CalmDown

(***************************************************************************)
(* Time passes, a hook that has started runs to its end, a session goes on *)
(* taking turns that end with an unguarded Stop, and its agent does what   *)
(* the hooks tell it and re-stamps its file after a resume.                *)
(***************************************************************************)
Fairness ==
  /\ WF_vars(Tick)
  /\ \A s \in Sessions :
       /\ WF_vars(HookStep(s)) /\ SF_vars(StopScan(s, FALSE))
       /\ SF_vars(Restamp(s)) /\ SF_vars(\E k \in Pids, c \in Conn : Obey(s, k, c))

Spec == Init /\ [][Next]_vars /\ Fairness

-----------------------------------------------------------------------------
(* Properties.                                                             *)

Ages == [Conn -> 0 .. Window + 1]
Hooks == [kind : {"none", "count", "start"}, active : BOOLEAN, victims : SUBSET Pids,
          todo : SUBSET AllDeclared, kills : SUBSET AllDeclared, relaunch : SUBSET AllDeclared]

\* Every variable has its type; a hook only ever plans for, kills for and
\* advises connections that some file declares (proved, not model-checked).
TypeOK ==
  /\ Running \subseteq Pids /\ procs \in [Running -> Conn]
  /\ marker \in Ages /\ beat \in Ages
  /\ stamped \subseteq Sessions
  /\ told \in [Sessions -> SUBSET AllDeclared]
  /\ hook \in [Sessions -> Hooks]
  /\ calm \in BOOLEAN

\* s has just killed k.
Reaps(s, k) == k \in hook[s].victims /\ k \notin hook'[s].victims /\ k \in Running

\* No friendly fire: the Stop hook of a session kills no poll of another
\* identity, although it plans, lists and kills at different moments while
\* everybody's polls come and go in the same rooms (poll_matches).
StopSparesPeers ==
  [][ \A s \in Sessions : \A k \in Pids :
        hook[s].kind = "count" /\ Reaps(s, k) => procs[k][2] = s ]_vars

\* The Stop hook is silent about a room it holds only if a poll of it was
\* running when it looked, or a bounded beat poll started within the window: a
\* standing poll that came and went covers for nothing (should_mark_alive).
SilenceIsEarned ==
  [][ \A s \in Sessions : \A c \in hook[s].todo :
        hook[s].kind = "count" /\ c \notin hook'[s].todo /\ c \notin hook'[s].relaunch
          => beat[c] <= Window \/ \E k \in Running : procs[k] = c ]_vars

\* Whatever launches, exits, resumes and half-finished hooks came before, once
\* the disturbances end every held connection comes to exactly one poll, and
\* the hooks leave it alone.
ReconcileConverges ==
  <>[](calm => \A s \in Sessions : \A c \in Declared(s) :
                 Cardinality({k \in Running : procs[k] = c}) = 1)

-----------------------------------------------------------------------------
(* A claim of the source that shared state files refute.                   *)

\* main.rs on the SessionStart reap: every poll of this session's identity for
\* the room, "never a peer's poll of the same shared room".
StartSparesPeers ==
  [][ \A s \in Sessions : \A k \in Pids :
        hook[s].kind = "start" /\ Reaps(s, k) => procs[k][2] = s ]_vars
=============================================================================
