# chatbotchat, specified

chatbotchat is a local message bus for AI coding agents. A daemon (axum over
SQLite) keeps rooms; agents join a room, send messages, long-poll for the other
side's, signal that they are away or blocked, pause and wake the room, and close
it or extend its message cap by consensus. The `cbc` client wraps this in a CLI,
an MCP server, a background poll loop and two session hooks.

This directory holds TLA+ modules for the parts of that system whose difficulty
is order: which of two handlers commits first, what a handler still believes
after another one has changed the room, what is left behind when a client hangs
up between two statements. Every module is translated from the Rust source; the
table in `PROJECT.json` ("map") gives the lines each definition stands for.

    tlc -config RoomRaces.cfg MCRoomLifecycle      # one run; see "Runs"
    tlapm RoomLifecycle_proofs.tla                 # the proofs of one module; see "Proofs"

Paths below are relative to `src/`; `core` is `crates/chatbotchat-core/src`.

## 1. Inventory

| Component | State it keeps | Operations | What makes it correct |
|---|---|---|---|
| Lifecycle table (`core/lifecycle.rs`, `core/room.rs`) | none | `transition`, `compute_time_event` | only the legal edges; each window counts from the right timestamp |
| Room row and audit log (`core/http.rs`, `core/storage.rs`, `core/event.rs`) | `rooms.state`, `last_activity_at`, `state_changed_at`; `events` | send, signal, pause, wake, close, force, each with a guarded UPDATE | the log explains the row; replies tell the truth; a pause and an acknowledged close last |
| Sweeper (`core/sweeper.rs`) | its copy of the rooms during a pass | `sweep_once`, hourly | never overrides a request; a due move is applied in the end |
| Messages and cursors (`core/storage.rs`, `core/message.rs`) | `messages` with `seq`, `participants.last_read_seq` | capped insert, claim (read, find, compare-and-swap), join at the current `seq` | each message has exactly one fate per participant; order per client |
| Hub and long poll (`core/waiter.rs`, `core/http.rs`) | broadcast channels without content; a wait's position | subscribe, notify, claim, park, yield, report | no lost wakeup; a stored message is claimed in the end |
| Consensus (`core/http.rs`, `core/storage.rs`, `core/room.rs`) | votes to close and to extend in the participants rows; `hard_cap` | close, force, extend, retraction by a message, prune | a quorum hears everybody live; nobody stalls; the cap holds |
| Wait hints and soft cap (`core/http.rs`, `core/waiter.rs`) | none, computed on read | `backoff_secs`, busy and away hints, `surface_to_user` | monotone and capped; the user is pulled in once |
| Presence (`core/presence.rs`) | per handle: open guards, last release | enter, release, retain, is_live | a handle with an open connection reads live |
| Identity (`core/identity.rs`, `core/ids.rs`, `core/participant.rs`) | participants rows, unique by handle and by instance | join, open, resolve | one row per instance whatever races |
| Daemon (`bins/chatbotchat-server`) | none | start, stop without draining | rows alone carry the state |
| Poll loop (`bins/cbc/src/main.rs`) | budgets for errors, empty polls, absence, silence | wait, decide, sleep, exit | its agent is no ghost; it gives up neither early nor never |
| HTTP client, wire types (`crates/chatbotchat-client`, `-protocol`) | none | one request per call, no retry; statuses to and from text | a lost response, repeated by the agent, leaves nobody stuck |
| MCP server (`bins/cbc/src/mcp.rs`, `wait_status.rs`, `context.rs`) | none; the agent's memory of the last "next" | one tool per request, each answer with an instruction | two agents that follow their instructions never wait for each other and pull their user in; one label is one participant |
| Session hooks (`bins/cbc/src/hook.rs`) | declared rooms, process list, beat files | Stop and SessionStart reconcile | one poll per declared room; nobody else's poll is killed |
| Installer (`bins/cbc/src/install.rs`, `settings.rs`, `skill.rs`) | `settings.json` and its `.bak`, SKILL.md files, the launchd agent | allow-tools, install-hooks, install-skill, install-daemon | the user's text survives, rules go in once and all, devkit's files are not written |
| CLI (`bins/cbc/src/main.rs`) | none | argument handling and printing | - |

How they meet. Every handler runs on its own task and talks to the database
statement by statement; there is no lock around a handler. The `rooms` row is
changed only by `update_room_state`, one transaction that compares the state the
handler read. The hub carries pings without content: a request changes the
database first and rings last, a wait subscribes first and reads afterwards. The
sweeper takes part in the races for the row but rings nobody. A handler whose
client disconnects is dropped at its current await, and the daemon stops without
draining, so every prefix of a handler's statements can be all that ever
happens. The poll loop sees the room only through the status its waits return,
and in turn its waits are what keeps its agent from being a ghost.

The hard behaviours are listed line by line in `PROJECT.json` ("hazards"), with
the properties that cover each one, or why none does yet.

## 2. Modules

**`Lifecycle`** is the pure part: the transition table as a set of edges, the
four thresholds, and `ComputeTimeEvent`. Times are naturals; only the order of
the thresholds and the comparison at each of them matter.

**`RoomAudit`** is the abstract room: it starts active, moves along an edge of
the table, and every move appends `<<from, to>>` to a log.

**`RoomLifecycle`** is one room under concurrent requests and the sweeper. Each
request is a program counter over the database calls of its handler: `Arrive`
(get_room and the guards that look at that copy), then `Insert`, `Touch`,
`Revive` (send_message), `Cas` then `Insert` (a blocker signal), `Vote`, `Cas`,
`Recheck` (close_room and close_now), or `Cas` alone (pause, wake). `seen` and
`at` are the handler's locals: the state it read and the `now` it took.
`SweepList`, `SweepDecide`, `SweepApply` are sweep_once. `Cancel` drops a
handler, `Restart` drops everything in flight. Whether a close meets its quorum
and whether an insert meets the cap is a choice here.

**`Inbox`** is the abstract delivery: a log and, per participant, a cursor that
moves to the next message addressed to it.

**`Delivery`** is the real one: requests that change the room and then ring,
waits that read the room, subscribe, claim in three calls, check, park, are
woken or expire, and report. The six states of the room are folded to open or
halted, and `halt` remembers what halted it so that a missing ping can be traced
to its request; `votes` stands for either kind of pending vote. `Gate` leaves
the silence of the counterpart open (a zero deadline is always possible).

**`Consensus`** has the votes: four statements for a close, one transaction for
an extend, an insert followed by two retractions for a message, with participants
that join, fall silent, come back and are pruned meanwhile. The room is open or
closed; a close that loses its CAS to another move is a choice.

**`PollLoop`** is poll_until_event around poll_decision for both agents of a
room, against wait_room reduced to what its gates look at: who is on the
roster, when each last polled, whether a message waits, whether the latest
message of the other is an away signal, whether the room is halted. It counts
time relatively (ages and countdowns), so there is no last moment and liveness
is about real infinite behaviours. Time does not pass while a loop is due to do
something (`Due`), which says that a database call is short against a second.

**`PollReconcile`** is the two session hooks of several sessions that share one
state directory. A poll is a process that carries a room and an identity; polls
start, deliver and exit between any two steps of a hook. Stop reads the files of
its own session (`StopScan`), counts one connection after the other
(`StopCount`), lists again and kills (`StopList`, `Reap`) and advises
(`StopAdvise`); SessionStart works through the entries of every active file
(`Resume`, `StartList`, `Reap`, `StartDone`). What an agent does about a relaunch
command or its rotated session id is taken from the skill file (`Obey`,
`Restamp`). Markers have ages instead of times, and `calm` marks the moment from
which nothing disturbs the polls any more.

**`Roster`** is who is in which room. `open_room` tries ids in order (`OpenTry`);
`join_room` looks the label up as an instance and as a handle (`FindInstance`,
`FindHandle`), mints a handle against the list of its room (`List`), inserts it
against both unique indexes (`Insert`) and after a violation looks again
(`Refetch`). Beside them stands the presence map, each operation of which is one
step because of its mutex: `Entered` and `Released` for the guard of a long poll,
`RetainLive` and `View` for the two places that forget entries. Long polls are
reduced to their guard, their touch of `last_poll_at` and the cursor they leave;
`Prune` deletes ghosts, `Restart` keeps the rows and forgets the map.

**`Guidance`** composes the daemon with two agents that do what the `next` field
of every MCP tool tells them. A request is one atomic step here (its statements
race in the modules above), so that what is left is the protocol between the
agents: `todo` is the last instruction, `owed` the turn an agent has been told to
take, by itself or with its user. `Join`, `Recap`, `Send`, `Wait`, `Signal`,
`Close`, `Extend`, `Pause` and `Wake` are the tools; `Answer` either arrives or is
lost after the request took effect (`Unheard`), in which case the agent calls
again. `Instance` is detect_instance, `Restart` a new process without its memory,
`GoDark` fifteen minutes of silence. `Run` is the soft-cap count, computed from
the log at each delivery as the code does. `mute` is the history of deliveries
and instructions that cannot lead to an answer, for reasons the code does not
handle (a message by its number, the turn that a join asks for as 0); the properties
exempt them by name.

**`Installer`** is the four commands that edit files they do not own, as processes
that overlap with each other, the user, devkit and kills. `std::fs::write` is two
steps, an emptying and a filling. A settings file is what the merge tells apart:
missing, empty, broken, or JSON with some of the rules, sections of the wrong type,
and the number of the user's save whose text it holds. A skill is a directory or
devkit's link, with a SKILL.md that is a file or a link; an open file keeps being
written after its name has moved (`Orphaned`).

The `MC` modules give symmetry sets and finite parameters, and each `.cfg` is one
run. Operators commented "Mutant" are plausible bugs of the definition that
follows; no specification uses them, they exist to show that the property would
notice.

## 3. Runs

| Run | Question | Result |
|---|---|---|
| `room_races` | two requests of any kind, the sweeper, disconnects, restarts on one row: audit chain, honest replies, final closes, the archive window, durable pauses, refinement of RoomAudit, and that a due move is applied | holds |
| `delivery_races` | two clients of any handles claiming while requests of every kind land: one fate, order per client, no lost wakeup, refinement of Inbox | holds |
| `delivery_live` | disconnects and prunes: a stored message is claimed in the end | holds |
| `consensus_votes` | three participants, three requests of any kind, ghosts and prunes: no stalled close or extend, cap respected, quorums hear everybody live, bumps are agreed | holds |
| `poll_hold` | two poll loops: no ghost on the line, no early and no missing give-up | holds |
| `hook_reconcile` | two sessions, one room, one state directory: Stop kills nobody else's poll, is silent only over a poll or a recent beat, and each session comes to exactly one poll | holds |
| `roster` | three opens or joins, two long polls, prunes, restarts: one participant per agent, answers name one's own row and room, nothing shown is delivered again, `poll_live` is true, a prune spares open polls | holds |
| `guidance` | two labelled agents that follow their instructions, with a lost response, a restart or a pause: one participant per label, the user is consulted at the soft cap, the two never wait for each other | holds |
| `installer` | two commands of any kind, two saves by the user, a devkit link, a kill: the user's text is in the file or the backup, reported rules are there and there once, devkit's file is untouched | holds |
| `msg_on_idle_not_revived` | http.rs:653 "a msg landing on an idle/stale room revives it" | violated |
| `session_start_reaps_peer` | main.rs:736 "never a peer's poll of the same shared room" | violated |
| `fold_does_not_reset` | mcp.rs:343 "Fold signaled — the soft-cap counter is reset" | violated |

What the three violated claims show:

- `send_message` decides on a revive from the copy it read before the insert. If
  the sweeper idles the room between the two, the message is acknowledged and the
  room stays idle until the next message.
- SessionStart goes through the active files of every session, because it cannot
  tell its own, and reaps each room under the identity of the first file that
  declares it. Where an orchestrator and a worker share a directory and a room,
  the resume of either kills the orchestrator's healthy poll, and a worker's own
  orphan survives. The later Stop hooks repair that (`ReconcileConverges`), as
  long as the sessions go on taking turns.
- A `fold` signal leaves the soft-cap count where it was: only a message with
  `--human` and a `waiting_user` signal end a run of autonomous turns.

Behaviour the models contain without a run, because nothing says otherwise or
because it is a matter of taste: a wake between the pause and the insert of a
`blocker_real_work` signal yields a 201 and a blocker message on an active room
(http.rs:785 says never, but a wake right after the answer looks the same); a
message takes its sender's close vote back in
a statement after its insert, so a counterpart's close can count the old vote in
between (http.rs:636 calls a message "a deterministic continue, don't close"); a wake does not touch `last_activity_at`, so the
next sweep may idle the room it has just woken; a message retracts only its own
sender's vote, while ADR 0003 reads as if it cleared all; an extend that passed
its state check bumps the cap of a room closed meanwhile; a participant that
joins between the count and the CAS of a close has no say in it; the survivor of
a prune is answered `awaiting_counterpart` and is not drained although it has
unread mail; a poll loop behind a standing away signal holds for ever
(`HoldEnds` excepts that case by name); a close or extend writes the clock it
arrived with as `last_poll_at` (http.rs:885), so a handler held up for longer than
GHOST_AFTER can make the one participant left look like a ghost to a close whose own
row has been pruned, and that close is answered `proposed` with every vote cast;
a wait that finds nothing and then sees the room halted in `should_yield`
(waiter.rs:131) does not look for a message again, so one that lands together with
the pause is left for a later wait, where waiter.rs:86 says a queued message is
drained first.

Behaviour of the composed agents that `ConsultedInTime` and `FloorIsHeld` exempt
(`mute`), because the code leaves it to the next call or the user: a delivery whose
response is lost is never repeated, and with it goes a soft-cap signal; a message
drained in a paused room is dealt without the instruction to answer it, although
mcp.rs:460 says a paused room will not deliver, and after a wake nobody owes the
turn; a wake that finds the room active tells the agent to "just resume cbc_wait"
(mcp.rs:490), which drops a turn it owes; a session that restarts forgets that its
user was to be asked; an agent without a label comes back as another participant,
whose old row nobody moves. A repeated send is stored twice and a repeated extend
can raise the cap twice, since no request carries a key. Texts that disagree with
the numbers or the rule in the code, without a run because no step depends on them:
the "+10" of an extend against `EXTEND_STEP` 20, the "hard 10" of OpenRoomRequest
against a default of 20, and close_room's "clears all votes" (http.rs:825), where a
message takes back its sender's alone.

### Bounds, and why they are enough

- Requests: two or three. A handler has at most four statements and every hazard
  here is a window between two statements of one handler, entered by one or two
  others; the third request is the observer. More requests repeat these windows.
- Participants: one in `RoomLifecycle`, where who asks does not matter; two in
  `Delivery`, the pair the product is made for; three in `Consensus`, where a
  ghost besides the live pair is the case.
- Waits: two, so that two clients of one handle can race for its cursor; one in
  the liveness run, where the second would only help.
- `ChannelSize` 1 (16 in the code) makes a receiver overflow with two requests.
- Time: the thresholds are 0, 1, 2, 3 units, the smallest that keep their order. In
  `room_races` the clock runs to 4 and requests arrive until 1, so that a handler
  that has read an active room can meet a sweep of any kind, and a room goes on to
  be archived after the last of them. In `consensus_votes`
  `GhostAfter` and `MaxHandling` are 1 and the clock runs to 2: a handler can see one
  tick, a participant that spoke at 0 is a ghost at 2, and one prune can fall between
  any two statements of a close. GHOST_AFTER is fifteen minutes and a handler a few
  statements, so `MaxHandling <= GhostAfter`; `NoStalledClose` says so, because it is
  false otherwise (see below).
- `MaxDrops` and `MaxPrunes` bound disconnects and prunes to one each: the effect
  of a disconnect is a prefix of one handler, and they do not add up.
- `PollLoop`: a park of 1, sleeps of 1 or 2, two errors in a row, budgets of 2 and
  3 units, and a ghost window of 5, the least that `HeartbeatAssumption` admits:
  one more failed wait would make a ghost. There is no bound on the length of a
  behaviour. `Oldest` saturates ages where nothing distinguishes them any more.

- `PollReconcile`: two sessions that share their only room, which is the case in
  which one hook can touch the other's polls, and two process ids: a surplus of
  one session, or one poll of each. `Window` 1 tells a fresh marker from an old
  one. A pid is not reused while a hook is about to kill it.

- `Roster`: three requests are two joins that race and an open, or three joins of
  which the last is the retry; two handles collide within a room and across rooms;
  two long polls share a handle or not. `MaxAttempts` 2 (64 in the code) reaches
  both a second attempt and its failure. `Cap` 1 and `GhostAfter` 2 keep the order
  that `RosterAssumption` states.

- `Guidance`: two agents, because a room is two-party; `SoftCap` 2 and `HardCap` 2
  are met within four rows of log, where an extension by `ExtendStep` 2 goes once and
  its announcement still fits; one fault, since each (a lost response, a restart, a
  pause) is what a property is about on its own; the theorems are about any number.
  Both agents are labelled in the run; without a label a restart is a third
  participant, which the properties exempt. `fold_does_not_reset` needs no fault.
- `Installer`: two runs, the fewest that overlap; two saves, so that a later one can be
  told from an earlier one; one link and one kill. One skill: the skills do not share
  files, and `NextSkill` only counts.

Deadlock checking is off in every run: a room whose requests have all been
answered and whose clock has stopped is a legitimate end.

### Fairness

- `RoomLifecycle`: time passes, the daemon runs the handlers it has accepted
  (tokio polls every ready task), and the sweeper's interval ticks for ever
  (`run_sweeper` is a loop that logs errors and goes on). No client has to call or
  stay connected. Restarts end at `LastArrival`; infinitely many could starve the
  sweeper, whose first tick comes an hour after a start.
- `Delivery`: handlers and waits run, a park ends at its cap, and a client polls
  again after an answer, which is what `cbc poll` and the skill text do.
- `PollLoop`: time passes and a loop that is due runs. Launches, joins, sends and
  the harness's kills are not obliged to happen. The error path is covered by the
  same fairness as the call: a call that is made is answered or fails.
- `PollReconcile`: a hook that has started ends, sessions go on taking turns that
  end with a Stop whose loop guard is clear, and agents obey a relaunch command and
  stamp their files as the skill tells them. No poll is obliged to start or end.

## 4. Proofs

The proofs of a module `M` are in `M_proofs`, and each theorem is about every
value of the constants that the assumptions of `M` admit, where a run of section 3
is about one. All eight follow one plan. The property is what an agent or a user
would notice; it is seldom inductive, because it says nothing of a handler that is
still between two statements. So each module has an invariant that says what every
position in a handler knows of the shared state, and how long that knowledge lasts.
Every strengthening was first checked by TLC as an invariant of the run that checks
the property, and its parts are named after what they say.

`RoomLifecycle_proofs` holds, for any sets of requests and participants, any
thresholds and any bounds:

| Theorem | States |
|---|---|
| `TypeCorrect` | `Spec => []TypeOK` |
| `AuditChainAlways` | the audit log joins up from active to the row, however many stale copies race |
| `AckedCloseStays` | a room whose close was acknowledged stays closed or archived |
| `PauseDurable` | only the commit of a wake or a close ends a pause |
| `RoomRefinesAudit` | the concurrent room implements `RoomAudit` |
| `ArchiveWindowKept` | a room is archived only when its archive window is over |
| `RepliesHonest` | what a reply says happened did happen, and a 409 left nothing behind |

They rest on `ThresholdsAssumption` and `RoomLifecycleAssumption` only (the
sweeper is not a request; nobody is not a participant). The inductive invariant
is `TypeOK /\ SweepSound /\ Positions`, and its three parts are there for three
reasons:

- `SweepSound`: a move the sweeper has decided on is an edge that only time
  takes, from the state it listed. Without it `SweepApply` could move the row
  along anything, since `sweep_once` commits without consulting the table again.
  From it follows `StepShape`, the lemma the others use: every step leaves the
  row and the log alone, or is one `Commit` along an edge of the table from the
  state the row is really in.
- `AuditChain` is then inductive: a commit appends a row whose `from` is the
  state of the row, which is the last audit row's `to`.
- `Positions`: a position in a handler belongs to the operations that reach it,
  and only a handler that has ended has replied. So a close is acknowledged only
  by its own commit or by a recheck that found the room terminal (`CloseAck`),
  and by `StepShape` no edge leads from a terminal state to one that is not
  (`TerminalStays`): `AckedCloseIsFinal`.
- `PauseDurable`: the table's only edges out of paused are Wake and Close. A
  revive's event is Message and a sweep's is one of the time events, so neither
  can be the step; a `Cas` can only if `Positions` makes it a wake or a close.
- `RoomRefinesAudit` maps `state` to itself and the audit rows to their endpoints;
  `StepShape` makes each step a `Move` or a stutter.
- `ArchiveWindowKept`: the sweeper compares the window with the timestamp of the
  copy it listed, and commits if the *state* is still the listed one, which does not
  exclude that the room has left that state and come back. `SweepKnows` does: only
  the sweeper makes a room stale and it is busy with this pass, and nothing reopens
  a closed room, so a row in the listed state has the listed timestamp. `SweepDue`
  carries the comparison from the decision to the commit.
- `RepliesHonest`: `Deeds` says what a request in flight has done so far (nothing
  before its CAS, its message not before its insert, its pause before its blocker).
  The answer is then judged by what `Deeds` says at the last statement, and stays
  true because rows of the log are never removed and bear their request.

`Delivery_proofs` holds for any participants, requests and waits, any channel
capacity and any bounds, from `DeliveryAssumption` (the markers are not handles or
requests):

| Theorem | States |
|---|---|
| `DeliveryTypeCorrect` | `Spec => []TypeOK` |
| `DeliveryRefinesInbox` | the racing claims implement the one-step cursor of `Inbox` |
| `EveryMessageOneFate` | a message behind a cursor was delivered once, is held by one wait, or was lost with the client that claimed it |
| `ClientsSeeOrder` | what a client is about to be given is newer than all it was given |
| `NoWakeupLost` | a parked wait with something to react to has a ping, or the request that caused it has still to ring |

The invariant `Sound` adds to the types what a wait may rely on: while it runs its
participant stays on the roster (`WaiterOnRoster`, Prune's guard), and what it has
found is still the next message after the cursor it read (`FoundIsNext`), whatever
is appended meanwhile. The compare-and-swap then says that the cursor it read is
the cursor now, and the step is Inbox's `Take`: that is the refinement.
`OneFate` is inductive together with `Newcomers` (nobody has received anything
before its row exists, and no cursor falls behind its start): a claim passes
exactly one message, which was in no one's hands. `ClientsSeeOrder` rests on
`Seen`: what a client was given last lies behind its handle's cursor, also when
another client moved it.
`NoLostWakeup` speaks of parked waits only and is not inductive; `Awake` says the
same of unread messages already from the empty claim on, since a message that lands
between the claim and the park was stored after the subscription, so its ring is
still to come. The empty claim itself says something of the inbox only because the
cursor it read is not ahead of the row's (`Behind`). `Clearers` adds that whoever
takes votes back on the way to the hub is a message or a close: a message puts its
sender, and a close nobody, before a proposal.

`Consensus_proofs` holds for any finite set of participants, any requests, either
quorum rule, any cap, step and ghost window, from `ConsensusAssumption`:

| Theorem | States |
|---|---|
| `ConsensusTypeCorrect` | `Spec => []TypeOK` |
| `HardCapHolds` | the message count stays within the hard cap |
| `NoExtendStalls` | never has everybody asked for an extension without getting it |
| `NoCloseStalls` | a close everybody voted for happens or is refused, if `MaxHandling <= GhostAfter` |
| `BumpsAreAgreed` | the cap moves by one step, asked for by all the live under an all-quorum |
| `ClosesAreHeard` | a close passes its count only with the votes of those live by the wall clock |

`CapRespected` needs that the cap a sender read is at most the cap (`CapKnown`);
the quorum theorems that a handler's clock is behind the wall clock (`ClockKnown`),
so that whom the wall clock calls live the handler does too, and two facts about
finite sets (`QuorumOfAll`, `EverybodyIsEnough`). `NoStalledExtend` is inductive
together with `AskedStand`: the votes that stand are those of the rows that have
asked since the last bump. `NoStalledClose` needs the second invariant, `Close`:
the votes of those who have not spoken since stand (`CloseVotesStand`), and once
everybody has voted some close is on its way to a count at which somebody is live
(`ClosePending`). Somebody stays live for it because a prune leaves only the live
and because a late touch is at most `MaxHandling` old; looking for that step is what
brought up the held-up handler of section 3.

`PollReconcile_proofs` holds for any sessions, files, rooms and pids, from
`PollReconcileAssumption` (the files are those of the sessions):

| Theorem | States |
|---|---|
| `TypesHold` | `Spec => []TypeOK`: the hooks stay within the connections some file declares |
| `StopSparesPeersHolds` | the Stop hook kills no poll of another identity |
| `SilenceIsEarnedHolds` | the Stop hook is silent about a room only for a running poll or a recent beat |

`TypeOK` is proved and not model-checked; it says that `id_of` always finds a file,
for which `FirstFile` takes the least index from the well-foundedness of the
naturals. `StopSparesPeers` is not inductive, since a victim was listed some steps
before it is killed: `HookScope` says that what a running Stop still has to count,
list or kill names its own identity, and is kept by a poll that starts because the
process table does not give out a pid somebody is about to kill (`Free`).
`SilenceIsEarned` needs that the markers are exactly the trace of the bounded beat
polls (`MarkersAreBeats`) and that a connection leaves the list only when it is
counted (`OnlyCountIsSilent`).

`Roster_proofs` holds for any requests, agents, handles and long polls, any cap,
grace and ghost window, from `RosterAssumption`: a long poll ends well before its
participant looks like a ghost (`Cap < GhostAfter`, 25 seconds against 15 minutes),
and a daemon has finitely many open connections, so that they can be counted:

| Theorem | States |
|---|---|
| `RosterTypes` | `Spec => []TypeOK` |
| `PollLiveTrue` | a handle reads live exactly while a poll is open or was released within the grace period |
| `ParkedIsSpared` | a prune deletes no participant with an open poll |
| `AgentOne` | an agent's joins to a room are answered with one handle, unless a prune took it |
| `AnswerMine` | two opens get a room each, and a join the row that carries its label |
| `ShownNotDelivered` | what a join has shown lies behind the cursor of its row |

`PollLiveIsTrue` is about the count in the presence map, so the invariant is that
count: `Counted` says that an entry holds the number of open guards and the age of
the last release, and that a handle without an entry has neither. It needs the
cardinalities of the set of open polls of a handle before and after one enters or
leaves, and that `RetainLive` forgets only entries that read dead already.
`PruneSparesParked` follows from `Young`: the row of a parked handle is no older
than the poll, because the touch of `last_poll_at` comes between resolve and park.
For the answers, `Knows` says what each local of a join's handler is worth: a handle
that was found, minted or inserted is a row of its room that carries the label, until
a prune deletes it, and a label that is somebody's handle belongs to a row of
another room (`Apart`). `AgentIsOne` then is the unique index on the instance
(`Unique`) applied to two such answers.

`Installer_proofs` holds for any number of runs, skills, saves, links and kills,
from `InstallerAssumption`:

| Theorem | States |
|---|---|
| `InstallerTypes` | `Spec => []TypeOK`: in particular no file ever holds a rule of cbc twice |
| `DevkitSafe` | devkit's file is written by no run that looked after devkit's last link |
| `UserTextSafe` | the user's last save is in the file or in its backup |
| `AckedRulesSafe` | the rules of a run that reported success are there until the user takes them out |

All four rest on freshness. A run is fresh until somebody else writes what it has
read, and the properties excuse what happens once a run that is not fresh has
written. `Current` says what a fresh run may rely on: settings.json is what it read
until it empties it, and from the moment the backup is complete the backup is that
text too (or there was no file). `UserKept` and `RulesKept` are then inductive, in
the file and in the hands of every fresh run at once. For devkit, `Looked` says that
a fresh run past its look at a skill sees no link there, so nothing it opens is
devkit's; a file it has open keeps being its own when its name moves (`OpenedOK`).

`PollLoop_proofs` holds for any two agents and any options and budgets, from
`PollLoopAssumption` (which includes that there is a longest sleep: a hint is a u32
and the daemon caps it) and `HeartbeatAssumption`, that a sleep and a run of failed
parks with their backoffs fit into GHOST_AFTER, as they do by far with the defaults:

| Theorem | States |
|---|---|
| `PollTypes` | `Spec => []TypeOK`: every count stays within its budget and one sleep |
| `LoopNeverGhost` | an agent whose loop runs is never older than GHOST_AFTER |
| `GiveUpEarned` | a loop gives up only after one unbroken silence as long as the hold it promises |

Both arguments bound time that has not passed yet. `Lagging` says that the age of
an agent, with what is left of its loop's sleep, is at most `Lag(e)` after `e`
errors in a row: the sleep, the park that failed, and a backoff for each error;
for the largest `e` that is GHOST_AFTER. `GiveUpIsEarned` is false of a loop whose
`stale_wait` could be left over from an earlier silence, and `Spell` is why it cannot:
while `stale_wait` is not zero the counterpart has either been silent for
GHOST_AFTER and all of `stale_wait` (less what is left of a sleep that was counted in
advance, `Rest`), or it is back, and so recently that the loop is sure to look
(`Ahead`: the park and the errors that may still come between) before it can look
silent again, and the look clears the count.

`Guidance_proofs` holds for any two agents, labelled or not, any caps, any signals and
any number of faults, from `GuidanceAssumption` (`SoftCap >= 2`, which `open_room`
enforces; the bounds on the log and the cap fit each other):

| Theorem | States |
|---|---|
| `GuidanceTypes` | `Spec => []TypeOK`: in particular one label is one participant |
| `UserConsulted` | two agents do not run past the soft cap without their user |
| `FloorHeld` | two agents that follow their instructions never wait for each other |

`Inv` adds to the types where each agent stands: one in the loop has a row, one that
is told to talk owes a turn, one outside owes none (`Placed`). `ConsultedInTime` speaks
of the time after the counterpart's next message; `Consulted` says the same from the
message that reaches the cap on, and is inductive because what is appended behind a
message does not change the run that ends at it (`RunStays`), so that the signal
computed at delivery is the one the property counts.
`FloorIsHeld` speaks of two agents that both wait. `Floor` says of every moment that
somebody has mail, or a vote stands, or somebody is about to act (`Busy`), and follows
the turn: a message and an announced extension are mail, a vote that decides nothing
stands, and an extension that was not announced leaves its agent where it was. A pause
takes a capped agent out of business without a trace, and `NoDebt` is what saves that
step: while nobody owes a turn there is mail or a vote to close. `NotBoth` (two votes
of two participants would have been a quorum) turns a vote into one that the other
agent has yet to answer. Looking for the step that keeps `NoDebt` showed that the
history `mute` forgot one thing: an agent that is told to "just resume cbc_wait" may
drop the turn it owes from its join, when no message has been dealt. It takes two
faults, so the run with one did not see it; the turn is in `mute` as 0 now.

Model-checked only: the liveness properties (`OverdueIsSwept`, `EventuallyClaimed`,
`HoldEnds`, `ReconcileConverges`), since liveness under fairness is out of the
prover's reach; and the three violated claims, which are counterexamples. Every
invariant and every action property of the passing runs is a theorem.

## 5. Not modelled

Row decoding and connection set-up; the RFC 3339 text order of `last_poll_at`
(storage.rs:829 compares text whose fraction has a variable length); the curve of
the retry hints, which only lengthen a sleep (`PollLoop` chooses among sleeps); the
text of ids and handles; nicknames (a join that loses the race for its row drops its
nickname, although http.rs:296 says a re-join updates it); for the session hooks,
the parsing of the state files, files without an identity, payloads without a
session id, and a clock that is set back (recently_polled treats a marker from the
future as stale, hook.rs:496, although its comment at hook.rs:475 says fresh); the
unbounded `--max-stale-wait 0`; more than one room, except where ids and handles
collide; of the installer, the staged newsyslog file and the text of the plist. The
CLI prints what the MCP server answers; `cbc_status` and `cbc_force` give their
caller no instruction that the other tools do not.

## 6. Plan

Done, in this order: 1 `Lifecycle`; 2 `RoomAudit`, `RoomLifecycle` and its proofs;
3 `Inbox`, `Delivery` and its proofs; 4 `Consensus` and its proofs; 5 `PollLoop`,
`PollReconcile` and the proofs of the latter; 6 `Roster`; 7 `Guidance`; 8 `Installer`;
9 `Roster_proofs`; 10 replies and the archive window in `RoomLifecycle_proofs`;
11 `Installer_proofs`; 12 `PollLoop_proofs`; 13 `Guidance_proofs`. Next:

14. A composition of room, delivery and poll loop: an agent whose loop runs is
    handed every message or the halt, over restarts of the daemon.
15. The state files of the hooks (hook.rs 87-345) and the backoff curve, as operators
    against reference definitions.
