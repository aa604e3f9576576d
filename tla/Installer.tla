----------------------------- MODULE Installer -----------------------------
(* The commands of cbc that edit files they do not own: allow-tools and    *)
(* install-hooks merge rules into ~/.claude/settings.json (settings.rs),   *)
(* install-skill writes SKILL.md files beside devkit's links (skill.rs),   *)
(* and install-daemon writes and loads a launchd agent and then offers     *)
(* both (install.rs).  No file is locked and std::fs::write first empties  *)
(* its file, so the user, devkit, another run and a kill come in between   *)
(* any two steps.  A file is what the commands tell apart in it.           *)
EXTENDS Naturals, FiniteSets

CONSTANTS
  Runs,        \* bound: the processes started; each runs one command
  NumSkills,   \* the bundled skills, installed in this order
  MaxEdits,    \* bound: how often the user saves settings.json
  MaxLinks,    \* bound: how often devkit links a skill
  MaxStops     \* bound: runs killed, or steps that fail

ASSUME InstallerAssumption ==
  /\ NumSkills \in Nat \ {0}
  /\ MaxEdits \in Nat /\ MaxLinks \in Nat /\ MaxStops \in Nat

VARIABLES
  settings, backup,           \* settings.json and settings.json.bak
  place, file, copy, devkit,  \* per skill: its directory, SKILL.md, the .bak, devkit's own file
  plist, job,                 \* the launchd agent's file, and whether launchd runs it
  run,                        \* per process: command, control state and locals
  version,                    \* the user's last save of settings.json
  excused,                    \* the user's text was at risk: see UserTextKept
  acked,                      \* the runs that reported their rules to be in place
  edits, links, stops         \* how much of each bound is used up

settingsVars == <<settings, backup, version, excused, acked>>
skillVars    == <<place, file, copy, devkit>>
daemonVars   == <<plist, job>>
bounds       == <<edits, links, stops>>
vars         == <<settingsVars, skillVars, daemonVars, run, bounds>>

Skills   == 1 .. NumSkills
Rules    == {"allow", "start", "stop"}
Commands == {"allow-tools", "install-hooks", "install-skill", "install-daemon"}

\* The rules a command asks for; install-hooks registers both hooks.
Wants(c) ==
  IF c = "install-hooks" THEN {"start", "stop"}
  ELSE IF c = "install-skill" THEN {} ELSE {"allow"}

\* The section of settings.json in which a rule lives.
Section(rule) == IF rule = "allow" THEN "permissions" ELSE "hooks"

\* A settings file: missing, empty, not JSON, or JSON with the user's own keys
\* (as of some save), the number of times it holds each rule, and the sections
\* that have the wrong JSON type.
Settings ==
  [text : {"absent", "empty", "broken", "json"}, user : 0 .. MaxEdits,
   rules : [Rules -> 0 .. 2], odd : SUBSET {"permissions", "hooks"}]

NoRules  == [k \in Rules |-> 0]
Bare(t)  == [text |-> t, user |-> 0, rules |-> NoRules, odd |-> {}]

\* apply_*_rule: a missing or blank file is read as an empty object.
Parsed(f) == IF f.text \in {"absent", "empty"} THEN Bare("json") ELSE f

\* ensure_allow_rule, ensure_command_hook: refuse rather than clobber.
Refused(f, want) ==
  \/ f.text = "broken"
  \/ \E k \in want : Section(k) \in f.odd

Missing(f, want) == {k \in want : f.rules[k] = 0}

\* Mutant: all rules are appended when one is missing, without a look at each.
MergedBlindly(f, want) ==
  LET g == Parsed(f)
  IN  [g EXCEPT !.rules = [k \in Rules |-> IF k \in want THEN g.rules[k] + 1 ELSE g.rules[k]]]

\* Mutant: the first hook that was missing short-circuits the other.
MergedInPart(f, want) ==
  LET g == Parsed(f)
  IN  [g EXCEPT !.rules = [k \in Rules |->
        IF k \in Missing(g, want) /\ ~(k = "stop" /\ "start" \in Missing(g, want))
        THEN 1 ELSE g.rules[k]]]

\* Each rule that is missing is added; the rest of the file is left as it is.
Merged(f, want) ==
  LET g == Parsed(f)
  IN  [g EXCEPT !.rules = [k \in Rules |-> IF k \in Missing(g, want) THEN 1 ELSE g.rules[k]]]

-----------------------------------------------------------------------------
(* A process.                                                              *)

Idle == [cmd |-> "none", force |-> FALSE, pc |-> "unborn", seen |-> Bare("absent"),
         at |-> 1, verdict |-> "none", opened |-> "none", fresh |-> TRUE]

Goto(r, l) == run' = [run EXCEPT ![r].pc = l]

InSettings(r) == run[r].pc \in {"read", "cut backup", "fill backup", "cut", "fill"}

\* The settings part is over: install-daemon goes on to the skills.
AfterRules(r) == IF run[r].cmd = "install-daemon" THEN "classify" ELSE "done"

\* One skill is over: install_all takes the next one.
NextSkill(r) ==
  run' = [run EXCEPT ![r].at = @ + 1, ![r].opened = "none", ![r].verdict = "none",
                     ![r].pc = IF run[r].at = NumSkills THEN "done" ELSE "classify"]

\* main.rs dispatches the command; only install-skill takes --force.
Start(r) ==
  /\ run[r].pc = "unborn"
  /\ \E c \in Commands, f \in BOOLEAN :
       /\ f => c = "install-skill"
       /\ run' = [run EXCEPT ![r].cmd = c, ![r].force = f,
                    ![r].pc = CASE c = "install-skill" -> "classify"
                                [] c = "install-daemon" -> "plist"
                                [] OTHER -> "read"]
  /\ UNCHANGED <<settingsVars, skillVars, daemonVars, bounds>>

-----------------------------------------------------------------------------
(* settings.rs                                                             *)

\* Read the file and merge in memory: refuse, find nothing to do, or go on to
\* back up what was read (there is nothing to back up in a missing file).
ReadSettings(r) ==
  /\ run[r].pc = "read"
  /\ LET want == Wants(run[r].cmd)
         ok   == ~Refused(Parsed(settings), want)
         todo == Missing(Parsed(settings), want) # {}
     IN  /\ run' = [run EXCEPT ![r].seen = settings, ![r].fresh = TRUE,
                      ![r].pc = IF ~ok \/ ~todo THEN AfterRules(r)
                                ELSE IF settings.text = "absent" THEN "cut" ELSE "cut backup"]
         /\ acked' = IF ok /\ ~todo THEN acked \cup {r} ELSE acked
         /\ excused' = (excused \/ (settings.text = "empty" /\ (version > 0 \/ acked # {})))
  /\ UNCHANGED <<settings, backup, version, skillVars, daemonVars, bounds>>

\* A write of either file: every other run that has read it is out of date.
Write(r, l) ==
  /\ excused' = (excused \/ ~run[r].fresh)
  /\ run' = [q \in Runs |-> IF q = r THEN [run[q] EXCEPT !.pc = l]
                            ELSE [run[q] EXCEPT !.fresh = @ /\ ~InSettings(q)]]

\* Mutant: the backup is not made when there is one already.
CutBackupOnce(r) ==
  /\ run[r].pc = "cut backup"
  /\ backup' = IF backup.text = "absent" THEN Bare("empty") ELSE backup
  /\ Write(r, IF backup.text = "absent" THEN "fill backup" ELSE "cut")
  /\ UNCHANGED <<settings, version, acked, skillVars, daemonVars, bounds>>

\* What was read is copied aside before the file is touched; an older copy goes.
CutBackup(r) ==
  /\ run[r].pc = "cut backup"
  /\ backup' = Bare("empty")
  /\ Write(r, "fill backup")
  /\ UNCHANGED <<settings, version, acked, skillVars, daemonVars, bounds>>

FillBackup(r) ==
  /\ run[r].pc = "fill backup"
  /\ backup' = run[r].seen
  /\ Write(r, "cut")
  /\ UNCHANGED <<settings, version, acked, skillVars, daemonVars, bounds>>

\* The rewrite starts by emptying whatever is in the file by now.
CutSettings(r) ==
  /\ run[r].pc = "cut"
  /\ settings' = Bare("empty")
  /\ Write(r, "fill")
  /\ UNCHANGED <<backup, version, acked, skillVars, daemonVars, bounds>>

FillSettings(r) ==
  /\ run[r].pc = "fill"
  /\ settings' = Merged(run[r].seen, Wants(run[r].cmd))
  /\ Write(r, AfterRules(r))
  /\ acked' = acked \cup {r}
  /\ UNCHANGED <<backup, version, skillVars, daemonVars, bounds>>

SettingsStep(r) ==
  \/ ReadSettings(r)
  \/ CutBackup(r)
  \/ FillBackup(r)
  \/ CutSettings(r)
  \/ FillSettings(r)

-----------------------------------------------------------------------------
(* skill.rs.  A directory or a SKILL.md may be devkit's symlink: what goes *)
(* through it lands in devkit's own file.                                  *)

Contents == {"absent", "empty", "bundled", "other"}

Through(s) == place[s] = "link" \/ (place[s] = "dir" /\ file[s] = "link")

\* What a read of SKILL.md returns, following the links.
Text(s) ==
  IF Through(s) THEN devkit[s] ELSE IF place[s] = "absent" THEN "absent" ELSE file[s]

PutSkill(through, s, text) ==
  IF through
  THEN devkit' = [devkit EXCEPT ![s] = text] /\ UNCHANGED file
  ELSE file' = [file EXCEPT ![s] = text] /\ UNCHANGED devkit

\* Mutant: only the directory is looked at for a link.
VerdictOfDir(s) ==
  IF place[s] = "absent" THEN "absent"
  ELSE IF place[s] = "link" THEN "dir link"
  ELSE IF Text(s) = "bundled" THEN "same" ELSE "stale"

\* classify looks without following a link.
Verdict(s) ==
  IF place[s] = "absent" THEN "absent"
  ELSE IF place[s] = "link" THEN "dir link"
  ELSE IF file[s] = "link" THEN "file link"
  ELSE IF file[s] = "bundled" THEN "same" ELSE "stale"

\* classify, and install_one's choice: write, skip, back up first, or (--force)
\* remove the link first.
Classify(r) ==
  /\ run[r].pc = "classify"
  /\ LET s == run[r].at
         v == Verdict(s)
     IN  IF v = "same" \/ (v \in {"dir link", "file link"} /\ ~run[r].force)
         THEN NextSkill(r)
         ELSE run' = [run EXCEPT ![r].verdict = v, ![r].fresh = TRUE,
                        ![r].pc = CASE v = "absent" -> "mkdir"
                                    [] v = "stale" -> "copy"
                                    [] OTHER -> "unlink"]
  /\ UNCHANGED <<settingsVars, skillVars, daemonVars, bounds>>

\* A stale SKILL.md is copied aside, if it is there at all.  (A copy through a
\* directory link lands in devkit's tree, where nothing is lost by it.)
CopySkill(r) ==
  /\ run[r].pc = "copy"
  /\ LET s == run[r].at
     IN  copy' = IF Text(s) = "absent" \/ place[s] = "link" THEN copy
                 ELSE [copy EXCEPT ![s] = Text(s)]
  /\ Goto(r, "mkdir")
  /\ UNCHANGED <<settingsVars, place, file, devkit, daemonVars, bounds>>

\* A run that has the skill's own SKILL.md open keeps it under no name.
Orphaned(q, s) ==
  [run[q] EXCEPT !.opened = IF run[q].at = s /\ @ = "own" THEN "gone" ELSE @]

\* remove_file of the path that was a link: it takes what is there by now, and
\* fails on a directory and on nothing.
Unlink(r) ==
  /\ run[r].pc = "unlink"
  /\ LET s     == run[r].at
         dir   == run[r].verdict = "dir link"
         there == IF dir THEN place[s] = "link"
                  ELSE IF place[s] = "link" THEN devkit[s] # "absent"
                  ELSE place[s] = "dir" /\ file[s] # "absent"
     IN  /\ place' = IF dir /\ there THEN [place EXCEPT ![s] = "absent"] ELSE place
         /\ file' = IF ~dir /\ there /\ place[s] = "dir" THEN [file EXCEPT ![s] = "absent"] ELSE file
         /\ devkit' = IF ~dir /\ there /\ place[s] = "link" THEN [devkit EXCEPT ![s] = "absent"] ELSE devkit
         /\ run' = [q \in Runs |->
              IF q = r THEN [run[q] EXCEPT !.pc = IF there THEN "mkdir" ELSE "failed"]
              ELSE IF file' # file THEN Orphaned(q, s) ELSE run[q]]
  /\ UNCHANGED <<settingsVars, copy, daemonVars, bounds>>

\* write_skill: create_dir_all is content with a link to a directory.
MakeDir(r) ==
  /\ run[r].pc = "mkdir"
  /\ place' = [place EXCEPT ![run[r].at] = IF @ = "absent" THEN "dir" ELSE @]
  /\ Goto(r, "cut skill")
  /\ UNCHANGED <<settingsVars, file, copy, devkit, daemonVars, bounds>>

\* fs::write opens the file, by its name, and empties it ...
CutSkill(r) ==
  /\ run[r].pc = "cut skill"
  /\ LET s == run[r].at
     IN  IF place[s] = "absent"
         THEN Goto(r, "failed") /\ UNCHANGED <<file, devkit>>
         ELSE /\ PutSkill(Through(s), s, "empty")
              /\ run' = [run EXCEPT ![r].opened = IF Through(s) THEN "devkit" ELSE "own",
                                    ![r].pc = "fill skill"]
  /\ UNCHANGED <<settingsVars, place, copy, daemonVars, bounds>>

\* ... and fills the file it has opened, wherever the name leads by now.
FillSkill(r) ==
  /\ run[r].pc = "fill skill"
  /\ IF run[r].opened = "gone" THEN UNCHANGED <<file, devkit>>
     ELSE PutSkill(run[r].opened = "devkit", run[r].at, "bundled")
  /\ NextSkill(r)
  /\ UNCHANGED <<settingsVars, place, copy, daemonVars, bounds>>

SkillStep(r) ==
  \/ Classify(r)
  \/ CopySkill(r)
  \/ Unlink(r)
  \/ MakeDir(r)
  \/ CutSkill(r)
  \/ FillSkill(r)

-----------------------------------------------------------------------------
(* install.rs                                                              *)

WritePlist(r) ==
  /\ \/ run[r].pc = "plist" /\ plist' = "empty" /\ Goto(r, "fill plist")
     \/ run[r].pc = "fill plist" /\ plist' = "agent" /\ Goto(r, "unload")
  /\ UNCHANGED <<settingsVars, skillVars, job, bounds>>

\* load_launchagent: the old job is unloaded first, whatever comes of the load.
UnloadAgent(r) ==
  /\ run[r].pc = "unload"
  /\ job' = FALSE
  /\ Goto(r, "load")
  /\ UNCHANGED <<settingsVars, skillVars, plist, bounds>>

LoadAgent(r) ==
  /\ run[r].pc = "load"
  /\ job' = (job \/ plist = "agent")
  /\ Goto(r, "list")
  /\ UNCHANGED <<settingsVars, skillVars, plist, bounds>>

\* launchctl list tells whether the job registered; then the offer to edit
\* settings.json, which is declined unless a terminal answers yes.
ListAgent(r) ==
  /\ run[r].pc = "list"
  /\ IF job THEN Goto(r, "read") \/ Goto(r, "classify") ELSE Goto(r, "failed")
  /\ UNCHANGED <<settingsVars, skillVars, daemonVars, bounds>>

DaemonStep(r) ==
  \/ WritePlist(r)
  \/ UnloadAgent(r)
  \/ LoadAgent(r)
  \/ ListAgent(r)

-----------------------------------------------------------------------------
(* What else happens to the files.                                         *)

Working(r) == run[r].pc \notin {"unborn", "done", "failed"}

\* A run is killed, or a step fails: the command ends with what it has done so
\* far.  install-daemon survives a failure of its settings part.
Stop(r) ==
  /\ Working(r)
  /\ stops < MaxStops
  /\ stops' = stops + 1
  /\ \/ Goto(r, "failed")
     \/ InSettings(r) /\ run[r].cmd = "install-daemon" /\ Goto(r, "classify")
  /\ UNCHANGED <<settingsVars, skillVars, daemonVars, edits, links>>

\* The user (or the host) saves settings.json, with all of cbc's rules or without
\* some of them, well formed or not, or removes it.
Save ==
  /\ edits < MaxEdits
  /\ edits' = edits + 1
  /\ \E t \in {"absent", "broken", "json"},
        k \in {[x \in Rules |-> IF x \in K THEN settings.rules[x] ELSE 0] : K \in SUBSET Rules},
        odd \in {{}, {"permissions"}, {"hooks"}} :
       /\ t # "json" => k = NoRules /\ odd = {}
       /\ \A x \in Rules : k[x] > 0 => Section(x) \notin odd
       /\ settings' = [text |-> t, user |-> IF t = "absent" THEN 0 ELSE edits',
                       rules |-> k, odd |-> odd]
       /\ version' = settings'.user
       /\ acked' = {q \in acked : Missing(settings', Wants(run[q].cmd)) = {}}
  /\ run' = [q \in Runs |-> [run[q] EXCEPT !.fresh = @ /\ ~InSettings(q)]]
  /\ UNCHANGED <<backup, excused, skillVars, daemonVars, links, stops>>

\* devkit links a skill: the whole directory, or the SKILL.md in it.
DevkitLinks(s) ==
  /\ links < MaxLinks
  /\ links' = links + 1
  /\ \/ /\ place' = [place EXCEPT ![s] = "link"]
        /\ file' = [file EXCEPT ![s] = "absent"]
        /\ copy' = [copy EXCEPT ![s] = "absent"]
     \/ /\ place[s] = "dir"
        /\ file' = [file EXCEPT ![s] = "link"]
        /\ UNCHANGED <<place, copy>>
  /\ run' = [q \in Runs |-> [Orphaned(q, s) EXCEPT !.fresh = @ /\ (run[q].at # s \/ InSettings(q))]]
  /\ UNCHANGED <<settingsVars, devkit, daemonVars, edits, stops>>

\* A machine on which cbc may have been installed before.
Init ==
  /\ settings = Bare("absent") /\ backup = Bare("absent")
  /\ place \in [Skills -> {"absent", "link", "dir"}]
  /\ file \in [Skills -> {"absent", "link", "other"}]
  /\ \A s \in Skills : place[s] # "dir" => file[s] = "absent"
  /\ copy = [s \in Skills |-> "absent"]
  /\ devkit = [s \in Skills |-> "other"]
  /\ \/ plist = "absent" /\ job = FALSE
     \/ plist = "agent" /\ job = TRUE
  /\ run = [r \in Runs |-> Idle]
  /\ version = 0 /\ excused = FALSE /\ acked = {}
  /\ edits = 0 /\ links = 0 /\ stops = 0

Next ==
  \/ \E r \in Runs : Start(r) \/ SettingsStep(r) \/ SkillStep(r) \/ DaemonStep(r) \/ Stop(r)
  \/ Save
  \/ \E s \in Skills : DevkitLinks(s)

Spec == Init /\ [][Next]_vars

-----------------------------------------------------------------------------
(* Properties.                                                             *)

\* settings.json never holds a rule of cbc twice, whichever commands overlap;
\* the files and the processes have their types.
TypeOK ==
  /\ settings \in Settings /\ backup \in Settings
  /\ \A k \in Rules : settings.rules[k] <= 1 /\ backup.rules[k] <= 1
  /\ place \in [Skills -> {"absent", "link", "dir"}]
  /\ file \in [Skills -> Contents \cup {"link"}]
  /\ copy \in [Skills -> Contents] /\ devkit \in [Skills -> Contents]
  /\ plist \in {"absent", "empty", "agent"} /\ job \in BOOLEAN
  /\ run \in [Runs -> [cmd : Commands \cup {"none"}, force : BOOLEAN, seen : Settings,
                       at : 1 .. NumSkills + 1, fresh : BOOLEAN,
                       verdict : {"none", "absent", "stale", "dir link", "file link"},
                       opened : {"none", "own", "devkit", "gone"},
                       pc : {"unborn", "read", "cut backup", "fill backup", "cut", "fill",
                             "classify", "copy", "unlink", "mkdir", "cut skill", "fill skill",
                             "plist", "fill plist", "unload", "load", "list",
                             "done", "failed"}]]
  /\ version \in 0 .. MaxEdits /\ excused \in BOOLEAN /\ acked \subseteq Runs

Holds(f, r) == \A k \in Wants(run[r].cmd) : f.rules[k] = 1

\* What the user last saved is in settings.json or in the .bak beside it, at
\* whatever step a run is killed ("a hand-maintained settings file must never be
\* silently overwritten", settings.rs).  Excused are the two things the code does
\* not guard against: a write to either file by a run that read before somebody
\* else's write, and a run that takes the emptied file of another for a fresh start.
UserTextKept ==
  ~excused /\ version > 0 => version \in {settings.user, backup.user}

\* A run that reported its rules to be in place is right until the user takes
\* them out: they are all in settings.json, or, when a later rewrite has been
\* cut short, in the backup (apply_hook_rule merges both hooks or neither).
AckedRulesHold ==
  ~excused => \A r \in acked :
    Holds(settings, r) \/ (settings.text = "empty" /\ Holds(backup, r))

\* devkit's own file is written by no run, forced or not, unless devkit made the
\* link after that run looked ("never writes through a devkit symlink", skill.rs).
DevkitUntouched ==
  [][\A s \in Skills : devkit'[s] # devkit[s] =>
       \E r \in Runs : run[r].at = s /\ Working(r) /\ ~run[r].fresh]_vars

=============================================================================
