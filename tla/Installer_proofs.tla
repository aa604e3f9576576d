-------------------------- MODULE Installer_proofs --------------------------
(* Proofs about Installer, for any number of runs, skills, saves, links and *)
(* stops: the types, with no rule of cbc twice in settings.json; that the   *)
(* user's last save survives there or in the .bak; that a run which         *)
(* reported its rules to be in place is right; and that devkit's files are  *)
(* written by no run that looked after devkit's last link.                  *)
(*                                                                          *)
(* The argument about settings.json: a run that is still "fresh" when it    *)
(* writes has in hand what the file held, since every write of another run  *)
(* and every save takes the freshness away.  So a fresh run that is about   *)
(* to empty the file has a copy of it in the .bak, or the file was missing. *)
EXTENDS Installer, TLAPS

-----------------------------------------------------------------------------
(* Settings files.                                                          *)

\* A settings file that has its type and no rule twice, and nothing in it when
\* it is missing or empty.
Whole(f) ==
  /\ f \in Settings
  /\ \A k \in Rules : f.rules[k] <= 1
  /\ f.text \in {"absent", "empty"} => f.user = 0 /\ f.rules = NoRules

\* A missing or an empty file is whole.
LEMMA BareWhole ==
  ASSUME NEW t \in {"absent", "empty"}
  PROVE  Whole(Bare(t)) /\ Bare(t).text = t /\ Bare(t).user = 0
<1>1. NoRules \in [Rules -> 0 .. 2] /\ \A k \in Rules : NoRules[k] <= 1
  BY DEF NoRules
<1>2. 0 \in 0 .. MaxEdits
  BY InstallerAssumption
<1> QED
  BY <1>1, <1>2 DEF Whole, Bare, Settings

\* What a file holds is what is parsed from it.
LEMMA ParsedFacts ==
  ASSUME NEW f, Whole(f)
  PROVE  /\ Parsed(f) \in Settings
         /\ Parsed(f).text \notin {"absent", "empty"}
         /\ Parsed(f).user = f.user
         /\ Parsed(f).rules = f.rules
<1>1. NoRules \in [Rules -> 0 .. 2] /\ 0 \in 0 .. MaxEdits
  BY InstallerAssumption DEF NoRules
<1>2. CASE f.text \in {"absent", "empty"}
  <2>1. Parsed(f) = Bare("json")
    BY <1>2 DEF Parsed
  <2> QED
    BY <1>1, <1>2, <2>1 DEF Whole, Bare, Settings
<1>3. CASE f.text \notin {"absent", "empty"}
  BY <1>3 DEF Parsed, Whole
<1> QED
  BY <1>2, <1>3

\* A merge adds what is asked for, once, and takes nothing away.
LEMMA MergedFacts ==
  ASSUME NEW f, Whole(f), NEW want \in SUBSET Rules
  PROVE  /\ Whole(Merged(f, want))
         /\ Merged(f, want).user = f.user
         /\ \A k \in want : Merged(f, want).rules[k] = 1
         /\ \A k \in Rules : f.rules[k] = 1 => Merged(f, want).rules[k] = 1
<1> DEFINE g == Parsed(f)
           R == [k \in Rules |-> IF k \in Missing(g, want) THEN 1 ELSE g.rules[k]]
<1>1. g \in Settings /\ g.text \notin {"absent", "empty"} /\ g.user = f.user
      /\ g.rules = f.rules
  BY ParsedFacts
<1>2. f.rules \in [Rules -> 0 .. 2] /\ \A k \in Rules : f.rules[k] <= 1
  BY DEF Whole, Settings
<1>3. \A k \in Rules : R[k] = IF k \in want /\ f.rules[k] = 0 THEN 1 ELSE f.rules[k]
  BY <1>1, <1>2 DEF Missing
<1>4. R \in [Rules -> 0 .. 2] /\ \A k \in Rules : R[k] <= 1
  BY <1>2, <1>3
<1>5. /\ \A k \in want : R[k] = 1
      /\ \A k \in Rules : f.rules[k] = 1 => R[k] = 1
  BY <1>2, <1>3
<1>6. Merged(f, want) = [g EXCEPT !.rules = R]
  BY DEF Merged
<1>7. /\ Merged(f, want) \in Settings
      /\ Merged(f, want).text = g.text
      /\ Merged(f, want).user = g.user
      /\ Merged(f, want).rules = R
  <2> HIDE DEF g, R
  <2> QED BY <1>1, <1>4, <1>6 DEF Settings
<1> HIDE DEF g, R
<1> QED
  BY <1>1, <1>4, <1>5, <1>7 DEF Whole

\* A command asks for rules only.
LEMMA WantsRules ==
  ASSUME NEW c
  PROVE  Wants(c) \in SUBSET Rules
BY DEF Wants, Rules

\* What is not missing is there once.
LEMMA NothingMissing ==
  ASSUME NEW f, Whole(f), NEW want \in SUBSET Rules, Missing(Parsed(f), want) = {}
  PROVE  \A k \in want : f.rules[k] = 1
<1>1. Parsed(f).rules = f.rules
  BY ParsedFacts
<1>2. \A k \in want : f.rules[k] # 0
  BY <1>1 DEF Missing
<1> QED
  BY <1>2 DEF Whole, Settings

-----------------------------------------------------------------------------
(* The invariant of the types.                                              *)

Pcs == {"unborn", "read", "cut backup", "fill backup", "cut", "fill",
        "classify", "copy", "unlink", "mkdir", "cut skill", "fill skill",
        "plist", "fill plist", "unload", "load", "list", "done", "failed"}

Verdicts == {"none", "absent", "stale", "dir link", "file link"}

Process ==
  [cmd : Commands \cup {"none"}, force : BOOLEAN, seen : Settings,
   at : 1 .. NumSkills + 1, fresh : BOOLEAN, verdict : Verdicts,
   opened : {"none", "own", "devkit", "gone"}, pc : Pcs]

FilesOK == Whole(settings) /\ Whole(backup)

\* What a process has read is whole, and it is at a skill until it is done.
ProcessOK(x) ==
  /\ x \in Process
  /\ Whole(x.seen)
  /\ x.pc # "done" => x.at \in Skills

RunsOK ==
  /\ run \in [Runs -> Process]
  /\ \A r \in Runs : ProcessOK(run[r])

\* There is no SKILL.md but in a directory.
TreeOK ==
  /\ place \in [Skills -> {"absent", "link", "dir"}]
  /\ file \in [Skills -> Contents \cup {"link"}]
  /\ copy \in [Skills -> Contents] /\ devkit \in [Skills -> Contents]
  /\ \A s \in Skills : place[s] # "dir" => file[s] = "absent"

\* A run that fills a SKILL.md has opened one; while it has the skill's own one
\* open, that is there under its name.
Named(s) == place[s] = "dir" /\ file[s] \notin {"absent", "link"}

OpenedFor(r) ==
  /\ run[r].pc = "fill skill" => run[r].opened # "none"
  /\ run[r].opened = "own" =>
       /\ run[r].pc \in {"fill skill", "failed"}
       /\ run[r].at \in Skills
       /\ Named(run[r].at)

OpenedOK == \A r \in Runs : OpenedFor(r)

RestOK ==
  /\ plist \in {"absent", "empty", "agent"} /\ job \in BOOLEAN
  /\ version \in 0 .. MaxEdits /\ excused \in BOOLEAN /\ acked \subseteq Runs
  /\ edits \in 0 .. MaxEdits

Inv == FilesOK /\ RunsOK /\ TreeOK /\ OpenedOK /\ RestOK

\* The parts together are the type invariant.
LEMMA InvTypes == Inv => TypeOK
<1> SUFFICES ASSUME Inv PROVE TypeOK
  OBVIOUS
<1>1. run \in [Runs -> Process]
  BY DEF Inv, RunsOK
<1>2. settings \in Settings /\ backup \in Settings
      /\ \A k \in Rules : settings.rules[k] <= 1 /\ backup.rules[k] <= 1
  BY DEF Inv, FilesOK, Whole
<1> QED
  BY <1>1, <1>2 DEF Inv, TreeOK, RestOK, TypeOK, Process, Pcs, Verdicts

LEMMA IdleOK == ProcessOK(Idle)
<1>1. Whole(Bare("absent"))
  BY BareWhole
<1>2. 1 \in Skills /\ 1 \in 1 .. NumSkills + 1
  BY InstallerAssumption DEF Skills
<1> DEFINE b == Bare("absent")
<1>3. b \in Settings
  BY <1>1 DEF Whole
<1> HIDE DEF b
<1>4. Idle = [cmd |-> "none", force |-> FALSE, pc |-> "unborn", seen |-> b,
              at |-> 1, verdict |-> "none", opened |-> "none", fresh |-> TRUE]
  BY DEF Idle, b
<1>5. Idle \in Process
  BY <1>2, <1>3, <1>4 DEF Process, Pcs, Verdicts
<1> QED
  BY <1>1, <1>2, <1>4, <1>5 DEF ProcessOK, b

LEMMA InitInv == Init => Inv
<1> SUFFICES ASSUME Init PROVE Inv
  OBVIOUS
<1>1. FilesOK
  BY BareWhole DEF Init, FilesOK
<1>2. \A r \in Runs : run[r] = Idle
  BY DEF Init
<1>3. RunsOK
  BY <1>2, IdleOK DEF RunsOK, Init, ProcessOK
<1>4. TreeOK
  BY DEF Init, TreeOK, Contents
<1>5. OpenedOK
  <2>1. Idle.opened = "none" /\ Idle.pc = "unborn"
    BY DEF Idle
  <2> QED
    BY <1>2, <2>1 DEF OpenedOK, OpenedFor
<1>6. RestOK
  <2>1. version \in 0 .. MaxEdits /\ edits \in 0 .. MaxEdits
    BY InstallerAssumption DEF Init
  <2>2. plist \in {"absent", "empty", "agent"} /\ job \in BOOLEAN
        /\ excused \in BOOLEAN /\ acked \subseteq Runs
    BY DEF Init
  <2> QED
    BY <2>1, <2>2 DEF RestOK
<1> QED
  BY <1>1, <1>3, <1>4, <1>5, <1>6 DEF Inv

-----------------------------------------------------------------------------
(* What a step does to the processes.                                       *)

\* A process that goes on to l.
LEMMA PcOf ==
  ASSUME NEW x, ProcessOK(x), x.pc # "done", NEW l \in Pcs
  PROVE  /\ ProcessOK([x EXCEPT !.pc = l])
         /\ [x EXCEPT !.pc = l].pc = l
BY DEF ProcessOK, Process

\* What the steps of one process may do to another: it is out of date, or its
\* SKILL.md has lost its name.
Onlooker(q) ==
  /\ run'[q].cmd = run[q].cmd /\ run'[q].pc = run[q].pc /\ run'[q].at = run[q].at
  /\ run'[q].seen = run[q].seen /\ run'[q].verdict = run[q].verdict
  /\ run'[q].fresh => run[q].fresh
  /\ run'[q].opened = run[q].opened \/ (run[q].opened = "own" /\ run'[q].opened = "gone")

\* r goes on to l, with everything else it holds as before.
GoesTo(r, l) ==
  /\ run'[r].pc = l
  /\ run'[r].cmd = run[r].cmd /\ run'[r].at = run[r].at /\ run'[r].seen = run[r].seen
  /\ run'[r].verdict = run[r].verdict /\ run'[r].opened = run[r].opened
  /\ run'[r].fresh = run[r].fresh
  /\ \A q \in Runs : q # r => Onlooker(q)

LEMMA GotoMoves ==
  ASSUME RunsOK, NEW r \in Runs, NEW l \in Pcs, run[r].pc # "done", Goto(r, l)
  PROVE  RunsOK' /\ GoesTo(r, l) /\ \A q \in Runs : q # r => run'[q] = run[q]
<1> DEFINE x == [run[r] EXCEPT !.pc = l]
<1>1. run' = [run EXCEPT ![r] = x]
  BY DEF Goto
<1>2. ProcessOK(run[r])
  BY DEF RunsOK
<1>3. /\ ProcessOK(x) /\ x.pc = l
      /\ x.cmd = run[r].cmd /\ x.at = run[r].at /\ x.seen = run[r].seen
      /\ x.verdict = run[r].verdict /\ x.opened = run[r].opened /\ x.fresh = run[r].fresh
  BY <1>2, PcOf DEF ProcessOK, Process
<1>4. x \in Process
  BY <1>3 DEF ProcessOK
<1> HIDE DEF x
<1>5. run' \in [Runs -> Process] /\ run'[r] = x /\ \A q \in Runs : q # r => run'[q] = run[q]
  BY <1>1, <1>4 DEF RunsOK
<1>6. RunsOK'
  BY <1>3, <1>5 DEF RunsOK
<1> QED
  BY <1>3, <1>5, <1>6 DEF GoesTo, Onlooker

\* The next skill, or the end.
SkillOver(r) ==
  /\ run'[r].pc \in {"done", "classify"} /\ run'[r].opened = "none"
  /\ run'[r].cmd = run[r].cmd
  /\ \A q \in Runs : q # r => Onlooker(q)

LEMMA NextSkillMoves ==
  ASSUME RunsOK, NEW r \in Runs, run[r].pc # "done", NextSkill(r)
  PROVE  RunsOK' /\ SkillOver(r)
<1> DEFINE l == IF run[r].at = NumSkills THEN "done" ELSE "classify"
           x == [run[r] EXCEPT !.at = run[r].at + 1, !.opened = "none",
                               !.verdict = "none", !.pc = l]
<1>1. run' = [run EXCEPT ![r] = x]
  BY DEF NextSkill, RunsOK
<1>2. ProcessOK(run[r])
  BY DEF RunsOK
<1>3. run[r].at \in 1 .. NumSkills
  BY <1>2 DEF ProcessOK, Skills
<1>4. run[r].at + 1 \in 1 .. NumSkills + 1
      /\ (run[r].at # NumSkills => run[r].at + 1 \in Skills)
  BY <1>3, InstallerAssumption DEF Skills
<1>5. l \in {"done", "classify"} /\ (l # "done" => run[r].at # NumSkills)
  OBVIOUS
<1> HIDE DEF l
<1>6. /\ x \in Process /\ x.pc = l /\ x.opened = "none" /\ x.cmd = run[r].cmd
      /\ x.seen = run[r].seen /\ x.at = run[r].at + 1
  BY <1>2, <1>4, <1>5 DEF ProcessOK, Process, Pcs, Verdicts
<1> HIDE DEF x
<1>7. ProcessOK(x)
  BY <1>2, <1>4, <1>5, <1>6 DEF ProcessOK
<1>8. run' \in [Runs -> Process] /\ run'[r] = x /\ \A q \in Runs : q # r => run'[q] = run[q]
  BY <1>1, <1>6 DEF RunsOK
<1>9. RunsOK'
  BY <1>7, <1>8 DEF RunsOK
<1> QED
  BY <1>5, <1>6, <1>8, <1>9 DEF SkillOver, Onlooker

LEMMA StartMoves ==
  ASSUME RunsOK, NEW r \in Runs, Start(r)
  PROVE  /\ RunsOK'
         /\ run'[r].pc \in {"classify", "plist", "read"} /\ run'[r].opened = run[r].opened
         /\ \A q \in Runs : q # r => Onlooker(q)
<1>1. PICK c \in Commands, f \in BOOLEAN :
        run' = [run EXCEPT ![r].cmd = c, ![r].force = f,
                    ![r].pc = CASE c = "install-skill" -> "classify"
                                [] c = "install-daemon" -> "plist"
                                [] OTHER -> "read"]
  BY DEF Start
<1> DEFINE l == CASE c = "install-skill" -> "classify"
                  [] c = "install-daemon" -> "plist"
                  [] OTHER -> "read"
           x == [run[r] EXCEPT !.cmd = c, !.force = f, !.pc = l]
<1>2. run' = [run EXCEPT ![r] = x]
  BY <1>1 DEF RunsOK
<1>3. l \in {"classify", "plist", "read"}
  OBVIOUS
<1> HIDE DEF l
<1>4. ProcessOK(run[r]) /\ run[r].pc # "done"
  BY DEF RunsOK, Start
<1>5. /\ x \in Process /\ x.pc = l /\ x.opened = run[r].opened
      /\ x.seen = run[r].seen /\ x.at = run[r].at
  BY <1>3, <1>4 DEF ProcessOK, Process, Pcs
<1> HIDE DEF x
<1>6. ProcessOK(x)
  BY <1>4, <1>5 DEF ProcessOK
<1>7. run' \in [Runs -> Process] /\ run'[r] = x /\ \A q \in Runs : q # r => run'[q] = run[q]
  BY <1>2, <1>5 DEF RunsOK
<1>8. RunsOK'
  BY <1>6, <1>7 DEF RunsOK
<1> QED
  BY <1>3, <1>5, <1>7, <1>8 DEF Onlooker

\* A process that loses its freshness, or the name of what it has open.
LEMMA StaleOf ==
  ASSUME NEW x, ProcessOK(x), NEW b \in BOOLEAN, NEW o \in {"none", "own", "devkit", "gone"}
  PROVE  /\ ProcessOK([x EXCEPT !.opened = o, !.fresh = b])
         /\ ProcessOK([x EXCEPT !.fresh = b])
         /\ ProcessOK([x EXCEPT !.opened = o])
<1>1. /\ [x EXCEPT !.opened = o, !.fresh = b] \in Process
      /\ [x EXCEPT !.fresh = b] \in Process
      /\ [x EXCEPT !.opened = o] \in Process
  BY DEF ProcessOK, Process
<1>2. /\ [x EXCEPT !.opened = o, !.fresh = b].seen = x.seen
      /\ [x EXCEPT !.opened = o, !.fresh = b].at = x.at
      /\ [x EXCEPT !.opened = o, !.fresh = b].pc = x.pc
      /\ [x EXCEPT !.fresh = b].seen = x.seen
      /\ [x EXCEPT !.fresh = b].at = x.at
      /\ [x EXCEPT !.fresh = b].pc = x.pc
      /\ [x EXCEPT !.opened = o].seen = x.seen
      /\ [x EXCEPT !.opened = o].at = x.at
      /\ [x EXCEPT !.opened = o].pc = x.pc
  BY DEF ProcessOK, Process
<1> QED
  BY <1>1, <1>2 DEF ProcessOK

\* A write or a save leaves no other editor fresh.
NoEditorFresh(q) ==
  /\ Onlooker(q)
  /\ run'[q].fresh => ~InSettings(q)

LEMMA WriteMoves ==
  ASSUME RunsOK, NEW r \in Runs, NEW l \in Pcs, run[r].pc # "done", Write(r, l)
  PROVE  RunsOK' /\ GoesTo(r, l) /\ \A q \in Runs : q # r => NoEditorFresh(q)
<1>1. run' = [q \in Runs |-> IF q = r THEN [run[q] EXCEPT !.pc = l]
                            ELSE [run[q] EXCEPT !.fresh = run[q].fresh /\ ~InSettings(q)]]
  BY DEF Write
<1>2. \A q \in Runs : ProcessOK(run[q]) /\ run[q] \in Process
  BY DEF RunsOK, ProcessOK
<1>3. run'[r] = [run[r] EXCEPT !.pc = l]
  BY <1>1
<1>4. /\ ProcessOK(run'[r]) /\ run'[r].pc = l
      /\ run'[r].cmd = run[r].cmd /\ run'[r].at = run[r].at /\ run'[r].seen = run[r].seen
      /\ run'[r].verdict = run[r].verdict /\ run'[r].opened = run[r].opened
      /\ run'[r].fresh = run[r].fresh
  <2> DEFINE x == [run[r] EXCEPT !.pc = l]
  <2>1. /\ ProcessOK(x) /\ x.pc = l
        /\ x.cmd = run[r].cmd /\ x.at = run[r].at /\ x.seen = run[r].seen
        /\ x.verdict = run[r].verdict /\ x.opened = run[r].opened /\ x.fresh = run[r].fresh
    BY <1>2, PcOf DEF Process
  <2> HIDE DEF x
  <2>2. run'[r] = x
    BY <1>3 DEF x
  <2> QED
    BY <2>1, <2>2 DEF ProcessOK
<1>5. ASSUME NEW q \in Runs, q # r PROVE ProcessOK(run'[q]) /\ NoEditorFresh(q)
  <2> DEFINE b == run[q].fresh /\ ~InSettings(q)
             x == [run[q] EXCEPT !.fresh = b]
  <2>1. run'[q] = x
    BY <1>1, <1>5
  <2>2. b \in BOOLEAN /\ (b => run[q].fresh /\ ~InSettings(q))
    OBVIOUS
  <2> HIDE DEF b
  <2>3. ProcessOK(x) /\ x.fresh = b /\ x.cmd = run[q].cmd /\ x.pc = run[q].pc
        /\ x.at = run[q].at /\ x.seen = run[q].seen /\ x.verdict = run[q].verdict
        /\ x.opened = run[q].opened
    BY <1>2, <2>2, StaleOf DEF Process
  <2> HIDE DEF x
  <2>4. ProcessOK(run'[q])
    BY <2>1, <2>3 DEF ProcessOK
  <2>5. Onlooker(q)
    BY <2>1, <2>2, <2>3 DEF Onlooker
  <2>6. run'[q].fresh => ~InSettings(q)
    BY <2>1, <2>2, <2>3
  <2> QED
    BY <2>4, <2>5, <2>6 DEF NoEditorFresh
<1>6. \A q \in Runs : ProcessOK(run'[q]) /\ run'[q] \in Process
  BY <1>4, <1>5 DEF ProcessOK
<1>7. run' \in [Runs -> Process]
  BY <1>1, <1>6
<1>8. RunsOK'
  BY <1>6, <1>7 DEF RunsOK
<1> QED
  BY <1>4, <1>5, <1>8 DEF GoesTo, NoEditorFresh

LEMMA SaveMoves ==
  ASSUME RunsOK, Save
  PROVE  RunsOK' /\ \A q \in Runs : NoEditorFresh(q)
<1>1. run' = [q \in Runs |-> [run[q] EXCEPT !.fresh = run[q].fresh /\ ~InSettings(q)]]
  BY DEF Save
<1>2. \A q \in Runs : ProcessOK(run[q]) /\ run[q] \in Process
  BY DEF RunsOK, ProcessOK
<1>3. ASSUME NEW q \in Runs PROVE ProcessOK(run'[q]) /\ NoEditorFresh(q)
  <2> DEFINE b == run[q].fresh /\ ~InSettings(q)
             x == [run[q] EXCEPT !.fresh = b]
  <2>1. run'[q] = x
    BY <1>1
  <2>2. b \in BOOLEAN /\ (b => run[q].fresh /\ ~InSettings(q))
    OBVIOUS
  <2> HIDE DEF b
  <2>3. ProcessOK(x) /\ x.fresh = b /\ x.cmd = run[q].cmd /\ x.pc = run[q].pc
        /\ x.at = run[q].at /\ x.seen = run[q].seen /\ x.verdict = run[q].verdict
        /\ x.opened = run[q].opened
    BY <1>2, <2>2, StaleOf DEF Process
  <2> HIDE DEF x
  <2>4. ProcessOK(run'[q])
    BY <2>1, <2>3 DEF ProcessOK
  <2>5. Onlooker(q)
    BY <2>1, <2>2, <2>3 DEF Onlooker
  <2>6. run'[q].fresh => ~InSettings(q)
    BY <2>1, <2>2, <2>3
  <2> QED
    BY <2>4, <2>5, <2>6 DEF NoEditorFresh
<1>4. \A q \in Runs : ProcessOK(run'[q]) /\ run'[q] \in Process
  BY <1>3 DEF ProcessOK
<1>5. run' \in [Runs -> Process]
  BY <1>1, <1>4
<1> QED
  BY <1>3, <1>4, <1>5 DEF RunsOK

\* What Orphaned says of a process.
LEMMA OrphanedFacts ==
  ASSUME RunsOK, NEW q \in Runs, NEW s \in Skills
  PROVE  /\ ProcessOK(Orphaned(q, s))
         /\ Orphaned(q, s).cmd = run[q].cmd /\ Orphaned(q, s).pc = run[q].pc
         /\ Orphaned(q, s).at = run[q].at /\ Orphaned(q, s).seen = run[q].seen
         /\ Orphaned(q, s).verdict = run[q].verdict /\ Orphaned(q, s).fresh = run[q].fresh
         /\ \/ Orphaned(q, s).opened = run[q].opened
            \/ run[q].opened = "own" /\ Orphaned(q, s).opened = "gone"
         /\ run[q].at = s => Orphaned(q, s).opened # "own"
<1> DEFINE o == IF run[q].at = s /\ run[q].opened = "own" THEN "gone" ELSE run[q].opened
           x == [run[q] EXCEPT !.opened = o]
<1>1. ProcessOK(run[q]) /\ run[q] \in Process
  BY DEF RunsOK, ProcessOK
<1>2. Orphaned(q, s) = x
  BY DEF Orphaned
<1>3. /\ o \in {"none", "own", "devkit", "gone"}
      /\ o = run[q].opened \/ (run[q].opened = "own" /\ o = "gone")
      /\ run[q].at = s => o # "own"
  BY <1>1 DEF Process
<1> HIDE DEF o
<1>4. ProcessOK(x) /\ x.fresh = run[q].fresh /\ x.cmd = run[q].cmd /\ x.pc = run[q].pc
      /\ x.at = run[q].at /\ x.seen = run[q].seen /\ x.verdict = run[q].verdict
      /\ x.opened = o
  BY <1>1, <1>3, StaleOf DEF Process
<1> HIDE DEF x
<1> QED
  BY <1>2, <1>3, <1>4

LEMMA LinksMoves ==
  ASSUME RunsOK, NEW s \in Skills, DevkitLinks(s)
  PROVE  /\ RunsOK'
         /\ \A q \in Runs :
              /\ Onlooker(q)
              /\ run[q].at = s => run'[q].opened # "own"
              /\ run'[q].fresh => run[q].at # s \/ InSettings(q)
<1>1. run' = [q \in Runs |->
                [Orphaned(q, s) EXCEPT !.fresh = @ /\ (run[q].at # s \/ InSettings(q))]]
  BY DEF DevkitLinks
<1>2. ASSUME NEW q \in Runs
      PROVE  /\ ProcessOK(run'[q]) /\ Onlooker(q)
             /\ run[q].at = s => run'[q].opened # "own"
             /\ run'[q].fresh => run[q].at # s \/ InSettings(q)
  <2> DEFINE y == Orphaned(q, s)
             b == y.fresh /\ (run[q].at # s \/ InSettings(q))
             x == [y EXCEPT !.fresh = b]
  <2>1. run'[q] = x
    BY <1>1
  <2>2. /\ ProcessOK(y)
        /\ y.cmd = run[q].cmd /\ y.pc = run[q].pc /\ y.at = run[q].at
        /\ y.seen = run[q].seen /\ y.verdict = run[q].verdict /\ y.fresh = run[q].fresh
        /\ (y.opened = run[q].opened \/ (run[q].opened = "own" /\ y.opened = "gone"))
        /\ (run[q].at = s => y.opened # "own")
    BY OrphanedFacts
  <2> HIDE DEF y
  <2>3. b \in BOOLEAN /\ (b => run[q].fresh /\ (run[q].at # s \/ InSettings(q)))
    BY <2>2
  <2> HIDE DEF b
  <2>4. y \in Process
    BY <2>2 DEF ProcessOK
  <2>5. ProcessOK(x) /\ x.fresh = b /\ x.cmd = y.cmd /\ x.pc = y.pc
        /\ x.at = y.at /\ x.seen = y.seen /\ x.verdict = y.verdict /\ x.opened = y.opened
    BY <2>2, <2>3, <2>4, StaleOf DEF Process
  <2> HIDE DEF x
  <2>6. ProcessOK(run'[q])
    BY <2>1, <2>5 DEF ProcessOK
  <2>7. Onlooker(q)
    BY <2>1, <2>2, <2>3, <2>5 DEF Onlooker
  <2>8. (run[q].at = s => run'[q].opened # "own")
        /\ (run'[q].fresh => run[q].at # s \/ InSettings(q))
    BY <2>1, <2>2, <2>3, <2>5
  <2> QED
    BY <2>6, <2>7, <2>8
<1>3. \A q \in Runs : ProcessOK(run'[q]) /\ run'[q] \in Process
  BY <1>2 DEF ProcessOK
<1>4. run' \in [Runs -> Process]
  BY <1>1, <1>3
<1> QED
  BY <1>2, <1>3, <1>4 DEF RunsOK

LEMMA UnlinkMoves ==
  ASSUME RunsOK, NEW r \in Runs, Unlink(r)
  PROVE  /\ RunsOK'
         /\ \E l \in {"mkdir", "failed"} : GoesTo(r, l)
         /\ \A q \in Runs : q # r /\ file' # file /\ run[q].at = run[r].at =>
              run'[q].opened # "own"
<1> DEFINE s == run[r].at
<1>1. PICK l \in {"mkdir", "failed"} :
        run' = [q \in Runs |->
                  IF q = r THEN [run[q] EXCEPT !.pc = l]
                  ELSE IF file' # file THEN Orphaned(q, s) ELSE run[q]]
  <2> DEFINE there == IF run[r].verdict = "dir link" THEN place[s] = "link"
                      ELSE IF place[s] = "link" THEN devkit[s] # "absent"
                      ELSE place[s] = "dir" /\ file[s] # "absent"
             k == IF there THEN "mkdir" ELSE "failed"
  <2>1. run' = [q \in Runs |->
                  IF q = r THEN [run[q] EXCEPT !.pc = k]
                  ELSE IF file' # file THEN Orphaned(q, s) ELSE run[q]]
    BY DEF Unlink
  <2>2. k \in {"mkdir", "failed"}
    OBVIOUS
  <2> HIDE DEF k
  <2> QED
    BY <2>1, <2>2
<1>2. \A q \in Runs : ProcessOK(run[q]) /\ run[q] \in Process
  BY DEF RunsOK, ProcessOK
<1>3. s \in Skills /\ run[r].pc # "done"
  BY <1>2 DEF Unlink, ProcessOK
<1> DEFINE x == [run[r] EXCEPT !.pc = l]
<1>4. /\ ProcessOK(x) /\ x.pc = l
      /\ x.cmd = run[r].cmd /\ x.at = run[r].at /\ x.seen = run[r].seen
      /\ x.verdict = run[r].verdict /\ x.opened = run[r].opened /\ x.fresh = run[r].fresh
  <2>1. l \in Pcs
    BY DEF Pcs
  <2> QED
    BY <1>2, <1>3, <2>1, PcOf DEF Process
<1>5. run'[r] = x
  BY <1>1
<1> HIDE DEF x
<1>6. ASSUME NEW q \in Runs, q # r
      PROVE  /\ ProcessOK(run'[q]) /\ Onlooker(q)
             /\ file' # file /\ run[q].at = s => run'[q].opened # "own"
  <2>1. CASE file' # file
    <3>1. run'[q] = Orphaned(q, s)
      BY <1>1, <1>6, <2>1
    <3> DEFINE y == Orphaned(q, s)
    <3>2. /\ ProcessOK(y)
          /\ y.cmd = run[q].cmd /\ y.pc = run[q].pc /\ y.at = run[q].at
          /\ y.seen = run[q].seen /\ y.verdict = run[q].verdict /\ y.fresh = run[q].fresh
          /\ (y.opened = run[q].opened \/ (run[q].opened = "own" /\ y.opened = "gone"))
          /\ (run[q].at = s => y.opened # "own")
      BY <1>3, OrphanedFacts
    <3>3. run'[q] = y
      BY <3>1
    <3> HIDE DEF y
    <3> QED
      BY <3>2, <3>3 DEF Onlooker, ProcessOK
  <2>2. CASE file' = file
    <3>1. run'[q] = run[q]
      BY <1>1, <1>6, <2>2
    <3> QED
      BY <1>2, <2>2, <3>1 DEF Onlooker
  <2> QED
    BY <2>1, <2>2
<1>7. \A q \in Runs : ProcessOK(run'[q]) /\ run'[q] \in Process
  BY <1>4, <1>5, <1>6 DEF ProcessOK
<1>8. run' \in [Runs -> Process]
  BY <1>1, <1>7
<1>9. RunsOK'
  BY <1>7, <1>8 DEF RunsOK
<1>10. GoesTo(r, l)
  BY <1>4, <1>5, <1>6 DEF GoesTo
<1> QED
  BY <1>6, <1>9, <1>10

\* A fresh look at a settings file.
LEMMA ReadMoves ==
  ASSUME RunsOK, FilesOK, NEW r \in Runs, ReadSettings(r)
  PROVE  /\ RunsOK'
         /\ run'[r].seen = settings /\ run'[r].fresh /\ run'[r].opened = run[r].opened
         /\ run'[r].cmd = run[r].cmd
         /\ LET want == Wants(run[r].cmd)
                ok   == ~Refused(Parsed(settings), want)
                todo == Missing(Parsed(settings), want) # {}
            IN  run'[r].pc = IF ~ok \/ ~todo THEN AfterRules(r)
                             ELSE IF settings.text = "absent" THEN "cut" ELSE "cut backup"
         /\ \A q \in Runs : q # r => run'[q] = run[q]
<1> DEFINE want == Wants(run[r].cmd)
           ok   == ~Refused(Parsed(settings), want)
           todo == Missing(Parsed(settings), want) # {}
           l    == IF ~ok \/ ~todo THEN AfterRules(r)
                   ELSE IF settings.text = "absent" THEN "cut" ELSE "cut backup"
           x    == [run[r] EXCEPT !.seen = settings, !.fresh = TRUE, !.pc = l]
<1>1. run' = [run EXCEPT ![r] = x]
  BY DEF ReadSettings, RunsOK
<1>2. ProcessOK(run[r]) /\ run[r].pc = "read" /\ Whole(settings) /\ settings \in Settings
  BY DEF RunsOK, ReadSettings, FilesOK, Whole
<1>3. l \in {"classify", "done", "cut", "cut backup"}
  BY DEF AfterRules
<1>4. run'[r].pc = l => run'[r].pc = IF ~ok \/ ~todo THEN AfterRules(r)
                             ELSE IF settings.text = "absent" THEN "cut" ELSE "cut backup"
  OBVIOUS
<1> HIDE DEF l
<1>5. /\ x \in Process /\ x.pc = l /\ x.opened = run[r].opened /\ x.cmd = run[r].cmd
      /\ x.seen = settings /\ x.at = run[r].at /\ x.fresh
  BY <1>2, <1>3 DEF ProcessOK, Process, Pcs
<1> HIDE DEF x
<1>6. ProcessOK(x)
  BY <1>2, <1>5 DEF ProcessOK
<1>7. run' \in [Runs -> Process] /\ run'[r] = x /\ \A q \in Runs : q # r => run'[q] = run[q]
  BY <1>1, <1>5 DEF RunsOK
<1>8. RunsOK'
  BY <1>6, <1>7 DEF RunsOK
<1>9. run'[r].pc = IF ~ok \/ ~todo THEN AfterRules(r)
                   ELSE IF settings.text = "absent" THEN "cut" ELSE "cut backup"
  BY <1>4, <1>5, <1>7
<1> QED
  BY <1>5, <1>7, <1>8, <1>9

\* A look at a skill: it is left alone, or set about afresh.
LEMMA ClassifyMoves ==
  ASSUME RunsOK, NEW r \in Runs, Classify(r)
  PROVE  /\ RunsOK'
         /\ \A q \in Runs : q # r => run'[q] = run[q]
         /\ run'[r].cmd = run[r].cmd
         /\ \/ SkillOver(r)
            \/ /\ run'[r].verdict = Verdict(run[r].at) /\ run'[r].fresh
               /\ run'[r].at = run[r].at /\ run'[r].opened = run[r].opened
               /\ run[r].at \in Skills
               /\ \/ run'[r].pc = "mkdir" /\ Verdict(run[r].at) = "absent"
                  \/ run'[r].pc = "copy" /\ Verdict(run[r].at) = "stale"
                  \/ run'[r].pc = "unlink" /\ Verdict(run[r].at) \in {"dir link", "file link"}
<1>1. ProcessOK(run[r]) /\ run[r].pc # "done" /\ run[r].at \in Skills
  BY DEF RunsOK, Classify, ProcessOK
<1>2. CASE NextSkill(r)
  <2>1. RunsOK' /\ SkillOver(r)
    BY <1>1, <1>2, NextSkillMoves
  <2>2. \A q \in Runs : q # r => run'[q] = run[q]
    BY <1>2 DEF NextSkill, RunsOK
  <2> QED
    BY <2>1, <2>2 DEF SkillOver
<1>3. CASE ~NextSkill(r)
  <2> DEFINE v == Verdict(run[r].at)
             l == CASE v = "absent" -> "mkdir"
                    [] v = "stale" -> "copy"
                    [] OTHER -> "unlink"
             x == [run[r] EXCEPT !.verdict = v, !.fresh = TRUE, !.pc = l]
  <2>1. run' = [run EXCEPT ![r] = x] /\ v # "same"
    BY <1>3 DEF Classify, RunsOK
  <2>2. v \in {"absent", "stale", "dir link", "file link"}
    BY <2>1 DEF Verdict
  <2>3. \/ l = "mkdir" /\ v = "absent"
        \/ l = "copy" /\ v = "stale"
        \/ l = "unlink" /\ v \in {"dir link", "file link"}
    BY <2>2
  <2>4. v = Verdict(run[r].at)
    OBVIOUS
  <2> HIDE DEF l, v
  <2>5. /\ x \in Process /\ x.pc = l /\ x.opened = run[r].opened /\ x.verdict = v
        /\ x.seen = run[r].seen /\ x.at = run[r].at /\ x.fresh /\ x.cmd = run[r].cmd
    BY <1>1, <2>2, <2>3 DEF ProcessOK, Process, Pcs, Verdicts
  <2> HIDE DEF x
  <2>6. ProcessOK(x)
    BY <1>1, <2>5 DEF ProcessOK
  <2>7. run' \in [Runs -> Process] /\ run'[r] = x /\ \A q \in Runs : q # r => run'[q] = run[q]
    BY <2>1, <2>5 DEF RunsOK
  <2>8. RunsOK'
    BY <2>6, <2>7 DEF RunsOK
  <2> QED
    BY <1>1, <2>3, <2>4, <2>5, <2>7, <2>8
<1> QED
  BY <1>2, <1>3

\* A SKILL.md is opened, by its name.
LEMMA CutSkillMoves ==
  ASSUME RunsOK, NEW r \in Runs, CutSkill(r)
  PROVE  /\ RunsOK'
         /\ \A q \in Runs : q # r => run'[q] = run[q]
         /\ run'[r].at = run[r].at /\ run'[r].fresh = run[r].fresh /\ run[r].at \in Skills
         /\ run'[r].cmd = run[r].cmd
         /\ \/ /\ place[run[r].at] = "absent" /\ run'[r].pc = "failed"
               /\ run'[r].opened = run[r].opened
               /\ UNCHANGED <<file, devkit>>
            \/ /\ place[run[r].at] # "absent" /\ run'[r].pc = "fill skill"
               /\ Through(run[r].at) => run'[r].opened = "devkit"
               /\ ~Through(run[r].at) => run'[r].opened = "own"
               /\ PutSkill(Through(run[r].at), run[r].at, "empty")
<1>1. ProcessOK(run[r]) /\ run[r].pc = "cut skill" /\ run[r].at \in Skills
  BY DEF RunsOK, CutSkill, ProcessOK
<1>2. CASE place[run[r].at] = "absent"
  <2>1. Goto(r, "failed") /\ UNCHANGED <<file, devkit>>
    BY <1>2 DEF CutSkill
  <2>2. RunsOK' /\ GoesTo(r, "failed") /\ \A q \in Runs : q # r => run'[q] = run[q]
    BY <1>1, <2>1, GotoMoves DEF Pcs
  <2> QED
    BY <1>1, <1>2, <2>1, <2>2 DEF GoesTo
<1>3. CASE place[run[r].at] # "absent"
  <2> DEFINE t == Through(run[r].at)
             o == IF t THEN "devkit" ELSE "own"
             x == [run[r] EXCEPT !.opened = o, !.pc = "fill skill"]
  <2>1. run' = [run EXCEPT ![r] = x] /\ PutSkill(t, run[r].at, "empty")
    BY <1>3 DEF CutSkill, RunsOK
  <2>2. o \in {"devkit", "own"} /\ (t => o = "devkit") /\ (~t => o = "own")
    OBVIOUS
  <2> HIDE DEF o
  <2>3. /\ x \in Process /\ x.pc = "fill skill" /\ x.opened = o /\ x.fresh = run[r].fresh
        /\ x.seen = run[r].seen /\ x.at = run[r].at /\ x.cmd = run[r].cmd
    BY <1>1, <2>2 DEF ProcessOK, Process, Pcs
  <2> HIDE DEF x
  <2>4. ProcessOK(x)
    BY <1>1, <2>3 DEF ProcessOK
  <2>5. run' \in [Runs -> Process] /\ run'[r] = x /\ \A q \in Runs : q # r => run'[q] = run[q]
    BY <2>1, <2>3 DEF RunsOK
  <2>6. RunsOK'
    BY <2>4, <2>5 DEF RunsOK
  <2> QED
    BY <1>1, <1>3, <2>1, <2>2, <2>3, <2>5, <2>6
<1> QED
  BY <1>2, <1>3

\* The control states that the steps of the installer go to.
LEMMA DaemonMoves ==
  ASSUME RunsOK, NEW r \in Runs, DaemonStep(r)
  PROVE  /\ RunsOK'
         /\ \E l \in {"fill plist", "unload", "load", "list", "read", "classify", "failed"} :
              GoesTo(r, l)
         /\ UNCHANGED <<settingsVars, skillVars, bounds>>
<1>1. run[r].pc # "done"
  BY DEF DaemonStep, WritePlist, UnloadAgent, LoadAgent, ListAgent
<1>2. \E l \in {"fill plist", "unload", "load", "list", "read", "classify", "failed"} : Goto(r, l)
  BY DEF DaemonStep, WritePlist, UnloadAgent, LoadAgent, ListAgent
<1>3. PICK l \in {"fill plist", "unload", "load", "list", "read", "classify", "failed"} :
        Goto(r, l)
  BY <1>2
<1>4. l \in Pcs
  BY DEF Pcs
<1>5. RunsOK' /\ GoesTo(r, l)
  BY <1>1, <1>3, <1>4, GotoMoves
<1>6. UNCHANGED <<settingsVars, skillVars, bounds>>
  BY DEF DaemonStep, WritePlist, UnloadAgent, LoadAgent, ListAgent,
         settingsVars, skillVars, bounds
<1> QED
  BY <1>5, <1>6

LEMMA StopMoves ==
  ASSUME RunsOK, NEW r \in Runs, Stop(r)
  PROVE  /\ RunsOK'
         /\ \/ GoesTo(r, "failed")
            \/ InSettings(r) /\ GoesTo(r, "classify")
         /\ UNCHANGED <<settingsVars, skillVars, daemonVars, edits>>
<1>1. run[r].pc # "done"
  BY DEF Stop, Working
<1>2. "failed" \in Pcs /\ "classify" \in Pcs
  BY DEF Pcs
<1>3. Goto(r, "failed") \/ (InSettings(r) /\ Goto(r, "classify"))
  BY DEF Stop
<1>4. RunsOK' /\ (GoesTo(r, "failed") \/ (InSettings(r) /\ GoesTo(r, "classify")))
  BY <1>1, <1>2, <1>3, GotoMoves
<1> QED
  BY <1>4 DEF Stop

\* The four steps that write settings.json or the .bak.
LEMMA WritesMove ==
  ASSUME RunsOK, NEW r \in Runs,
         CutBackup(r) \/ FillBackup(r) \/ CutSettings(r) \/ FillSettings(r)
  PROVE  /\ RunsOK'
         /\ excused' = (excused \/ ~run[r].fresh)
         /\ \A q \in Runs : q # r => NoEditorFresh(q)
         /\ \/ CutBackup(r) /\ GoesTo(r, "fill backup")
            \/ FillBackup(r) /\ GoesTo(r, "cut")
            \/ CutSettings(r) /\ GoesTo(r, "fill")
            \/ FillSettings(r) /\ \E l \in {"classify", "done"} : GoesTo(r, l)
         /\ InSettings(r) /\ run[r].pc # "read"
         /\ UNCHANGED <<skillVars, daemonVars, bounds, version>>
<1>1. run[r].pc # "done" /\ InSettings(r) /\ run[r].pc # "read"
  BY DEF CutBackup, FillBackup, CutSettings, FillSettings, InSettings
<1>2. {"fill backup", "cut", "fill", "classify", "done"} \subseteq Pcs
  BY DEF Pcs
<1>3. AfterRules(r) \in {"classify", "done"}
  BY DEF AfterRules
<1>4. \/ CutBackup(r) /\ Write(r, "fill backup")
      \/ FillBackup(r) /\ Write(r, "cut")
      \/ CutSettings(r) /\ Write(r, "fill")
      \/ FillSettings(r) /\ \E l \in {"classify", "done"} : Write(r, l)
  BY <1>3 DEF CutBackup, FillBackup, CutSettings, FillSettings
<1>5. PICK l \in {"fill backup", "cut", "fill", "classify", "done"} :
        /\ Write(r, l)
        /\ \/ CutBackup(r) /\ l = "fill backup"
           \/ FillBackup(r) /\ l = "cut"
           \/ CutSettings(r) /\ l = "fill"
           \/ FillSettings(r) /\ l \in {"classify", "done"}
  BY <1>4
<1>6. RunsOK' /\ GoesTo(r, l) /\ \A q \in Runs : q # r => NoEditorFresh(q)
  BY <1>1, <1>2, <1>5, WriteMoves
<1>7. excused' = (excused \/ ~run[r].fresh)
  BY <1>5 DEF Write
<1>8. UNCHANGED <<skillVars, daemonVars, bounds, version>>
  BY DEF CutBackup, FillBackup, CutSettings, FillSettings
<1> QED
  BY <1>1, <1>5, <1>6, <1>7, <1>8

\* Every step keeps the processes well formed.
LEMMA NextRuns ==
  ASSUME RunsOK, FilesOK, [Next]_vars
  PROVE  RunsOK'
<1>1. CASE UNCHANGED vars
  BY <1>1 DEF vars, RunsOK
<1>2. CASE Save
  BY <1>2, SaveMoves
<1>3. CASE \E s \in Skills : DevkitLinks(s)
  BY <1>3, LinksMoves
<1>4. ASSUME NEW r \in Runs,
             Start(r) \/ SettingsStep(r) \/ SkillStep(r) \/ DaemonStep(r) \/ Stop(r)
      PROVE  RunsOK'
  <2>1. CASE Start(r)
    BY <2>1, StartMoves
  <2>2. CASE SettingsStep(r)
    BY <2>2, ReadMoves, WritesMove DEF SettingsStep
  <2>3. CASE Classify(r)
    BY <2>3, ClassifyMoves
  <2>4. CASE CopySkill(r)
    BY <2>4, GotoMoves DEF CopySkill, Pcs
  <2>5. CASE Unlink(r)
    BY <2>5, UnlinkMoves
  <2>6. CASE MakeDir(r)
    BY <2>6, GotoMoves DEF MakeDir, Pcs
  <2>7. CASE CutSkill(r)
    BY <2>7, CutSkillMoves
  <2>8. CASE FillSkill(r)
    BY <2>8, NextSkillMoves DEF FillSkill
  <2>9. CASE DaemonStep(r)
    BY <2>9, DaemonMoves
  <2>10. CASE Stop(r)
    BY <2>10, StopMoves
  <2> QED
    BY <1>4, <2>1, <2>2, <2>3, <2>4, <2>5, <2>6, <2>7, <2>8, <2>9, <2>10 DEF SkillStep
<1> QED
  BY <1>1, <1>2, <1>3, <1>4 DEF Next

-----------------------------------------------------------------------------
(* What a step does to the files.                                           *)

\* What the user saves is a whole file, of the current version.
LEMMA SaveFacts ==
  ASSUME FilesOK, RestOK, Save
  PROVE  /\ Whole(settings') /\ settings'.user = version'
         /\ version' \in 0 .. MaxEdits /\ edits' \in 0 .. MaxEdits
         /\ acked' = {q \in acked : Missing(settings', Wants(run[q].cmd)) = {}}
<1>1. PICK t \in {"absent", "broken", "json"},
           k \in {[x \in Rules |-> IF x \in K THEN settings.rules[x] ELSE 0] : K \in SUBSET Rules},
           odd \in {{}, {"permissions"}, {"hooks"}} :
        /\ t # "json" => k = NoRules /\ odd = {}
        /\ settings' = [text |-> t, user |-> IF t = "absent" THEN 0 ELSE edits',
                        rules |-> k, odd |-> odd]
        /\ version' = settings'.user
        /\ acked' = {q \in acked : Missing(settings', Wants(run[q].cmd)) = {}}
  BY DEF Save
<1>2. edits' \in 0 .. MaxEdits /\ 0 \in 0 .. MaxEdits
  BY InstallerAssumption DEF Save, RestOK
<1>3. k \in [Rules -> 0 .. 2] /\ \A x \in Rules : k[x] <= 1
  <2>1. PICK K \in SUBSET Rules : k = [x \in Rules |-> IF x \in K THEN settings.rules[x] ELSE 0]
    OBVIOUS
  <2>2. settings.rules \in [Rules -> 0 .. 2] /\ \A x \in Rules : settings.rules[x] <= 1
    BY DEF FilesOK, Whole, Settings
  <2> QED
    BY <2>1, <2>2
<1> DEFINE u == IF t = "absent" THEN 0 ELSE edits'
<1>4. u \in 0 .. MaxEdits /\ (t = "absent" => u = 0)
  BY <1>2
<1>5. settings' = [text |-> t, user |-> u, rules |-> k, odd |-> odd]
  BY <1>1
<1> HIDE DEF u
<1>6. settings' \in Settings /\ settings'.text = t /\ settings'.user = u /\ settings'.rules = k
  BY <1>3, <1>4, <1>5 DEF Settings
<1>7. Whole(settings')
  BY <1>1, <1>3, <1>4, <1>6 DEF Whole
<1> QED
  BY <1>1, <1>2, <1>4, <1>6, <1>7

LEMMA NextFiles ==
  ASSUME FilesOK, RunsOK, RestOK, [Next]_vars
  PROVE  FilesOK'
<1>1. CASE UNCHANGED <<settings, backup>>
  BY <1>1 DEF FilesOK
<1>2. CASE Save
  BY <1>2, SaveFacts DEF Save, FilesOK
<1>3. ASSUME NEW r \in Runs, SettingsStep(r)
      PROVE  FilesOK'
  <2>0. Whole(run[r].seen)
    BY DEF RunsOK, ProcessOK
  <2>1. CASE ReadSettings(r)
    BY <2>1 DEF ReadSettings, FilesOK
  <2>2. CASE CutBackup(r)
    BY <2>2, BareWhole DEF CutBackup, FilesOK
  <2>3. CASE FillBackup(r)
    BY <2>0, <2>3 DEF FillBackup, FilesOK
  <2>4. CASE CutSettings(r)
    BY <2>4, BareWhole DEF CutSettings, FilesOK
  <2>5. CASE FillSettings(r)
    <3>1. Whole(Merged(run[r].seen, Wants(run[r].cmd)))
      BY <2>0, WantsRules, MergedFacts
    <3> QED
      BY <2>5, <3>1 DEF FillSettings, FilesOK
  <2> QED
    BY <1>3, <2>1, <2>2, <2>3, <2>4, <2>5 DEF SettingsStep
<1>4. [Next]_vars =>
        \/ UNCHANGED <<settings, backup>>
        \/ Save
        \/ \E r \in Runs : SettingsStep(r)
  BY DEF Next, vars, settingsVars, Start, SkillStep, Classify, CopySkill, Unlink, MakeDir,
         CutSkill, FillSkill, DaemonStep, WritePlist, UnloadAgent, LoadAgent, ListAgent,
         Stop, DevkitLinks
<1> QED
  BY <1>1, <1>2, <1>3, <1>4

\* A link goes, or what is in a directory goes, or nothing does.
LEMMA UnlinkFacts ==
  ASSUME RunsOK, NEW r \in Runs, Unlink(r)
  PROVE  /\ run[r].at \in Skills /\ run[r].pc = "unlink"
         /\ copy' = copy
         /\ \/ UNCHANGED <<place, file, devkit>> /\ run'[r].pc = "failed"
            \/ /\ run[r].verdict = "dir link" /\ place[run[r].at] = "link"
               /\ place' = [place EXCEPT ![run[r].at] = "absent"]
               /\ UNCHANGED <<file, devkit>>
            \/ /\ run[r].verdict # "dir link" /\ place[run[r].at] = "link"
               /\ devkit' = [devkit EXCEPT ![run[r].at] = "absent"]
               /\ UNCHANGED <<place, file>>
            \/ /\ run[r].verdict # "dir link" /\ place[run[r].at] = "dir"
               /\ file[run[r].at] # "absent"
               /\ file' = [file EXCEPT ![run[r].at] = "absent"]
               /\ UNCHANGED <<place, devkit>>
<1> DEFINE s     == run[r].at
           dir   == run[r].verdict = "dir link"
           there == IF dir THEN place[s] = "link"
                    ELSE IF place[s] = "link" THEN devkit[s] # "absent"
                    ELSE place[s] = "dir" /\ file[s] # "absent"
<1>1. s \in Skills /\ run[r].pc = "unlink" /\ copy' = copy
  BY DEF RunsOK, ProcessOK, Unlink
<1>2. /\ place' = IF dir /\ there THEN [place EXCEPT ![s] = "absent"] ELSE place
      /\ file' = IF ~dir /\ there /\ place[s] = "dir" THEN [file EXCEPT ![s] = "absent"] ELSE file
      /\ devkit' = IF ~dir /\ there /\ place[s] = "link" THEN [devkit EXCEPT ![s] = "absent"] ELSE devkit
  BY DEF Unlink
<1>3. run'[r] = [run[r] EXCEPT !.pc = IF there THEN "mkdir" ELSE "failed"]
  BY DEF Unlink
<1>4. CASE ~there
  <2>1. UNCHANGED <<place, file, devkit>>
    BY <1>2, <1>4
  <2>2. run'[r] = [run[r] EXCEPT !.pc = "failed"]
    BY <1>3, <1>4
  <2>3. run[r] \in Process
    BY DEF RunsOK
  <2>4. run'[r].pc = "failed"
    BY <2>2, <2>3 DEF Process
  <2> QED
    BY <1>1, <2>1, <2>4
<1>5. CASE there /\ dir
  BY <1>1, <1>2, <1>5
<1>6. CASE there /\ ~dir /\ place[s] = "link"
  BY <1>1, <1>2, <1>6
<1>7. CASE there /\ ~dir /\ place[s] # "link"
  BY <1>1, <1>2, <1>7
<1> QED
  BY <1>4, <1>5, <1>6, <1>7

LEMMA NextTree ==
  ASSUME TreeOK, OpenedOK, RunsOK, [Next]_vars
  PROVE  TreeOK'
<1>1. CASE UNCHANGED skillVars
  BY <1>1 DEF TreeOK, skillVars
<1>2. ASSUME NEW s \in Skills, DevkitLinks(s)
      PROVE  TreeOK'
  <2>1. CASE /\ place' = [place EXCEPT ![s] = "link"]
             /\ file' = [file EXCEPT ![s] = "absent"]
             /\ copy' = [copy EXCEPT ![s] = "absent"]
    BY <1>2, <2>1 DEF DevkitLinks, TreeOK, Contents
  <2>2. CASE /\ place[s] = "dir"
             /\ file' = [file EXCEPT ![s] = "link"]
             /\ UNCHANGED <<place, copy>>
    BY <1>2, <2>2 DEF DevkitLinks, TreeOK
  <2> QED
    BY <1>2, <2>1, <2>2 DEF DevkitLinks
<1>3. ASSUME NEW r \in Runs, SkillStep(r)
      PROVE  TreeOK'
  <2>0. run[r].pc # "done" => run[r].at \in Skills
    BY DEF RunsOK, ProcessOK
  <2>1. CASE Classify(r)
    BY <1>1, <2>1 DEF Classify
  <2>2. CASE CopySkill(r)
    <3>1. run[r].at \in Skills
      BY <2>0, <2>2 DEF CopySkill
    <3>2. Text(run[r].at) \in Contents
      BY <3>1 DEF TreeOK, Text, Through, Contents
    <3>3. copy' = copy \/ copy' = [copy EXCEPT ![run[r].at] = Text(run[r].at)]
      BY <2>2 DEF CopySkill
    <3>4. copy' \in [Skills -> Contents]
      BY <3>2, <3>3 DEF TreeOK
    <3> QED
      BY <2>2, <3>4 DEF CopySkill, TreeOK
  <2>3. CASE Unlink(r)
    BY <2>3, UnlinkFacts DEF TreeOK, Contents
  <2>4. CASE MakeDir(r)
    <3>1. run[r].at \in Skills
      BY <2>0, <2>4 DEF MakeDir
    <3> QED
      BY <2>4, <3>1 DEF MakeDir, TreeOK
  <2>5. CASE CutSkill(r)
    <3>1. run[r].at \in Skills /\ place' = place /\ copy' = copy
      BY <2>0, <2>5 DEF CutSkill
    <3>2. CASE UNCHANGED <<file, devkit>>
      BY <3>1, <3>2 DEF TreeOK
    <3>3. CASE /\ place[run[r].at] # "absent"
               /\ PutSkill(Through(run[r].at), run[r].at, "empty")
      <4>1. CASE Through(run[r].at)
        BY <3>1, <3>3, <4>1 DEF PutSkill, TreeOK, Contents
      <4>2. CASE ~Through(run[r].at)
        <5>1. place[run[r].at] = "dir"
          BY <3>1, <3>3, <4>2 DEF Through, TreeOK
        <5> QED
          BY <3>1, <3>3, <4>2, <5>1 DEF PutSkill, TreeOK, Contents
      <4> QED
        BY <4>1, <4>2
    <3> QED
      BY <2>5, <3>2, <3>3, CutSkillMoves
  <2>6. CASE FillSkill(r)
    <3>1. run[r].at \in Skills
      BY <2>0, <2>6 DEF FillSkill
    <3>2. run[r].opened = "own" => place[run[r].at] = "dir"
      BY DEF OpenedOK, OpenedFor, Named
    <3>3. CASE run[r].opened = "gone"
      BY <1>1, <2>6, <3>3 DEF FillSkill, skillVars
    <3>4. CASE run[r].opened = "devkit"
      BY <2>6, <3>1, <3>4 DEF FillSkill, PutSkill, TreeOK, Contents
    <3>5. CASE run[r].opened = "own"
      BY <2>6, <3>1, <3>2, <3>5 DEF FillSkill, PutSkill, TreeOK, Contents
    <3>6. run[r].opened \in {"own", "devkit", "gone"}
      BY <2>6 DEF FillSkill, OpenedOK, OpenedFor, RunsOK, Process
    <3> QED
      BY <3>3, <3>4, <3>5, <3>6
  <2> QED
    BY <1>3, <2>1, <2>2, <2>3, <2>4, <2>5, <2>6 DEF SkillStep
<1>4. [Next]_vars =>
        \/ UNCHANGED skillVars
        \/ \E s \in Skills : DevkitLinks(s)
        \/ \E r \in Runs : SkillStep(r)
  BY DEF Next, vars, Start, SettingsStep, ReadSettings, CutBackup, FillBackup, CutSettings,
         FillSettings, DaemonStep, WritePlist, UnloadAgent, LoadAgent, ListAgent, Stop, Save
<1> QED
  BY <1>1, <1>2, <1>3, <1>4

\* Whose SKILL.md is open, and where, through the steps that leave the tree and
\* the rest of the processes alone.
LEMMA OpenedKept ==
  ASSUME OpenedOK, NEW q \in Runs, Onlooker(q),
         run'[q].opened = "own" =>
           \A s \in Skills : run[q].at = s /\ Named(s) => Named(s)'
  PROVE  OpenedFor(q)'
<1>1. OpenedFor(q)
  BY DEF OpenedOK
<1>2. run'[q].pc = "fill skill" => run'[q].opened # "none"
  BY <1>1 DEF OpenedFor, Onlooker
<1>3. ASSUME run'[q].opened = "own"
      PROVE  /\ run'[q].pc \in {"fill skill", "failed"} /\ run'[q].at \in Skills
             /\ Named(run[q].at)'
  <2>1. run[q].opened = "own" /\ run'[q].at = run[q].at /\ run'[q].pc = run[q].pc
    BY <1>3 DEF Onlooker
  <2>2. PICK s \in Skills : s = run[q].at
    BY <1>1, <2>1 DEF OpenedFor
  <2>3. Named(s)'
    BY <1>1, <1>3, <2>1, <2>2 DEF OpenedFor
  <2>4. run'[q].at = s
    BY <2>1, <2>2
  <2> QED
    BY <1>1, <2>1, <2>2, <2>3, <2>4 DEF OpenedFor
<1> QED
  BY <1>2, <1>3 DEF OpenedFor

LEMMA OpenedStays ==
  ASSUME OpenedOK, NEW r \in Runs, UNCHANGED <<place, file>>,
         \A q \in Runs : q # r => Onlooker(q),
         \/ run'[r].opened = "none" /\ run'[r].pc # "fill skill"
         \/ /\ run'[r].opened = run[r].opened /\ run'[r].at = run[r].at
            /\ run'[r].pc = run[r].pc \/ run'[r].pc = "failed"
         \/ /\ run[r].pc \notin {"fill skill", "failed"} /\ run'[r].pc # "fill skill"
            /\ run'[r].opened = run[r].opened
  PROVE  OpenedOK'
<1>1. \A s \in Skills : Named(s) => Named(s)'
  BY DEF Named
<1>2. \A q \in Runs : q # r => OpenedFor(q)'
  BY <1>1, OpenedKept
<1>3. OpenedFor(r)'
  BY DEF OpenedOK, OpenedFor, Named
<1> QED
  BY <1>2, <1>3 DEF OpenedOK

LEMMA NextOpened ==
  ASSUME Inv, [Next]_vars
  PROVE  OpenedOK'
<1> USE DEF Inv
<1>1. CASE UNCHANGED vars
  BY <1>1 DEF vars, skillVars, OpenedOK, OpenedFor, Named
<1>2. CASE Save
  <2>1. \A q \in Runs : Onlooker(q)
    BY <1>2, SaveMoves DEF NoEditorFresh
  <2>2. \A s \in Skills : Named(s) => Named(s)'
    BY <1>2 DEF Save, skillVars, Named
  <2> QED
    BY <2>1, <2>2, OpenedKept DEF OpenedOK
<1>3. ASSUME NEW s \in Skills, DevkitLinks(s)
      PROVE  OpenedOK'
  <2>1. \A q \in Runs : Onlooker(q) /\ (run[q].at = s => run'[q].opened # "own")
    BY <1>3, LinksMoves
  <2>2. \A x \in Skills : x # s => place'[x] = place[x] /\ file'[x] = file[x]
    BY <1>3 DEF DevkitLinks, TreeOK
  <2>3. \A x \in Skills : x # s /\ Named(x) => Named(x)'
    BY <2>2 DEF Named
  <2>4. \A q \in Runs : OpenedFor(q)'
    BY <2>1, <2>3, OpenedKept
  <2> QED
    BY <2>4 DEF OpenedOK
<1>4. ASSUME NEW r \in Runs,
             Start(r) \/ SettingsStep(r) \/ DaemonStep(r) \/ Stop(r)
      PROVE  OpenedOK'
  <2>0. UNCHANGED <<place, file>>
    BY <1>4 DEF Start, SettingsStep, ReadSettings, CutBackup, FillBackup, CutSettings,
         FillSettings, DaemonStep, WritePlist, UnloadAgent, LoadAgent, ListAgent, Stop, skillVars
  <2>1. CASE Start(r)
    BY <2>0, <2>1, StartMoves, OpenedStays DEF Start
  <2>2. CASE SettingsStep(r)
    <3>1. CASE ReadSettings(r)
      <4>1. run'[r].pc # "fill skill" /\ run[r].pc \notin {"fill skill", "failed"}
        <5>1. run'[r].pc \in {AfterRules(r), "cut", "cut backup"}
          BY <3>1, ReadMoves
        <5>2. AfterRules(r) \in {"classify", "done"}
          BY DEF AfterRules
        <5>3. run[r].pc = "read"
          BY <3>1 DEF ReadSettings
        <5> QED
          BY <5>1, <5>2, <5>3
      <4> QED
        BY <2>0, <3>1, <4>1, ReadMoves, OpenedStays DEF Onlooker
    <3>2. CASE ~ReadSettings(r)
      BY <2>0, <2>2, <3>2, WritesMove, OpenedStays
         DEF SettingsStep, NoEditorFresh, GoesTo, InSettings
    <3> QED
      BY <3>1, <3>2
  <2>3. CASE DaemonStep(r)
    <3>1. run[r].pc \notin {"fill skill", "failed"}
      BY <2>3 DEF DaemonStep, WritePlist, UnloadAgent, LoadAgent, ListAgent
    <3> QED
      BY <2>0, <2>3, <3>1, DaemonMoves, OpenedStays DEF GoesTo
  <2>4. CASE Stop(r)
    BY <2>0, <2>4, StopMoves, OpenedStays DEF GoesTo, InSettings
  <2> QED
    BY <1>4, <2>1, <2>2, <2>3, <2>4
<1>5. ASSUME NEW r \in Runs, SkillStep(r)
      PROVE  OpenedOK'
  <2>1. CASE Classify(r)
    <3>1. UNCHANGED <<place, file>> /\ run[r].pc = "classify"
      BY <2>1 DEF Classify, skillVars
    <3> QED
      BY <2>1, <3>1, ClassifyMoves, OpenedStays DEF SkillOver, Onlooker
  <2>2. CASE CopySkill(r)
    <3>1. UNCHANGED <<place, file>> /\ run[r].pc = "copy" /\ Goto(r, "mkdir")
      BY <2>2 DEF CopySkill
    <3>2. GoesTo(r, "mkdir")
      BY <3>1, GotoMoves DEF Pcs
    <3> QED
      BY <3>1, <3>2, OpenedStays DEF GoesTo
  <2>3. CASE Unlink(r)
    <3>1. PICK l \in {"mkdir", "failed"} : GoesTo(r, l)
      BY <2>3, UnlinkMoves
    <3>2. run[r].at \in Skills /\ run[r].pc = "unlink"
      BY <2>3, UnlinkFacts
    <3>3. run'[r].opened # "own" /\ run'[r].pc # "fill skill"
      BY <3>1, <3>2 DEF GoesTo, OpenedOK, OpenedFor
    <3>4. /\ \A x \in Skills : x # run[r].at => place'[x] = place[x] /\ file'[x] = file[x]
          /\ \/ UNCHANGED <<place, file>>
             \/ place[run[r].at] = "link"
             \/ file' # file
      BY <2>3, <3>2, UnlinkFacts DEF TreeOK
    <3>5. \A q \in Runs : q # r =>
            Onlooker(q) /\ (file' # file /\ run[q].at = run[r].at => run'[q].opened # "own")
      BY <2>3, <3>1, UnlinkMoves DEF GoesTo
    <3>6. \A x \in Skills : x # run[r].at /\ Named(x) => Named(x)'
      BY <3>4 DEF Named
    <3>7. file' = file => \A x \in Skills : Named(x) => Named(x)'
      BY <3>4, <3>6 DEF Named
    <3>8. ASSUME NEW q \in Runs, q # r PROVE OpenedFor(q)'
      BY <3>5, <3>6, <3>7, <3>8, OpenedKept
    <3>9. OpenedFor(r)'
      BY <3>3 DEF OpenedFor
    <3> QED
      BY <3>8, <3>9 DEF OpenedOK
  <2>4. CASE MakeDir(r)
    <3>1. run[r].pc = "mkdir" /\ Goto(r, "cut skill") /\ run[r].at \in Skills
      BY <2>4 DEF MakeDir, RunsOK, ProcessOK
    <3>2. GoesTo(r, "cut skill")
      BY <3>1, GotoMoves DEF Pcs
    <3>3. file' = file /\ \A x \in Skills : place[x] = "dir" => place'[x] = "dir"
      BY <2>4, <3>1 DEF MakeDir, TreeOK
    <3>4. \A x \in Skills : Named(x) => Named(x)'
      BY <3>3 DEF Named
    <3>5. \A q \in Runs : q # r => OpenedFor(q)'
      BY <3>2, <3>4, OpenedKept DEF GoesTo
    <3>6. run'[r].opened # "own" /\ run'[r].pc # "fill skill"
      BY <3>1, <3>2 DEF GoesTo, OpenedOK, OpenedFor
    <3>7. OpenedFor(r)'
      BY <3>6 DEF OpenedFor
    <3> QED
      BY <3>5, <3>7 DEF OpenedOK
  <2>5. CASE CutSkill(r)
    <3>1. run[r].at \in Skills /\ place' = place /\ run[r].pc = "cut skill"
      BY <2>5, CutSkillMoves DEF CutSkill
    <3>2. CASE place[run[r].at] = "absent"
      BY <2>5, <3>1, <3>2, CutSkillMoves, OpenedStays DEF Onlooker
    <3>3. CASE place[run[r].at] # "absent"
      <4>1. run'[r].pc = "fill skill" /\ run'[r].at = run[r].at
            /\ (\A q \in Runs : q # r => run'[q] = run[q])
            /\ (Through(run[r].at) => run'[r].opened = "devkit")
            /\ (~Through(run[r].at) => run'[r].opened = "own")
            /\ PutSkill(Through(run[r].at), run[r].at, "empty")
        BY <2>5, <3>3, CutSkillMoves
      <4>2. CASE Through(run[r].at)
        <5>1. file' = file
          BY <4>1, <4>2 DEF PutSkill
        <5> QED
          BY <3>1, <4>1, <4>2, <5>1 DEF OpenedOK, OpenedFor, Named
      <4>3. CASE ~Through(run[r].at)
        <5>1. file' = [file EXCEPT ![run[r].at] = "empty"]
          BY <4>1, <4>3 DEF PutSkill
        <5>2. place[run[r].at] = "dir"
          BY <3>1, <3>3, <4>3 DEF Through, TreeOK
        <5>3. \A x \in Skills : file[x] \notin {"absent", "link"} => file'[x] \notin {"absent", "link"}
          BY <5>1 DEF TreeOK
        <5>4. file'[run[r].at] = "empty"
          BY <3>1, <5>1 DEF TreeOK
        <5> QED
          BY <3>1, <4>1, <4>3, <5>2, <5>3, <5>4 DEF OpenedOK, OpenedFor, Named
      <4> QED
        BY <4>2, <4>3
    <3> QED
      BY <3>2, <3>3
  <2>6. CASE FillSkill(r)
    <3>1. run[r].at \in Skills /\ place' = place /\ NextSkill(r) /\ run[r].pc = "fill skill"
      BY <2>6 DEF FillSkill, RunsOK, ProcessOK
    <3>2. SkillOver(r)
      BY <3>1, NextSkillMoves
    <3>3. file' = file \/ file' = [file EXCEPT ![run[r].at] = "bundled"]
      BY <2>6 DEF FillSkill, PutSkill
    <3>4. \A x \in Skills : file[x] \notin {"absent", "link"} => file'[x] \notin {"absent", "link"}
      BY <3>3 DEF TreeOK
    <3>5. \A x \in Skills : Named(x) => Named(x)'
      BY <3>1, <3>4 DEF Named
    <3>6. \A q \in Runs : q # r => OpenedFor(q)'
      BY <3>2, <3>5, OpenedKept DEF SkillOver
    <3>7. OpenedFor(r)'
      BY <3>2 DEF OpenedFor, SkillOver
    <3> QED
      BY <3>6, <3>7 DEF OpenedOK
  <2> QED
    BY <1>5, <2>1, <2>2, <2>3, <2>4, <2>5, <2>6 DEF SkillStep
<1> QED
  BY <1>1, <1>2, <1>3, <1>4, <1>5 DEF Next

LEMMA NextRest ==
  ASSUME Inv, [Next]_vars
  PROVE  RestOK'
<1> USE DEF Inv
<1>1. CASE UNCHANGED <<settingsVars, daemonVars, edits>>
  BY <1>1 DEF RestOK, settingsVars, daemonVars
<1>2. CASE Save
  <2>1. acked' \subseteq acked
    BY <1>2, SaveFacts
  <2>2. UNCHANGED <<daemonVars, excused>>
    BY <1>2 DEF Save
  <2> QED
    BY <1>2, <2>1, <2>2, SaveFacts DEF RestOK, daemonVars
<1>3. ASSUME NEW r \in Runs, SettingsStep(r)
      PROVE  RestOK'
  <2>1. UNCHANGED <<daemonVars, edits, version>>
    BY <1>3 DEF SettingsStep, ReadSettings, CutBackup, FillBackup, CutSettings, FillSettings,
                bounds
  <2>2. acked' \subseteq Runs
    BY <1>3 DEF SettingsStep, ReadSettings, CutBackup, FillBackup, CutSettings, FillSettings,
                RestOK
  <2>3. excused' \in BOOLEAN
    <3>1. CASE ReadSettings(r)
      BY <3>1 DEF ReadSettings
    <3>2. CASE ~ReadSettings(r)
      BY <1>3, <3>2, WritesMove DEF SettingsStep
    <3> QED
      BY <3>1, <3>2
  <2> QED
    BY <2>1, <2>2, <2>3 DEF RestOK, daemonVars
<1>4. ASSUME NEW r \in Runs, DaemonStep(r)
      PROVE  RestOK'
  <2>1. plist' \in {"absent", "empty", "agent"} /\ job' \in BOOLEAN
    BY <1>4 DEF DaemonStep, WritePlist, UnloadAgent, LoadAgent, ListAgent, RestOK, daemonVars
  <2> QED
    BY <1>4, <2>1, DaemonMoves DEF RestOK, settingsVars, bounds
<1>5. [Next]_vars =>
        \/ UNCHANGED <<settingsVars, daemonVars, edits>>
        \/ Save
        \/ \E r \in Runs : SettingsStep(r) \/ DaemonStep(r)
  BY DEF Next, vars, bounds, Start, SkillStep, Classify, CopySkill, Unlink, MakeDir,
         CutSkill, FillSkill, Stop, DevkitLinks
<1> QED
  BY <1>1, <1>2, <1>3, <1>4, <1>5

LEMMA InvStep == Inv /\ [Next]_vars => Inv'
<1> SUFFICES ASSUME Inv, [Next]_vars PROVE Inv'
  OBVIOUS
<1>1. FilesOK'
  BY NextFiles DEF Inv
<1>2. RunsOK'
  BY NextRuns DEF Inv
<1>3. TreeOK'
  BY NextTree DEF Inv
<1>4. OpenedOK'
  BY NextOpened
<1>5. RestOK'
  BY NextRest
<1> QED
  BY <1>1, <1>2, <1>3, <1>4, <1>5 DEF Inv

\* Every behaviour keeps the types, and settings.json and its .bak never hold a
\* rule of cbc twice: the merge of ensure_allow_rule and ensure_command_hook
\* looks for each rule in the very text that it writes back.
THEOREM InstallerTypes == Spec => []TypeOK
<1>1. Spec => []Inv
  BY InitInv, InvStep, PTL DEF Spec
<1> QED
  BY <1>1, InvTypes, PTL

-----------------------------------------------------------------------------
(* devkit's own files.                                                      *)

\* What a run that is fresh knows of its skill: what the lock-step of classify
\* and the write relies on.
LookedFor(r) ==
  run[r].fresh =>
    /\ run[r].pc = "unlink" /\ run[r].verdict # "dir link" => place[run[r].at] # "link"
    /\ run[r].pc \in {"copy", "mkdir", "cut skill"} => ~Through(run[r].at)
    /\ run[r].pc = "fill skill" => run[r].opened # "devkit"

Looked == \A r \in Runs : LookedFor(r)

\* Nothing but devkit makes a link.
NoNewLink(s) ==
  /\ place'[s] = "link" => place[s] = "link"
  /\ file'[s] = "link" => file[s] = "link"

LEMMA NoLinkMade ==
  ASSUME TreeOK, TreeOK', NEW s \in Skills, NoNewLink(s)
  PROVE  ~Through(s) => ~Through(s)'
BY DEF TreeOK, Through, NoNewLink

\* A run stays informed while its skill gets no new link.
LEMMA LookedKept ==
  ASSUME Inv, Inv', Looked, NEW q \in Runs, Onlooker(q),
         run'[q].fresh => \/ InSettings(q)
                          \/ run[q].at \in Skills => NoNewLink(run[q].at)
  PROVE  LookedFor(q)'
<1>1. CASE ~run'[q].fresh
  BY <1>1 DEF LookedFor
<1>2. CASE run'[q].fresh /\ InSettings(q)
  <2>1. run'[q].pc \notin {"unlink", "copy", "mkdir", "cut skill", "fill skill"}
    BY <1>2 DEF InSettings, Onlooker
  <2> QED
    BY <2>1 DEF LookedFor
<1>3. CASE run'[q].fresh /\ run[q].pc \in {"unlink", "copy", "mkdir", "cut skill", "fill skill"}
  <2>1. PICK s \in Skills : s = run[q].at /\ run'[q].at = s
    BY <1>3 DEF Inv, RunsOK, ProcessOK, Onlooker
  <2>2. NoNewLink(s)
    BY <1>3, <2>1 DEF InSettings
  <2>3. ~Through(s) => ~Through(s)'
    BY <2>2, NoLinkMade DEF Inv
  <2>4. place[s] # "link" => place'[s] # "link"
    BY <2>2 DEF NoNewLink
  <2>5. LookedFor(q) /\ run[q].fresh
    BY <1>3 DEF Looked, Onlooker
  <2>6. /\ run'[q].pc = run[q].pc /\ run'[q].verdict = run[q].verdict
        /\ run'[q].opened = "devkit" => run[q].opened = "devkit"
    BY DEF Onlooker
  <2> QED
    BY <2>1, <2>3, <2>4, <2>5, <2>6 DEF LookedFor
<1>4. CASE run[q].pc \notin {"unlink", "copy", "mkdir", "cut skill", "fill skill"}
  <2>1. run'[q].pc \notin {"unlink", "copy", "mkdir", "cut skill", "fill skill"}
    BY <1>4 DEF Onlooker
  <2> QED
    BY <2>1 DEF LookedFor
<1> QED
  BY <1>1, <1>2, <1>3, <1>4

\* No step of a run or of the user makes a link.
LEMMA OnlyDevkitLinks ==
  ASSUME Inv, [Next]_vars, ~\E s \in Skills : DevkitLinks(s)
  PROVE  \A s \in Skills : NoNewLink(s)
<1> USE DEF Inv
<1>1. CASE UNCHANGED <<place, file>>
  BY <1>1 DEF NoNewLink
<1>2. ASSUME NEW r \in Runs, SkillStep(r)
      PROVE  \A s \in Skills : NoNewLink(s)
  <2>0. run[r].pc # "done" => run[r].at \in Skills
    BY DEF RunsOK, ProcessOK
  <2>1. CASE Classify(r) \/ CopySkill(r)
    BY <1>1, <2>1 DEF Classify, CopySkill, skillVars
  <2>2. CASE Unlink(r)
    BY <2>2, UnlinkFacts DEF NoNewLink, TreeOK
  <2>3. CASE MakeDir(r)
    <3>1. run[r].at \in Skills
      BY <2>0, <2>3 DEF MakeDir
    <3> QED
      BY <2>3, <3>1 DEF MakeDir, NoNewLink, TreeOK
  <2>4. CASE CutSkill(r)
    <3>1. place' = place
          /\ (file' = file \/ file' = [file EXCEPT ![run[r].at] = "empty"])
      BY <2>4 DEF CutSkill, PutSkill
    <3> QED
      BY <3>1 DEF NoNewLink, TreeOK
  <2>5. CASE FillSkill(r)
    <3>1. place' = place
          /\ (file' = file \/ file' = [file EXCEPT ![run[r].at] = "bundled"])
      BY <2>5 DEF FillSkill, PutSkill
    <3> QED
      BY <3>1 DEF NoNewLink, TreeOK
  <2> QED
    BY <1>2, <2>1, <2>2, <2>3, <2>4, <2>5 DEF SkillStep
<1>3. \/ UNCHANGED <<place, file>>
      \/ \E r \in Runs : SkillStep(r)
  BY DEF Next, vars, skillVars, Start, SettingsStep, ReadSettings, CutBackup, FillBackup,
         CutSettings, FillSettings, DaemonStep, WritePlist, UnloadAgent, LoadAgent, ListAgent,
         Stop, Save
<1> QED
  BY <1>1, <1>2, <1>3

\* A run that is not on its way to a SKILL.md has nothing to know of it.
LEMMA LookedElsewhere ==
  ASSUME NEW r \in Runs,
         run'[r].pc \notin {"unlink", "copy", "mkdir", "cut skill", "fill skill"}
  PROVE  LookedFor(r)'
BY DEF LookedFor

LEMMA LookedStep == Inv /\ Inv' /\ Looked /\ [Next]_vars => Looked'
<1> SUFFICES ASSUME Inv, Inv', Looked, [Next]_vars PROVE Looked'
  OBVIOUS
<1> DEFINE AtSkill == {"unlink", "copy", "mkdir", "cut skill", "fill skill"}
<1>1. CASE UNCHANGED vars
  BY <1>1 DEF vars, skillVars, Looked, LookedFor, Through
<1>2. ASSUME NEW s \in Skills, DevkitLinks(s)
      PROVE  Looked'
  <2>1. \A q \in Runs : Onlooker(q) /\ (run'[q].fresh => run[q].at # s \/ InSettings(q))
    BY <1>2, LinksMoves DEF Inv
  <2>2. \A x \in Skills : x # s => NoNewLink(x)
    BY <1>2 DEF DevkitLinks, Inv, TreeOK, NoNewLink
  <2>3. \A q \in Runs : LookedFor(q)'
    BY <2>1, <2>2, LookedKept
  <2> QED
    BY <2>3 DEF Looked
<1>3. ASSUME ~\E s \in Skills : DevkitLinks(s), Save
      PROVE  Looked'
  <2>1. \A q \in Runs : Onlooker(q)
    BY <1>3, SaveMoves DEF NoEditorFresh, Inv
  <2>2. \A q \in Runs : LookedFor(q)'
    BY <1>3, <2>1, OnlyDevkitLinks, LookedKept
  <2> QED
    BY <2>2 DEF Looked
<1>4. ASSUME ~\E s \in Skills : DevkitLinks(s), NEW r \in Runs,
             LookedFor(r)', \A q \in Runs : q # r => Onlooker(q)
      PROVE  Looked'
  <2>1. \A q \in Runs : q # r => LookedFor(q)'
    BY <1>4, OnlyDevkitLinks, LookedKept
  <2> QED
    BY <1>4, <2>1 DEF Looked
<1>5. ASSUME ~\E s \in Skills : DevkitLinks(s), NEW r \in Runs,
             Start(r) \/ SettingsStep(r) \/ DaemonStep(r) \/ Stop(r)
      PROVE  Looked'
  <2>1. CASE Start(r)
    <3>1. run'[r].pc \notin AtSkill /\ \A q \in Runs : q # r => Onlooker(q)
      BY <2>1, StartMoves DEF Inv
    <3> QED
      BY <1>4, <1>5, <3>1, LookedElsewhere
  <2>2. CASE ReadSettings(r)
    <3>1. run'[r].pc \in {AfterRules(r), "cut", "cut backup"}
          /\ \A q \in Runs : q # r => Onlooker(q)
      BY <2>2, ReadMoves DEF Inv, Onlooker
    <3>2. AfterRules(r) \in {"classify", "done"}
      BY DEF AfterRules
    <3> QED
      BY <1>4, <1>5, <3>1, <3>2, LookedElsewhere
  <2>3. CASE SettingsStep(r) /\ ~ReadSettings(r)
    <3>1. run'[r].pc \notin AtSkill /\ \A q \in Runs : q # r => Onlooker(q)
      BY <2>3, WritesMove DEF SettingsStep, GoesTo, Inv
    <3> QED
      BY <1>4, <1>5, <3>1, LookedElsewhere
  <2>4. CASE DaemonStep(r)
    <3>1. run'[r].pc \notin AtSkill /\ \A q \in Runs : q # r => Onlooker(q)
      BY <2>4, DaemonMoves DEF GoesTo, Inv
    <3> QED
      BY <1>4, <1>5, <3>1, LookedElsewhere
  <2>5. CASE Stop(r)
    <3>1. run'[r].pc \notin AtSkill /\ \A q \in Runs : q # r => Onlooker(q)
      BY <2>5, StopMoves DEF GoesTo, Inv
    <3> QED
      BY <1>4, <1>5, <3>1, LookedElsewhere
  <2> QED
    BY <1>5, <2>1, <2>2, <2>3, <2>4, <2>5
<1>6. ASSUME ~\E s \in Skills : DevkitLinks(s), NEW r \in Runs, SkillStep(r)
      PROVE  Looked'
  <2>0. /\ run[r].pc # "done" => run[r].at \in Skills
        /\ LookedFor(r)
    BY DEF Inv, RunsOK, ProcessOK, Looked
  <2>1. CASE Classify(r)
    <3>1. UNCHANGED <<place, file>>
      BY <2>1 DEF Classify, skillVars
    <3>2. \A q \in Runs : q # r => Onlooker(q)
      BY <2>1, ClassifyMoves DEF Inv, Onlooker
    <3>3. CASE SkillOver(r)
      BY <1>4, <1>6, <3>2, <3>3, LookedElsewhere DEF SkillOver
    <3>4. CASE ~SkillOver(r)
      <4>1. /\ run'[r].at = run[r].at /\ run[r].at \in Skills
            /\ run'[r].verdict = Verdict(run[r].at)
            /\ \/ run'[r].pc = "mkdir" /\ Verdict(run[r].at) = "absent"
               \/ run'[r].pc = "copy" /\ Verdict(run[r].at) = "stale"
               \/ run'[r].pc = "unlink" /\ Verdict(run[r].at) \in {"dir link", "file link"}
        BY <2>1, <3>4, ClassifyMoves DEF Inv
      <4>2. /\ Verdict(run[r].at) \in {"absent", "stale"} => ~Through(run[r].at)
            /\ Verdict(run[r].at) = "file link" => place[run[r].at] # "link"
        BY <4>1 DEF Verdict, Through, Inv, TreeOK
      <4>3. LookedFor(r)'
        BY <3>1, <4>1, <4>2 DEF LookedFor, Through
      <4> QED
        BY <1>4, <1>6, <3>2, <4>3
    <3> QED
      BY <3>3, <3>4
  <2>2. CASE CopySkill(r)
    <3>1. GoesTo(r, "mkdir") /\ run[r].pc = "copy" /\ UNCHANGED <<place, file>>
      BY <2>2, GotoMoves DEF CopySkill, Inv, Pcs
    <3>2. LookedFor(r)'
      BY <2>0, <3>1 DEF LookedFor, GoesTo, Through
    <3> QED
      BY <1>4, <1>6, <3>1, <3>2 DEF GoesTo
  <2>3. CASE Unlink(r)
    <3>1. PICK l \in {"mkdir", "failed"} : GoesTo(r, l)
      BY <2>3, UnlinkMoves DEF Inv
    <3>2. CASE l = "failed"
      BY <1>4, <1>6, <3>1, <3>2, LookedElsewhere DEF GoesTo
    <3>3. CASE l = "mkdir"
      <4>1. PICK s \in Skills : s = run[r].at /\ run'[r].at = s
        BY <2>3, <3>1, UnlinkFacts DEF GoesTo, Inv
      <4>2. run[r].pc = "unlink" /\ run'[r].pc = "mkdir" /\ run'[r].fresh = run[r].fresh
        BY <2>3, <3>1, <3>3, UnlinkFacts DEF GoesTo, Inv
      <4>3. run[r].fresh => ~Through(s)'
        <5>1. TreeOK /\ TreeOK' /\ LookedFor(r)
          BY <2>0 DEF Inv
        <5>2. \/ run[r].verdict = "dir link" /\ place' = [place EXCEPT ![s] = "absent"]
              \/ run[r].verdict # "dir link" /\ place[s] = "link"
              \/ /\ run[r].verdict # "dir link" /\ place' = place
                 /\ place[s] = "dir" /\ file' = [file EXCEPT ![s] = "absent"]
          BY <2>3, <4>1, <4>2, UnlinkFacts DEF Inv
        <5>3. CASE place' = [place EXCEPT ![s] = "absent"]
          BY <5>1, <5>3 DEF TreeOK, Through
        <5>4. CASE run[r].verdict # "dir link" /\ place[s] = "link"
          BY <4>1, <4>2, <5>1, <5>4 DEF LookedFor
        <5>5. CASE place' = place /\ place[s] = "dir" /\ file' = [file EXCEPT ![s] = "absent"]
          BY <5>1, <5>5 DEF TreeOK, Through
        <5> QED
          BY <5>2, <5>3, <5>4, <5>5
      <4>4. LookedFor(r)'
        BY <4>1, <4>2, <4>3 DEF LookedFor
      <4> QED
        BY <1>4, <1>6, <3>1, <4>4 DEF GoesTo
    <3> QED
      BY <3>2, <3>3
  <2>4. CASE MakeDir(r)
    <3>1. GoesTo(r, "cut skill") /\ run[r].pc = "mkdir"
      BY <2>4, GotoMoves DEF MakeDir, Inv, Pcs
    <3>2. PICK s \in Skills : s = run[r].at /\ run'[r].at = s
      BY <2>0, <3>1 DEF GoesTo
    <3>3. ~Through(s) => ~Through(s)'
      BY <1>6, OnlyDevkitLinks, NoLinkMade DEF Inv
    <3>4. run[r].fresh => ~Through(s)
      BY <2>0, <3>1, <3>2 DEF LookedFor
    <3>5. LookedFor(r)'
      BY <3>1, <3>2, <3>3, <3>4 DEF LookedFor, GoesTo
    <3> QED
      BY <1>4, <1>6, <3>1, <3>5 DEF GoesTo
  <2>5. CASE CutSkill(r)
    <3>1. run[r].pc = "cut skill" /\ \A q \in Runs : q # r => Onlooker(q)
      BY <2>5, CutSkillMoves DEF CutSkill, Inv, Onlooker
    <3>2. /\ run'[r].fresh = run[r].fresh
          /\ \/ run'[r].pc = "failed"
             \/ /\ run'[r].pc = "fill skill"
                /\ ~Through(run[r].at) => run'[r].opened = "own"
      BY <2>5, CutSkillMoves DEF Inv
    <3>3. LookedFor(r)'
      BY <2>0, <3>1, <3>2 DEF LookedFor
    <3> QED
      BY <1>4, <1>6, <3>1, <3>3
  <2>6. CASE FillSkill(r)
    <3>1. SkillOver(r)
      BY <2>6, NextSkillMoves DEF FillSkill, Inv
    <3> QED
      BY <1>4, <1>6, <3>1, LookedElsewhere DEF SkillOver
  <2> QED
    BY <1>6, <2>1, <2>2, <2>3, <2>4, <2>5, <2>6 DEF SkillStep
<1> QED
  BY <1>1, <1>2, <1>3, <1>5, <1>6 DEF Next

LEMMA InitLooked == Init => Looked
<1>1. Idle.pc = "unborn"
  BY DEF Idle
<1> QED
  BY <1>1 DEF Init, Looked, LookedFor

\* A write to devkit's file is by a run for which devkit's link is news.
LEMMA DevkitStep ==
  ASSUME Inv, Looked, [Next]_vars, NEW s \in Skills, devkit'[s] # devkit[s]
  PROVE  \E r \in Runs : run[r].at = s /\ Working(r) /\ ~run[r].fresh
<1>1. \E r \in Runs : Unlink(r) \/ CutSkill(r) \/ FillSkill(r)
  BY DEF Next, vars, skillVars, SkillStep, Classify, CopySkill, MakeDir, Start, SettingsStep,
         ReadSettings, CutBackup, FillBackup, CutSettings, FillSettings, DaemonStep,
         WritePlist, UnloadAgent, LoadAgent, ListAgent, Stop, Save, DevkitLinks
<1>2. PICK r \in Runs : Unlink(r) \/ CutSkill(r) \/ FillSkill(r)
  BY <1>1
<1>3. LookedFor(r) /\ devkit \in [Skills -> Contents] /\ run[r] \in Process
  BY DEF Looked, Inv, TreeOK, RunsOK
<1>4. Working(r)
  BY <1>2 DEF Unlink, CutSkill, FillSkill, Working
<1>5. CASE Unlink(r)
  <2>1. /\ run[r].pc = "unlink"
        /\ run[r].verdict # "dir link" /\ place[run[r].at] = "link"
        /\ devkit' = [devkit EXCEPT ![run[r].at] = "absent"]
    BY <1>5, UnlinkFacts DEF Inv
  <2> QED
    BY <1>3, <1>4, <2>1 DEF LookedFor
<1>6. CASE CutSkill(r)
  <2>1. /\ run[r].pc = "cut skill" /\ Through(run[r].at)
        /\ devkit' = [devkit EXCEPT ![run[r].at] = "empty"]
    BY <1>6 DEF CutSkill, PutSkill
  <2> QED
    BY <1>3, <1>4, <2>1 DEF LookedFor
<1>7. CASE FillSkill(r)
  <2>1. /\ run[r].pc = "fill skill" /\ run[r].opened = "devkit"
        /\ devkit' = [devkit EXCEPT ![run[r].at] = "bundled"]
    BY <1>7 DEF FillSkill, PutSkill
  <2> QED
    BY <1>3, <1>4, <2>1 DEF LookedFor
<1> QED
  BY <1>2, <1>5, <1>6, <1>7

\* devkit's own file is written by no run, forced or not, unless devkit linked
\* the skill after that run looked at it: classify and the write that follows
\* see the same place, whatever other runs do in between.
THEOREM DevkitSafe == Spec => DevkitUntouched
<1>1. Spec => [](Inv /\ Looked)
  BY InitInv, InvStep, InitLooked, LookedStep, PTL DEF Spec
<1>2. Inv /\ Looked /\ [Next]_vars =>
        [\A s \in Skills : devkit'[s] # devkit[s] =>
           \E r \in Runs : run[r].at = s /\ Working(r) /\ ~run[r].fresh]_vars
  BY DevkitStep
<1> QED
  BY <1>1, <1>2, PTL DEF Spec, DevkitUntouched

-----------------------------------------------------------------------------
(* settings.json.                                                           *)

\* A run that has read settings.json, is about to write, and is not out of date.
Editing(r) == run[r].fresh /\ InSettings(r) /\ run[r].pc # "read"

\* What such a run finds in the files.
CurrentFor(r) ==
  Editing(r) =>
    /\ run[r].pc # "fill" => settings = run[r].seen
    /\ run[r].pc = "fill" => settings = Bare("empty")
    /\ run[r].pc \in {"cut", "fill"} => run[r].seen.text = "absent" \/ backup = run[r].seen

Current == \A r \in Runs : CurrentFor(r)

\* Nobody's work is at risk yet: the user's text is in settings.json, or in the
\* .bak of a file that has been emptied, and in the hands of every such run.
UserKept ==
  ~excused /\ version > 0 =>
    /\ settings.user = version \/ (settings.text = "empty" /\ backup.user = version)
    /\ \A r \in Runs : Editing(r) => run[r].seen.user = version

HasAll(f, c) == \A k \in Wants(c) : f.rules[k] = 1

\* The same for the rules that runs have reported to be in place.
RulesKept ==
  ~excused => \A q \in acked :
    /\ HasAll(settings, run[q].cmd) \/ (settings.text = "empty" /\ HasAll(backup, run[q].cmd))
    /\ \A r \in Runs : Editing(r) => HasAll(run[r].seen, run[q].cmd)

AckedRan == \A q \in acked : run[q].pc # "unborn"

TextOK == Current /\ UserKept /\ RulesKept /\ AckedRan

\* Through the steps that have nothing to do with settings.json.
LEMMA OnlookerEdits ==
  ASSUME NEW q, Onlooker(q)
  PROVE  /\ Editing(q)' => Editing(q) /\ run'[q].seen = run[q].seen /\ run'[q].pc = run[q].pc
         /\ run'[q].cmd = run[q].cmd
         /\ run[q].pc # "unborn" => run'[q].pc # "unborn"
BY DEF Onlooker, Editing, InSettings

\* How the step of one process looks from settings.json.
Aside(q) ==
  /\ Editing(q)' => Editing(q) /\ run'[q].seen = run[q].seen /\ run'[q].pc = run[q].pc
  /\ run[q].pc # "unborn" => run'[q].cmd = run[q].cmd /\ run'[q].pc # "unborn"

LEMMA QuietStep ==
  ASSUME Inv, [Next]_vars, ~Save, ~\E r \in Runs : SettingsStep(r)
  PROVE  UNCHANGED settingsVars /\ \A q \in Runs : Aside(q)
<1> USE DEF Inv
<1>1. UNCHANGED settingsVars
  BY DEF Next, vars, Start, SkillStep, Classify, CopySkill, Unlink, MakeDir,
         CutSkill, FillSkill, DaemonStep, WritePlist, UnloadAgent, LoadAgent, ListAgent,
         Stop, DevkitLinks
<1>2. CASE UNCHANGED vars
  BY <1>1, <1>2 DEF vars, Aside, Editing, InSettings
<1>3. CASE \E s \in Skills : DevkitLinks(s)
  BY <1>1, <1>3, LinksMoves, OnlookerEdits DEF Aside
<1>4. ASSUME NEW r \in Runs, \A q \in Runs : q # r => Onlooker(q),
             run'[r].pc \notin {"unborn", "cut backup", "fill backup", "cut", "fill"},
             run[r].pc # "unborn" => run'[r].cmd = run[r].cmd
      PROVE  \A q \in Runs : Aside(q)
  <2>1. \A q \in Runs : q # r => Aside(q)
    BY <1>4, OnlookerEdits DEF Aside
  <2>2. Aside(r)
    BY <1>4 DEF Aside, Editing, InSettings
  <2> QED
    BY <2>1, <2>2
<1>5. ASSUME NEW r \in Runs, Start(r) \/ DaemonStep(r) \/ Stop(r)
      PROVE  \A q \in Runs : Aside(q)
  <2>1. CASE Start(r)
    <3>1. run[r].pc = "unborn"
      BY <2>1 DEF Start
    <3> QED
      BY <1>4, <2>1, <3>1, StartMoves
  <2>2. CASE DaemonStep(r)
    BY <1>4, <2>2, DaemonMoves DEF GoesTo
  <2>3. CASE Stop(r)
    BY <1>4, <2>3, StopMoves DEF GoesTo
  <2> QED
    BY <1>5, <2>1, <2>2, <2>3
<1>6. ASSUME NEW r \in Runs, SkillStep(r)
      PROVE  \A q \in Runs : Aside(q)
  <2>1. CASE Classify(r)
    <3>1. run'[r].pc \in {"done", "classify", "mkdir", "copy", "unlink"}
      BY <2>1, ClassifyMoves DEF SkillOver
    <3> QED
      BY <1>4, <2>1, <3>1, ClassifyMoves DEF Onlooker
  <2>2. CASE CopySkill(r)
    <3>1. GoesTo(r, "mkdir")
      BY <2>2, GotoMoves DEF CopySkill, Pcs
    <3> QED
      BY <1>4, <3>1 DEF GoesTo
  <2>3. CASE Unlink(r)
    BY <1>4, <2>3, UnlinkMoves DEF GoesTo
  <2>4. CASE MakeDir(r)
    <3>1. GoesTo(r, "cut skill")
      BY <2>4, GotoMoves DEF MakeDir, Pcs
    <3> QED
      BY <1>4, <3>1 DEF GoesTo
  <2>5. CASE CutSkill(r)
    BY <1>4, <2>5, CutSkillMoves DEF Onlooker
  <2>6. CASE FillSkill(r)
    BY <1>4, <2>6, NextSkillMoves DEF FillSkill, SkillOver
  <2> QED
    BY <1>6, <2>1, <2>2, <2>3, <2>4, <2>5, <2>6 DEF SkillStep
<1> QED
  BY <1>1, <1>2, <1>3, <1>5, <1>6 DEF Next

LEMMA QuietText ==
  ASSUME TextOK, RestOK, UNCHANGED settingsVars, \A q \in Runs : Aside(q)
  PROVE  TextOK'
<1> USE DEF TextOK
<1>0. UNCHANGED <<settings, backup, version, excused, acked>>
  BY DEF settingsVars
<1>1. Current'
  <2>1. ASSUME NEW r \in Runs PROVE CurrentFor(r)'
    BY <1>0 DEF Current, CurrentFor, Aside
  <2> QED
    BY <2>1 DEF Current
<1>2. UserKept'
  BY <1>0 DEF UserKept, Aside
<1>3. \A q \in acked : run'[q].cmd = run[q].cmd /\ run'[q].pc # "unborn"
  BY DEF AckedRan, Aside, RestOK
<1>4. AckedRan'
  BY <1>0, <1>3 DEF AckedRan
<1>5. RulesKept'
  BY <1>0, <1>3 DEF RulesKept, Aside, HasAll
<1> QED
  BY <1>1, <1>2, <1>4, <1>5

\* Rules that are there once are there once in what a merge of them makes.
LEMMA AllStay ==
  ASSUME NEW f, Whole(f), NEW want \in SUBSET Rules, NEW c, HasAll(f, c)
  PROVE  HasAll(Merged(f, want), c)
BY MergedFacts, WantsRules DEF HasAll

\* A file that is missing or empty has all rules of a command that asks for none.
LEMMA NothingAsked ==
  ASSUME NEW f, Whole(f), f.text \in {"absent", "empty"}, NEW c, HasAll(f, c)
  PROVE  Wants(c) = {}
<1>1. \A k \in Rules : f.rules[k] = 0
  BY DEF Whole, NoRules
<1> QED
  BY <1>1, WantsRules DEF HasAll

\* A save makes every run that has read the file out of date, and the rules it
\* takes out are forgotten.
LEMMA SaveText ==
  ASSUME Inv, TextOK, Save
  PROVE  TextOK'
<1> USE DEF Inv, TextOK
<1>1. /\ Whole(settings') /\ settings'.user = version'
      /\ acked' = {q \in acked : Missing(settings', Wants(run[q].cmd)) = {}}
  BY SaveFacts
<1>2. \A q \in Runs : NoEditorFresh(q)
  BY SaveMoves
<1>3. \A q \in Runs : ~Editing(q)'
  BY <1>2 DEF NoEditorFresh, Onlooker, Editing, InSettings
<1>4. \A q \in Runs : run'[q].cmd = run[q].cmd /\ run'[q].pc = run[q].pc
  BY <1>2 DEF NoEditorFresh, Onlooker
<1>5. Current'
  BY <1>3 DEF Current, CurrentFor
<1>6. UserKept'
  BY <1>1, <1>3 DEF UserKept
<1>7. acked' \subseteq acked /\ acked \subseteq Runs
  BY <1>1 DEF RestOK
<1>8. AckedRan'
  BY <1>4, <1>7 DEF AckedRan
<1>9. ASSUME NEW q \in acked' PROVE HasAll(settings', run'[q].cmd)
  <2>1. q \in Runs /\ Missing(settings', Wants(run[q].cmd)) = {}
    BY <1>1, <1>7
  <2>2. \A k \in Wants(run[q].cmd) : settings'.rules[k] # 0 /\ k \in Rules
    BY <2>1, WantsRules DEF Missing
  <2>3. \A k \in Rules : settings'.rules[k] \in 0 .. 2 /\ settings'.rules[k] <= 1
    BY <1>1 DEF Whole, Settings
  <2>4. \A k \in Wants(run[q].cmd) : settings'.rules[k] = 1
    BY <2>2, <2>3
  <2> QED
    BY <1>4, <2>1, <2>4 DEF HasAll
<1>10. RulesKept'
  BY <1>3, <1>9 DEF RulesKept
<1> QED
  BY <1>5, <1>6, <1>8, <1>10

\* A read of a file in which somebody's work has just been emptied away is at
\* risk; any other finds the text and the rules there.
LEMMA ReadText ==
  ASSUME Inv, TextOK, NEW r \in Runs, ReadSettings(r)
  PROVE  TextOK'
<1> USE DEF Inv, TextOK
<1> DEFINE want == Wants(run[r].cmd)
           ok   == ~Refused(Parsed(settings), want)
           todo == Missing(Parsed(settings), want) # {}
<1>1. /\ UNCHANGED <<settings, backup, version>>
      /\ excused' = (excused \/ (settings.text = "empty" /\ (version > 0 \/ acked # {})))
      /\ acked' = IF ok /\ ~todo THEN acked \cup {r} ELSE acked
      /\ run[r].pc = "read"
  BY DEF ReadSettings
<1>2. /\ run'[r].seen = settings /\ run'[r].fresh /\ run'[r].cmd = run[r].cmd
      /\ run'[r].pc = IF ~ok \/ ~todo THEN AfterRules(r)
                      ELSE IF settings.text = "absent" THEN "cut" ELSE "cut backup"
      /\ \A q \in Runs : q # r => run'[q] = run[q]
  BY ReadMoves
<1>3. AfterRules(r) \in {"classify", "done"}
  BY DEF AfterRules
<1>4. \A q \in Runs : q # r /\ Editing(q)' => Editing(q)
  BY <1>2 DEF Editing, InSettings
<1>5. /\ Editing(r)' => ok /\ todo
      /\ ok /\ todo => run'[r].pc \in {"cut", "cut backup"}
      /\ run'[r].pc = "cut" => settings.text = "absent"
      /\ run'[r].pc # "fill" /\ run'[r].pc # "unborn"
  BY <1>2, <1>3 DEF Editing, InSettings
<1>6. Current'
  <2>1. \A q \in Runs : q # r => CurrentFor(q)'
    BY <1>1, <1>2, <1>4 DEF Current, CurrentFor
  <2>2. CurrentFor(r)'
    BY <1>1, <1>2, <1>5 DEF CurrentFor
  <2> QED
    BY <2>1, <2>2 DEF Current
<1>7. \A q \in Runs : run'[q].cmd = run[q].cmd
  BY <1>2
<1>8. AckedRan'
  <2>1. \A q \in acked' : q = r \/ (q \in acked /\ q \in Runs)
    BY <1>1 DEF RestOK
  <2> QED
    BY <1>2, <1>5, <2>1 DEF AckedRan
<1>9. ~excused' => ~excused
  BY <1>1
<1>10. UserKept'
  <2>1. ASSUME ~excused', version' > 0
        PROVE  settings.user = version
    BY <1>1, <2>1 DEF UserKept
  <2>2. ASSUME ~excused', version' > 0, NEW q \in Runs, Editing(q)'
        PROVE  run'[q].seen.user = version
    <3>1. CASE q = r
      BY <1>2, <2>1, <2>2, <3>1
    <3>2. CASE q # r
      BY <1>1, <1>2, <1>4, <2>2, <3>2 DEF UserKept
    <3> QED
      BY <3>1, <3>2
  <2> QED
    BY <1>1, <2>1, <2>2 DEF UserKept
<1>11. CASE settings.text = "empty" /\ ok /\ ~todo
  <2>1. want \in SUBSET Rules
    BY WantsRules
  <2>2. \A k \in want : settings.rules[k] = 1
    BY <1>11, <2>1, NothingMissing DEF FilesOK
  <2>3. HasAll(settings, run[r].cmd)
    BY <2>2 DEF HasAll
  <2>4. want = {}
    BY <1>11, <2>3, NothingAsked DEF FilesOK
  <2>5. \A f : HasAll(f, run[r].cmd)
    BY <2>4 DEF HasAll
  <2>6. RulesKept'
    <3>1. ASSUME ~excused', NEW q \in acked'
          PROVE  q = r
      BY <1>1, <1>11, <3>1
    <3> QED
      BY <1>7, <2>5, <3>1 DEF RulesKept
  <2> QED
    BY <1>6, <1>8, <1>10, <2>6
<1>12. CASE settings.text # "empty" /\ ok /\ ~todo
  <2>1. want \in SUBSET Rules
    BY WantsRules
  <2>2. \A k \in want : settings.rules[k] = 1
    BY <1>12, <2>1, NothingMissing DEF FilesOK
  <2>3. HasAll(settings, run[r].cmd)
    BY <2>2 DEF HasAll
  <2>4. ASSUME ~excused', NEW q \in Runs, Editing(q)'
        PROVE  HasAll(run'[q].seen, run[r].cmd)
    <3>1. q # r /\ Editing(q) /\ run'[q] = run[q]
      BY <1>2, <1>4, <1>5, <1>12, <2>4
    <3>2. settings = run[q].seen
      <4>1. run[q].pc # "fill"
        BY <1>12, <3>1, BareWhole DEF Current, CurrentFor
      <4> QED
        BY <3>1, <4>1 DEF Current, CurrentFor
    <3> QED
      BY <2>3, <3>1, <3>2
  <2>5. RulesKept'
    <3>1. ASSUME ~excused', NEW q \in acked'
          PROVE  /\ HasAll(settings, run[q].cmd)
                 /\ \A x \in Runs : Editing(x)' => HasAll(run'[x].seen, run[q].cmd)
      <4>1. CASE q = r
        BY <2>3, <2>4, <3>1, <4>1
      <4>2. CASE q # r
        <5>1. q \in acked /\ ~excused
          BY <1>1, <3>1, <4>2
        <5>2. \A x \in Runs : Editing(x)' => x # r /\ Editing(x) /\ run'[x] = run[x]
          BY <1>2, <1>4, <1>5, <1>12
        <5> QED
          BY <1>12, <5>1, <5>2 DEF RulesKept
      <4> QED
        BY <4>1, <4>2
    <3>2. \A q \in acked' : q \in Runs
      BY <1>1 DEF RestOK
    <3> QED
      BY <1>1, <1>7, <3>1, <3>2 DEF RulesKept
  <2> QED
    BY <1>6, <1>8, <1>10, <2>5
<1>13. CASE ~(ok /\ ~todo)
  <2>1. acked' = acked /\ acked \subseteq Runs
    BY <1>1, <1>13 DEF RestOK
  <2>2. ASSUME ~excused', NEW q \in acked
        PROVE  /\ HasAll(settings, run[q].cmd)
               /\ \A x \in Runs : Editing(x)' => HasAll(run'[x].seen, run[q].cmd)
    <3>1. ~excused /\ settings.text # "empty"
      BY <1>1, <2>2
    <3>2. HasAll(settings, run[q].cmd)
      BY <2>2, <3>1 DEF RulesKept
    <3>3. ASSUME NEW x \in Runs, Editing(x)' PROVE HasAll(run'[x].seen, run[q].cmd)
      <4>1. CASE x = r
        BY <1>2, <3>2, <4>1
      <4>2. CASE x # r
        BY <1>2, <1>4, <2>2, <3>1, <3>3, <4>2 DEF RulesKept
      <4> QED
        BY <4>1, <4>2
    <3> QED
      BY <3>2, <3>3
  <2>3. RulesKept'
    BY <1>1, <1>7, <2>1, <2>2 DEF RulesKept
  <2> QED
    BY <1>6, <1>8, <1>10, <2>3
<1> QED
  BY <1>11, <1>12, <1>13

\* A write by a run that is up to date leaves the text and the rules where the
\* next step, or the next run, finds them; any other write is a risk.
LEMMA WriteText ==
  ASSUME Inv, TextOK, NEW r \in Runs,
         CutBackup(r) \/ FillBackup(r) \/ CutSettings(r) \/ FillSettings(r)
  PROVE  TextOK'
<1> USE DEF Inv, TextOK
<1>1. /\ excused' = (excused \/ ~run[r].fresh)
      /\ version' = version
      /\ InSettings(r) /\ run[r].pc # "read"
  BY WritesMove
<1>2. \A q \in Runs : q # r => ~Editing(q)'
  BY WritesMove DEF NoEditorFresh, Onlooker, Editing, InSettings
<1>3. /\ run'[r].seen = run[r].seen /\ run'[r].fresh = run[r].fresh
      /\ run'[r].cmd = run[r].cmd
      /\ \A q \in Runs : q # r => run'[q].cmd = run[q].cmd /\ run'[q].pc = run[q].pc
  BY WritesMove DEF GoesTo, NoEditorFresh, Onlooker
<1>4. ~excused' => ~excused /\ Editing(r)
  BY <1>1 DEF Editing
<1>5. Editing(r)' => Editing(r)
  BY <1>1, <1>3 DEF Editing
<1>6. \A q \in Runs : run'[q].cmd = run[q].cmd
  BY <1>3
<1>7. Whole(run[r].seen) /\ acked \subseteq Runs
  BY DEF RunsOK, ProcessOK, RestOK
<1>8. UserKept => (~excused /\ version > 0 /\ Editing(r) => run[r].seen.user = version)
  BY DEF UserKept
<1>9. ~excused /\ Editing(r) =>
        \A q \in acked : HasAll(run[r].seen, run[q].cmd)
  BY DEF RulesKept
<1>10. CurrentFor(r)
  BY DEF Current
<1>11. CASE CutBackup(r) \/ FillBackup(r)
  <2>1. /\ UNCHANGED <<settings, acked>>
        /\ run[r].pc # "fill" /\ run'[r].pc \in {"fill backup", "cut"}
        /\ run'[r].pc = "cut" => backup' = run[r].seen
    BY <1>11, WritesMove DEF CutBackup, FillBackup, CutSettings, FillSettings, GoesTo
  <2>2. Editing(r) => settings = run[r].seen
    BY <1>10, <2>1 DEF CurrentFor
  <2>3. Current'
    <3>1. CurrentFor(r)'
      BY <1>3, <1>5, <2>1, <2>2 DEF CurrentFor
    <3> QED
      BY <1>2, <3>1 DEF Current, CurrentFor
  <2>4. UserKept'
    BY <1>1, <1>2, <1>3, <1>4, <1>8, <2>1, <2>2 DEF UserKept
  <2>5. AckedRan'
    BY <1>3, <1>7, <2>1 DEF AckedRan
  <2>6. RulesKept'
    <3>1. ASSUME ~excused', NEW q \in acked
          PROVE  HasAll(settings, run[q].cmd) /\ HasAll(run[r].seen, run[q].cmd)
      BY <1>4, <1>9, <2>2, <3>1
    <3> QED
      BY <1>2, <1>3, <1>6, <1>7, <2>1, <3>1 DEF RulesKept
  <2> QED
    BY <2>3, <2>4, <2>5, <2>6
<1>12. CASE CutSettings(r)
  <2>1. /\ UNCHANGED <<backup, acked>> /\ settings' = Bare("empty")
        /\ run[r].pc = "cut" /\ run'[r].pc = "fill"
    BY <1>12, WritesMove DEF CutBackup, FillBackup, CutSettings, FillSettings, GoesTo
  <2>2. Editing(r) => run[r].seen.text = "absent" \/ backup = run[r].seen
    BY <1>10, <2>1 DEF CurrentFor
  <2>3. settings'.text = "empty"
    BY <2>1, BareWhole
  <2>4. Current'
    <3>1. CurrentFor(r)'
      BY <1>3, <1>5, <2>1, <2>2 DEF CurrentFor
    <3> QED
      BY <1>2, <3>1 DEF Current, CurrentFor
  <2>5. UserKept'
    <3>1. ASSUME ~excused', version > 0
          PROVE  backup.user = version /\ run[r].seen.user = version
      <4>1. run[r].seen.user = version
        BY <1>4, <1>8, <3>1
      <4>2. run[r].seen.text # "absent"
        BY <1>7, <3>1, <4>1 DEF Whole
      <4> QED
        BY <1>4, <2>2, <3>1, <4>1, <4>2
    <3> QED
      BY <1>1, <1>2, <1>3, <2>1, <2>3, <3>1 DEF UserKept
  <2>6. AckedRan'
    <3>1. r \notin acked \/ run[r].pc # "unborn"
      BY <2>1
    <3> QED
      BY <1>3, <1>7, <2>1, <3>1 DEF AckedRan
  <2>7. RulesKept'
    <3>1. ASSUME ~excused', NEW q \in acked
          PROVE  HasAll(backup, run[q].cmd) /\ HasAll(run[r].seen, run[q].cmd)
      <4>1. HasAll(run[r].seen, run[q].cmd)
        BY <1>4, <1>9, <3>1
      <4>2. CASE run[r].seen.text = "absent"
        <5>1. Wants(run[q].cmd) = {}
          BY <1>7, <4>1, <4>2, NothingAsked
        <5> QED
          BY <4>1, <5>1 DEF HasAll
      <4>3. CASE backup = run[r].seen
        BY <4>1, <4>3
      <4> QED
        BY <1>4, <2>2, <3>1, <4>2, <4>3
    <3> QED
      BY <1>2, <1>3, <1>6, <1>7, <2>1, <2>3, <3>1 DEF RulesKept
  <2> QED
    BY <2>4, <2>5, <2>6, <2>7
<1>13. CASE FillSettings(r)
  <2> DEFINE new == Merged(run[r].seen, Wants(run[r].cmd))
  <2>1. /\ backup' = backup /\ settings' = new /\ acked' = acked \cup {r}
        /\ run'[r].pc \in {"classify", "done"}
    BY <1>13, WritesMove DEF CutBackup, FillBackup, CutSettings, FillSettings, GoesTo
  <2>2. \A q \in Runs : ~Editing(q)'
    BY <1>2, <2>1 DEF Editing, InSettings
  <2>3. new.user = run[r].seen.user /\ HasAll(new, run[r].cmd)
    BY <1>7, MergedFacts, WantsRules DEF HasAll
  <2>4. \A c : HasAll(run[r].seen, c) => HasAll(new, c)
    BY <1>7, AllStay, WantsRules
  <2> HIDE DEF new
  <2>5. Current'
    BY <2>2 DEF Current, CurrentFor
  <2>6. UserKept'
    BY <1>1, <1>4, <1>8, <2>1, <2>2, <2>3 DEF UserKept
  <2>7. AckedRan'
    BY <1>3, <1>7, <2>1 DEF AckedRan
  <2>8. RulesKept'
    <3>1. ASSUME ~excused', NEW q \in acked'
          PROVE  HasAll(new, run[q].cmd)
      BY <1>4, <1>9, <2>1, <2>3, <2>4, <3>1
    <3> QED
      BY <1>6, <1>7, <2>1, <2>2, <3>1 DEF RulesKept
  <2> QED
    BY <2>5, <2>6, <2>7, <2>8
<1> QED
  BY <1>11, <1>12, <1>13

LEMMA TextStep == Inv /\ TextOK /\ [Next]_vars => TextOK'
<1> SUFFICES ASSUME Inv, TextOK, [Next]_vars PROVE TextOK'
  OBVIOUS
<1>1. CASE Save
  BY <1>1, SaveText
<1>2. ASSUME NEW r \in Runs, SettingsStep(r) PROVE TextOK'
  BY <1>2, ReadText, WriteText DEF SettingsStep
<1>3. CASE ~Save /\ ~\E r \in Runs : SettingsStep(r)
  BY <1>3, QuietStep, QuietText DEF Inv
<1> QED
  BY <1>1, <1>2, <1>3

LEMMA InitText == Init => TextOK
<1> SUFFICES ASSUME Init PROVE TextOK
  OBVIOUS
<1>1. Idle.pc = "unborn"
  BY DEF Idle
<1>2. \A r \in Runs : ~Editing(r)
  BY <1>1 DEF Init, Editing, InSettings
<1> QED
  BY <1>2 DEF Init, TextOK, Current, CurrentFor, UserKept, RulesKept, AckedRan

LEMMA TextAlways == Spec => [](Inv /\ TextOK)
BY InitInv, InvStep, InitText, TextStep, PTL DEF Spec

\* What the user last saved is in settings.json, or in the .bak of a file that a
\* run has just emptied, wherever a run is killed: as long as no run has written
\* on the strength of an old read, or read a file while another was writing it.
THEOREM UserTextSafe == Spec => []UserTextKept
<1>1. Inv /\ TextOK => UserTextKept
  BY DEF TextOK, UserKept, UserTextKept
<1> QED
  BY <1>1, TextAlways, PTL

\* A run that reported its rules to be in place is right until the user takes
\* them out, under the same proviso: they are all in settings.json, or in the
\* .bak of a file that has just been emptied.
THEOREM AckedRulesSafe == Spec => []AckedRulesHold
<1>1. Inv /\ TextOK => AckedRulesHold
  BY DEF TextOK, RulesKept, AckedRulesHold, HasAll, Holds
<1> QED
  BY <1>1, TextAlways, PTL
=============================================================================
