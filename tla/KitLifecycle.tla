------------------------------ MODULE KitLifecycle ------------------------------
(***************************************************************************)
(* The lifecycle scripts, scripts/kit-*.mjs and agent-brain-lesson.mjs,    *)
(* over the files of scripts/kitbuilder-core.mjs.  Every script is a       *)
(* process of its own; several run at once on the same files, without      *)
(* locks, and each may be killed between two of its steps.  A step is what *)
(* a script does up to an await that other processes can notice.           *)
(*                                                                         *)
(* writeFile() truncates a file and then fills it: in between, and for     *)
(* good if the script is killed there, the file is Torn.  A script that    *)
(* fills it when another one has done so already writes over what is       *)
(* there from the start, and of a longer text the end stays: the file is   *)
(* Mixed, a text that no script wrote.  readJson() takes a torn and a      *)
(* mixed file for an absent one, as it does with all it cannot parse.      *)
(*                                                                         *)
(* There is one kit.  A lesson and a history entry are the number of the   *)
(* run that wrote them, 1 for what was found; a gate passes when its       *)
(* artifact is there.                                                      *)
(***************************************************************************)
EXTENDS Integers, Sequences, FiniteSets, SequencesExt

CONSTANTS
    Processes, Issues,
    Idle, Absent, Torn, Mixed, None,
    totalStates,            \* KIT_STATES.length, 20 in the code
    summarySize,            \* how many lessons the summary tells, 50 in the code
    Trees,                  \* what may be found: a record, artifacts and lessons
    IntakeGates,            \* the gates whose artifacts kit-intake writes
    ManifestGates,          \* the gates read from what kit-intake overwrites
    MaxRuns, MaxCrashes, MaxEdits    \* bounds

Gates == 1..totalStates
Teaching == {"lesson", "close --lesson"}
Closing == {"close", "close --lesson"}
Advancing == {"advance", "advance --auto"}
Scripts == Advancing \cup Closing \cup {"intake", "state", "new", "lesson"}

VARIABLES
    artifacts,      \* the gates whose artifact is in the tree
    files,          \* what is in the files the scripts write
    lessons,        \* lessons.jsonl
    processes,      \* [Processes -> the script a process runs, or Idle]
    runs, edits,    \* how many scripts have run, how many artifacts were edited
    crashes,        \* how many runs were killed
    saves,          \* history: how often the project record was saved
    saved,          \* history: the record as it was last saved
    created,        \* history: the issues that have been created
    contested,      \* history: issues that two runs were closing at once
    disputed,       \* history: those that one closed with a lesson and one without
    raced           \* history: the last lesson was not added in peace: another run was
                    \* at the lessons, or one was killed at them, or it was found

bounds == <<runs, edits, crashes>>
history == <<saves, saved, created, contested, disputed, raced>>
vars == <<artifacts, files, lessons, processes, bounds, history>>

ASSUME KitAssumption ==
    /\ totalStates \in Nat \ {0}
    /\ summarySize \in Nat \ {0}
    /\ IntakeGates \subseteq Gates /\ ManifestGates \subseteq Gates
    /\ MaxRuns \in Nat \ {0} /\ MaxCrashes \in Nat /\ MaxEdits \in Nat
    /\ None \notin Issues

(* What the files hold, and the steps of a process. *)
Record == [state: Gates, gates: SUBSET Gates, history: Seq(1..MaxRuns)]
IndexEntry == [state: Gates, computed: Gates]
Text == [total: Nat, told: Seq(1..MaxRuns)]
Issue == [lesson: (1..MaxRuns) \cup {None}]

Steps == {"readProject", "computeGates", "scaffold", "manifest", "project", "index",
          "open", "readIssue", "closed", "rm", "appendLesson", "readLessons", "summary"}

Process == [script: Scripts, run: 1..MaxRuns, at: Steps, truncated: BOOLEAN,
            issue: Issues \cup {None}, data: {None} \cup Record \cup IndexEntry,
            seen: Seq(1..MaxRuns), saw: Int]

(* What is written is whole, and what runs is a process. *)
ASSUME WholeAssumption == Issue \cap {Absent, Torn, Mixed} = {} /\ Idle \notin Process

(* A record that is found may be in any state and list any gates: the one of *)
(* live-server-kit is in state 16 and lists none of the gates.               *)
ASSUME TreesAssumption == \A tree \in Trees :
    tree \in [project: Record \cup {Absent}, artifacts: SUBSET Gates, lessons: Seq(1..MaxRuns)]

(* The files: one record and one index, a summary of the lessons, and two   *)
(* places for each issue.                                                   *)
Project == <<"project", None>>
Index == <<"index", None>>
Summary == <<"summary", None>>
Open(i) == <<"open", i>>
Closed(i) == <<"closed", i>>
Files == {Project, Index, Summary} \cup ({"open", "closed"} \X Issues)

isWhole(f) == files[f] \notin {Absent, Torn, Mixed}

-------------------------------------------------------------------------------
(* A definition with "Mutant:" in its comment is not the code's: it is the   *)
(* next definition with a bug put in, for checking that a property sees it.  *)

(* Mutant: zero if none is. *)
highestPassedOrZero(gates) ==
    CHOOSE s \in 0..totalStates :
        /\ 1..s \subseteq gates
        /\ s = totalStates \/ ~(1..(s + 1) \subseteq gates)

(* highestPassedState: the last of the gates passed without a gap; 1 if none *)
(* is.                                                                       *)
highestPassedState(gates) ==
    CHOOSE s \in Gates :
        /\ s = 1 \/ 1..s \subseteq gates
        /\ s = totalStates \/ ~(1..(s + 1) \subseteq gates)

createProjectRecord(run) == [state |-> 1, gates |-> {}, history |-> <<run>>]

(* Mutant: the history begins anew. *)
withNoteOnly(project, run) == [project EXCEPT !.history = <<run>>]

(* What saveProject writes when it is given a note. *)
withNote(project, run) == [project EXCEPT !.history = Append(@, run)]

Min2(a, b) == IF a < b THEN a ELSE b

(* Mutant: the next state, passed or not. *)
targetNext(script, current, computed) ==
    IF script = "advance --auto" THEN computed ELSE Min2(current + 1, totalStates)

(* The state kit-advance goes to. *)
target(script, current, computed) ==
    IF script = "advance --auto" THEN computed ELSE Min2(current + 1, computed)

-------------------------------------------------------------------------------
(* The tree as it is found, with some open issues.  A summary that is found  *)
(* is a text of its own.                                                     *)
Init ==
    /\ \E tree \in Trees, issues \in SUBSET Issues :
          /\ files = [f \in Files |->
                CASE f = Project -> tree.project
                  [] f = Summary -> IF tree.lessons = <<>> THEN Absent ELSE Mixed
                  [] f \in {Open(i) : i \in issues} -> [lesson |-> None]
                  [] OTHER -> Absent]
          /\ artifacts = tree.artifacts /\ lessons = tree.lessons
          /\ saved = tree.project /\ created = issues
          /\ raced = (tree.lessons # <<>>)
    /\ processes = [p \in Processes |-> Idle]
    /\ runs = 1 /\ edits = 0 /\ crashes = 0
    /\ saves = 0 /\ contested = {} /\ disputed = {}

(* A developer adds or removes the artifact of a gate. *)
edit(g) ==
    /\ edits < MaxEdits
    /\ edits' = edits + 1
    /\ artifacts' = (artifacts \ {g}) \cup ({g} \ artifacts)
    /\ UNCHANGED <<files, lessons, processes, runs, crashes, history>>

firstStep(script) ==
    IF script \in Advancing \cup {"state"} THEN "readProject"
    ELSE IF script = "intake" THEN "scaffold"
    ELSE IF script = "new" THEN "open"
    ELSE IF script = "lesson" THEN "appendLesson"
    ELSE "readIssue"

isFresh(i) ==
    /\ files[Open(i)] = Absent
    /\ \A p \in Processes : processes[p] # Idle => processes[p].issue # i

(* A script is started; one that is about an issue names it, and the id of   *)
(* a new issue is a fresh one.  Which place of Processes it gets is no       *)
(* matter.                                                                   *)
start(script, i) ==
    /\ runs < MaxRuns /\ \E p \in Processes : processes[p] = Idle
    /\ i \in (IF script = "new" THEN {j \in Issues \ created : isFresh(j)}
             ELSE IF script \in Closing THEN created ELSE {None})
    /\ runs' = runs + 1
    /\ processes' = [processes EXCEPT ![CHOOSE p \in Processes : processes[p] = Idle] =
         [script |-> script, run |-> runs + 1, at |-> firstStep(script), truncated |-> FALSE,
          issue |-> i, data |-> None, seen |-> <<>>, saw |-> -1]]
    /\ UNCHANGED <<artifacts, files, lessons, edits, crashes, history>>

at(p, step) == processes[p] # Idle /\ processes[p].at = step

move(p, process) == processes' = [processes EXCEPT ![p] = process]
finish(p) == move(p, Idle)

(* readProject: a record that is not there, or not readable, is made up. *)
readProject(p) ==
    /\ at(p, "readProject")
    /\ move(p, [processes[p] EXCEPT
         !.at = "computeGates", !.saw = IF isWhole(Project) THEN saves ELSE -1,
         !.data = IF isWhole(Project) THEN files[Project]
                  ELSE createProjectRecord(processes[p].run)])
    /\ UNCHANGED <<artifacts, files, lessons, bounds, history>>

(* kit-advance from computeGates on: it stops, or has a record to save. *)
advance(p) ==
    LET process == processes[p]
        current == process.data.state
        goal == target(process.script, current, highestPassedState(artifacts))
    IN /\ at(p, "computeGates") /\ process.script \in Advancing
       /\ \/ /\ goal <= current
             /\ finish(p)
          \/ /\ goal > current
             /\ move(p, [process EXCEPT !.at = "project",
                  !.data = withNote([@ EXCEPT !.state = goal, !.gates = artifacts], process.run)])
       /\ UNCHANGED <<artifacts, files, lessons, bounds, history>>

(* kit-intake keeps what is there already, but writes the manifest over.     *)
scaffold(p) ==
    /\ at(p, "scaffold")
    /\ artifacts' = artifacts \cup (IntakeGates \ ManifestGates)
    /\ move(p, [processes[p] EXCEPT !.at = "manifest"])
    /\ UNCHANGED <<files, lessons, bounds, history>>

(* It truncates the manifest and fills it, which no script can read if it    *)
(* was filled in between; then it has a new record to save, whatever the old *)
(* one says.                                                                 *)
seedManifest(p) ==
    /\ at(p, "manifest")
    /\ \/ /\ ~processes[p].truncated
          /\ artifacts' = artifacts \ ManifestGates
          /\ move(p, [processes[p] EXCEPT !.truncated = TRUE])
       \/ /\ processes[p].truncated
          /\ \/ artifacts' = (artifacts \ ManifestGates) \cup (IntakeGates \cap ManifestGates)
             \/ artifacts \cap ManifestGates # {} /\ artifacts' = artifacts \ ManifestGates
          /\ move(p, [processes[p] EXCEPT !.at = "project", !.truncated = FALSE,
               !.data = withNote(createProjectRecord(processes[p].run), processes[p].run)])
    /\ UNCHANGED <<files, lessons, bounds, history>>

(* kit-state: rebuildProjectIndex up to the writing of the index. *)
rebuildProjectIndex(p) ==
    LET process == processes[p]
        computed == highestPassedState(artifacts)
    IN /\ at(p, "computeGates") /\ process.script = "state"
       /\ move(p, [process EXCEPT !.at = "index",
            !.data = [state |-> @.state, computed |-> computed]])
       /\ UNCHANGED <<artifacts, files, lessons, bounds, history>>

(* closeLocalIssue reads the open issue, or throws. *)
readIssue(p) ==
    LET process == processes[p]
        i == process.issue
        closers == {q \in Processes \ {p} : processes[q] # Idle /\ processes[q].issue = i
                        /\ processes[q].at \notin {"open", "readIssue"}}
    IN /\ at(p, "readIssue")
       /\ \/ /\ ~isWhole(Open(i))
             /\ finish(p)
             /\ UNCHANGED <<contested, disputed>>
          \/ /\ isWhole(Open(i))
             /\ move(p, [process EXCEPT !.at =
                  IF process.script \in Teaching THEN "appendLesson" ELSE "closed"])
             /\ contested' = IF closers = {} THEN contested ELSE contested \cup {i}
             /\ disputed' = disputed \cup
                  (IF \E q \in closers : (processes[q].script \in Teaching)
                                           # (process.script \in Teaching) THEN {i} ELSE {})
       /\ UNCHANGED <<artifacts, files, lessons, bounds, saves, saved, created, raced>>

atLessons == {p \in Processes : processes[p] # Idle /\ processes[p].at \in {"readLessons", "summary"}}

(* Mutant: the summary is made of the lessons before this one. *)
appendLessonLate(p) ==
    /\ at(p, "appendLesson")
    /\ lessons' = Append(lessons, processes[p].run)
    /\ move(p, [processes[p] EXCEPT !.at = "summary", !.seen = lessons])
    /\ raced' = (atLessons # {})
    /\ UNCHANGED <<artifacts, files, bounds, saves, saved, created, contested, disputed>>

(* addLesson up to the refresh of the summary. *)
appendLesson(p) ==
    /\ at(p, "appendLesson")
    /\ lessons' = Append(lessons, processes[p].run)
    /\ move(p, [processes[p] EXCEPT !.at = "readLessons"])
    /\ raced' = (atLessons # {})
    /\ UNCHANGED <<artifacts, files, bounds, saves, saved, created, contested, disputed>>

readLessons(p) ==
    /\ at(p, "readLessons")
    /\ move(p, [processes[p] EXCEPT !.at = "summary", !.seen = lessons])
    /\ UNCHANGED <<artifacts, files, lessons, bounds, history>>

(* Mutant: the closed issue is written to the place of the open one. *)
fileInPlace(process) ==
    <<IF process.at = "closed" THEN "open" ELSE process.at,
      IF process.at \in {"open", "closed"} THEN process.issue ELSE None>>

(* The writing of a file: a script that is about to write one is at a step   *)
(* of the name of the file.                                                  *)
fileOf(process) ==
    <<process.at, IF process.at \in {"open", "closed"} THEN process.issue ELSE None>>

(* The summary counts the lessons and tells the last of them. *)
summaryOf(taught) ==
    [total |-> Len(taught),
     told |-> SubSeq(taught, IF Len(taught) > summarySize THEN Len(taught) - summarySize + 1 ELSE 1,
                     Len(taught))]

contents(process) ==
    IF process.at = "summary" THEN summaryOf(process.seen)
    ELSE IF process.at = "open" THEN [lesson |-> None]
    ELSE IF process.at = "closed"
      THEN [lesson |-> IF process.script \in Teaching THEN process.run ELSE None]
    ELSE process.data

isWriting(p) == processes[p] # Idle /\ fileOf(processes[p]) \in Files

truncate(p) ==
    /\ isWriting(p) /\ ~processes[p].truncated
    /\ files' = [files EXCEPT ![fileOf(processes[p])] = Torn]
    /\ move(p, [processes[p] EXCEPT !.truncated = TRUE])
    /\ UNCHANGED <<artifacts, lessons, bounds, history>>

(* What can be in a file when a process has filled it.  A closed issue is    *)
(* longer with a lesson than without; how long the other texts are is open.  *)
writtenOver(process) ==
    LET old == files[fileOf(process)]
        new == contents(process)
    IN IF old = Torn THEN {new}
       ELSE IF process.at = "closed"
         THEN {IF new.lesson = None /\ (old = Mixed \/ old.lesson # None) THEN Mixed ELSE new}
       ELSE {new, Mixed}

(* Mutant: the open issue is kept. *)
afterWriteKeep(process) ==
    IF process.at = "summary" /\ process.script \in Closing THEN "closed" ELSE "done"

(* The step that follows the writing of a file. *)
afterWrite(process) ==
    IF process.at = "summary" /\ process.script \in Closing THEN "closed"
    ELSE IF process.at = "closed" THEN "rm" ELSE "done"

fill(p) ==
    LET process == processes[p]
        next == afterWrite(process)
    IN /\ isWriting(p) /\ process.truncated
       /\ \E text \in writtenOver(process) : files' = [files EXCEPT ![fileOf(process)] = text]
       /\ IF next = "done" THEN finish(p)
          ELSE move(p, [process EXCEPT !.at = next, !.truncated = FALSE])
       /\ IF process.at = "project"
            THEN saves' = saves + 1 /\ saved' = process.data
            ELSE UNCHANGED <<saves, saved>>
       /\ created' = created \cup (IF process.at = "open" THEN {process.issue} ELSE {})
       /\ UNCHANGED <<artifacts, lessons, bounds, contested, disputed, raced>>

(* closeLocalIssue removes the open issue. *)
rm(p) ==
    /\ at(p, "rm")
    /\ files' = [files EXCEPT ![Open(processes[p].issue)] = Absent]
    /\ finish(p)
    /\ UNCHANGED <<artifacts, lessons, bounds, history>>

(* A script is killed; nothing takes up what it left. *)
kill(p) ==
    /\ processes[p] # Idle /\ crashes < MaxCrashes
    /\ crashes' = crashes + 1
    /\ finish(p)
    /\ raced' = (raced \/ p \in atLessons)
    /\ UNCHANGED <<artifacts, files, lessons, runs, edits, saves, saved, created, contested, disputed>>

step(p) ==
    \/ readProject(p) \/ advance(p) \/ scaffold(p) \/ seedManifest(p) \/ rebuildProjectIndex(p)
    \/ readIssue(p) \/ appendLesson(p) \/ readLessons(p)
    \/ truncate(p) \/ fill(p) \/ rm(p)

Next ==
    \/ \E g \in Gates : edit(g)
    \/ \E script \in Scripts, i \in Issues \cup {None} : start(script, i)
    \/ \E p \in Processes : step(p) \/ kill(p)

Spec == Init /\ [][Next]_vars

(* The operating system runs what has been started. *)
FairSpec == Spec /\ \A p \in Processes : WF_vars(step(p))

-------------------------------------------------------------------------------
(* The files and the scripts keep their shapes. *)
TypeOK ==
    /\ artifacts \subseteq Gates /\ lessons \in Seq(1..MaxRuns)
    /\ DOMAIN files = Files
    /\ isWhole(Project) => files[Project] \in Record
    /\ isWhole(Index) => files[Index] \in IndexEntry
    /\ isWhole(Summary) => files[Summary] \in Text
    /\ \A i \in Issues :
          /\ isWhole(Open(i)) => files[Open(i)] \in Issue
          /\ isWhole(Closed(i)) => files[Closed(i)] \in Issue
    /\ processes \in [Processes -> Process \cup {Idle}]
    /\ runs \in 1..MaxRuns /\ edits \in 0..MaxEdits /\ crashes \in 0..MaxCrashes

(* "Do not advance lifecycle state without its required artifact and         *)
(* evidence" (CONTRIBUTING.md:19): a record beyond the first state that a    *)
(* script has saved lists, among the gates it was saved with, every gate up  *)
(* to its state, whatever other scripts and developers did while it was      *)
(* advanced, and in whatever state and with whatever gates it was found.     *)
AdvancedOnEvidence ==
    isWhole(Project) /\ saves > 0 /\ files[Project].state > 1 =>
        1..files[Project].state \subseteq files[Project].gates

(* A run of a script that saves the record, having read it after its last    *)
(* save and found it readable, keeps the history and goes forward.  Entries  *)
(* are lost, and a state goes back, only by kit-intake, by a run whose       *)
(* reading is out of date, and where an unreadable record was made up.       *)
HistoryKept ==
    [][\A p \in Processes :
         /\ at(p, "project") /\ saves' # saves /\ processes'[p] = Idle
         /\ processes[p].script # "intake" /\ processes[p].saw = saves
         => /\ IsPrefix(saved.history, saved'.history)
            /\ saved.state < saved'.state]_vars

(* An issue that was created can be read as open or as closed at any time,   *)
(* also after a crash.  The one exception: a second run had begun to close   *)
(* it meanwhile; it truncates the closed file when the open one is gone, or  *)
(* the two write over each other.                                            *)
(* The lesson a closed issue refers to is in the lessons.                    *)
IssueKept ==
    \A i \in created :
        /\ isWhole(Open(i)) \/ isWhole(Closed(i)) \/ i \in contested
        /\ isWhole(Closed(i)) /\ files[Closed(i)].lesson # None =>
              \E n \in DOMAIN lessons : lessons[n] = files[Closed(i)].lesson

(* "This file is generated from lessons.jsonl": the summary that a script    *)
(* wrote is that of the first so many lessons, however many were added       *)
(* since; and once the last lesson was added in peace it is there, and is    *)
(* that of all lessons, whatever became of the summary before.               *)
SummaryOfLessons ==
    /\ isWhole(Summary) =>
         /\ files[Summary].total <= Len(lessons)
         /\ files[Summary] = summaryOf(SubSeq(lessons, 1, files[Summary].total))
    /\ lessons # <<>> /\ ~raced /\ atLessons = {} => files[Summary] = summaryOf(lessons)

(* Once a run has read an open issue to close it, the issue ends up no       *)
(* longer open, also when another run closes it at the same time, unless a   *)
(* run is killed; and it can be read as closed, but for one of two runs that *)
(* closed it with a lesson when the other did so without: what the two write *)
(* over each other no script can read, and the open issue is gone.           *)
ClosingSettles ==
    \A i \in Issues :
        (\E p \in Processes : processes[p] # Idle /\ processes[p].issue = i
             /\ processes[p].at \in {"appendLesson", "closed", "rm"})
        ~> (\/ files[Open(i)] = Absent /\ (isWhole(Closed(i)) \/ i \in disputed)
            \/ crashes > 0)
=================================================================================
