--------------------------- MODULE KitLifecycleProofs ---------------------------
(***************************************************************************)
(* The lifecycle scripts for any processes, issues, number of states and   *)
(* bounds.  The files are right only together with what the scripts that   *)
(* run have read and are about to write, so the inductive invariant says,  *)
(* for each process at each of its steps, what it carries and how that     *)
(* stands to the files, to the lessons and to the other processes.         *)
(***************************************************************************)
EXTENDS KitLifecycle, SequenceTheorems, WellFoundedInduction, TLAPS

(* The steps that a script takes. *)
StepsOf(script) ==
    CASE script \in Advancing -> {"readProject", "computeGates", "project"}
      [] script = "state" -> {"readProject", "computeGates", "index"}
      [] script = "intake" -> {"scaffold", "manifest", "project"}
      [] script = "new" -> {"open"}
      [] script = "lesson" -> {"appendLesson", "readLessons", "summary"}
      [] script = "close" -> {"readIssue", "closed", "rm"}
      [] script = "close --lesson" ->
            {"readIssue", "appendLesson", "readLessons", "summary", "closed", "rm"}

(* A record that is beyond the first state only on evidence. *)
Evidenced(record) ==
    record \in Record /\ (record.state > 1 => 1..record.state \subseteq record.gates)

(* The steps that fill what they have truncated. *)
Filling == {"manifest", "project", "index", "summary", "open", "closed"}

(* A process is at a step of its script, and has what the step needs. *)
OnItsWay(process) ==
    /\ process.at \in StepsOf(process.script)
    /\ process.truncated => process.at \in Filling
    /\ process.script \in Closing \cup {"new"} => process.issue \in Issues
    /\ process.script \notin Closing \cup {"new"} => process.issue = None
    /\ process.at = "computeGates" => process.data \in Record
    /\ process.at = "project" => Evidenced(process.data)
    /\ process.at = "index" => process.data \in IndexEntry

ProcessInv == \A p \in Processes : processes[p] # Idle => OnItsWay(processes[p])

FilesInv ==
    /\ saves \in Nat /\ created \subseteq Issues
    /\ files = [f \in Files |-> files[f]]
    /\ isWhole(Project) => files[Project] \in Record
    /\ isWhole(Project) /\ saves > 0 => Evidenced(files[Project])

BaseInv == TypeOK /\ FilesInv /\ ProcessInv

-------------------------------------------------------------------------------
LEMMA LeastNatural ==
    ASSUME NEW T \in SUBSET Nat, T # {}
    PROVE  \E x \in T : \A y \in T : x <= y
<1> DEFINE before == {ss \in Nat \X Nat : ss[1] < ss[2]}
<1>1. IsWellFoundedOn(before, Nat)
    BY Zenon, NatLessThanWellFounded DEF OpToRel
<1> HIDE DEF before
<1>2. PICK x \in T : \A y \in T : ~(<<y, x>> \in before)
    BY <1>1, WFMin, Zenon
<1>3. ASSUME NEW y \in T PROVE x <= y
    <2>1. x \in Nat /\ y \in Nat /\ ~(<<y, x>> \in before)
        BY <1>2
    <2>2. ~(y < x)
        BY <2>1 DEF before
    <2> QED
        BY <2>1, <2>2
<1> QED
    BY <1>3

(* The state computed from the gates is one, and all gates up to it passed   *)
(* unless it is the first.                                                   *)
LEMMA HighestPassed ==
    ASSUME NEW gates
    PROVE  /\ highestPassedState(gates) \in Gates
           /\ highestPassedState(gates) > 1 => 1..highestPassedState(gates) \subseteq gates
<1> DEFINE Highest(s) == /\ s = 1 \/ 1..s \subseteq gates
                         /\ s = totalStates \/ ~(1..(s + 1) \subseteq gates)
           missing == {g \in Nat : g > 1 /\ ~(1..g \subseteq gates)}
<1>1. totalStates \in Nat /\ totalStates > 0
    BY KitAssumption
<1>2. \E s \in Gates : Highest(s)
    <2>1. CASE missing = {}
        <3>1. totalStates \in Gates /\ Highest(totalStates)
            <4>1. totalStates > 1 => 1..totalStates \subseteq gates
                BY <1>1, <2>1
            <4> QED
                BY <1>1, <4>1 DEF Gates
        <3> QED
            BY <3>1
    <2>2. CASE missing # {}
        <3>1. PICK g \in missing : \A h \in missing : g <= h
            BY <2>2, LeastNatural
        <3>2. g \in Nat /\ g > 1 /\ ~(1..g \subseteq gates)
            OBVIOUS
        <3> DEFINE s == IF g - 1 <= totalStates THEN g - 1 ELSE totalStates
        <3>3. s \in Gates /\ s \in Nat /\ s < g /\ s <= totalStates
            BY <1>1, <3>2 DEF Gates
        <3>4. s = 1 \/ 1..s \subseteq gates
            <4>1. s \notin missing
                BY <3>1, <3>3
            <4> QED
                BY <3>3, <4>1 DEF Gates
        <3>5. s = totalStates \/ ~(1..(s + 1) \subseteq gates)
            BY <1>1, <3>2
        <3> QED
            BY <3>3, <3>4, <3>5
    <2> QED
        BY <2>1, <2>2
<1>3. highestPassedState(gates) = CHOOSE s \in Gates : Highest(s)
    BY DEF highestPassedState
<1>4. highestPassedState(gates) \in Gates /\ Highest(highestPassedState(gates))
    BY <1>2, <1>3
<1> QED
    BY <1>4

LEMMA PrefixItself ==
    ASSUME NEW S, NEW s \in Seq(S)
    PROVE  IsPrefix(s, s)
BY DEF IsPrefix

LEMMA PrefixAppend ==
    ASSUME NEW S, NEW s \in Seq(S), NEW t \in Seq(S), NEW x \in S, IsPrefix(s, t)
    PROVE  IsPrefix(s, Append(t, x))
<1>1. Append(t, x) \in Seq(S) /\ Len(Append(t, x)) = Len(t) + 1
    BY AppendProperties
<1>2. Len(s) \in Nat /\ Len(t) \in Nat /\ Len(s) <= Len(t)
    BY LenProperties DEF IsPrefix
<1>3. SubSeq(t, 1, Len(s)) = SubSeq(Append(t, x), 1, Len(s))
    <2>1. \A i \in 1..Len(s) : t[i] = Append(t, x)[i]
        BY <1>2, AppendProperties
    <2> QED
        BY <1>1, <1>2, <2>1
<1> QED
    BY <1>1, <1>2, <1>3 DEF IsPrefix

LEMMA PrefixOfAppend ==
    ASSUME NEW S, NEW s \in Seq(S), NEW x \in S
    PROVE  IsPrefix(s, Append(s, x))
<1>1. IsPrefix(s, s)
    BY PrefixItself
<1> QED
    BY <1>1, PrefixAppend

(* A move changes one process. *)
LEMMA Moved ==
    ASSUME TypeOK, NEW p \in Processes, NEW process, move(p, process)
    PROVE  /\ processes'[p] = process
           /\ \A q \in Processes : q # p => processes'[q] = processes[q]
           /\ process \in Process \cup {Idle} => processes' \in [Processes -> Process \cup {Idle}]
BY DEF TypeOK, move
-------------------------------------------------------------------------------
(* What a process becomes in each of its steps. *)
SameRun(p) ==
    /\ processes'[p] \in Process
    /\ processes'[p].script = processes[p].script
    /\ processes'[p].run = processes[p].run
    /\ processes'[p].issue = processes[p].issue
    /\ processes'[p].at \in StepsOf(processes[p].script)
    /\ processes'[p].truncated => processes'[p].at \in Filling

LEMMA ProcessTyped ==
    ASSUME BaseInv, NEW p \in Processes, processes[p] # Idle
    PROVE  processes[p] \in Process /\ OnItsWay(processes[p])
BY DEF BaseInv, TypeOK, ProcessInv

LEMMA Reads ==
    ASSUME BaseInv, NEW p \in Processes, readProject(p)
    PROVE  /\ processes[p] # Idle /\ processes[p].at = "readProject"
           /\ SameRun(p) /\ processes'[p].at = "computeGates"
           /\ processes'[p].saw = IF isWhole(Project) THEN saves ELSE -1
           /\ processes'[p].data = IF isWhole(Project) THEN files[Project]
                                   ELSE createProjectRecord(processes[p].run)
           /\ processes'[p].data \in Record
<1> DEFINE process == processes[p]
           record == IF isWhole(Project) THEN files[Project] ELSE createProjectRecord(process.run)
<1>1. process # Idle /\ process.at = "readProject"
    BY DEF readProject, at
<1>2. process \in Process /\ process.at \in StepsOf(process.script) /\ ~process.truncated
    BY <1>1, ProcessTyped DEF OnItsWay, Filling
<1>3. record \in Record
    <2>1. isWhole(Project) => files[Project] \in Record
        BY DEF BaseInv, FilesInv
    <2>2. 1 \in Gates /\ <<process.run>> \in Seq(1..MaxRuns)
        BY <1>2, KitAssumption DEF Gates, Process
    <2>3. createProjectRecord(process.run) \in Record
        BY <2>2 DEF createProjectRecord, Record
    <2> QED
        BY <2>1, <2>3
<1>4. processes'[p] = [process EXCEPT !.at = "computeGates",
            !.saw = IF isWhole(Project) THEN saves ELSE -1, !.data = record]
    BY Moved DEF readProject, BaseInv
<1>5. process.script \in Scripts /\ "computeGates" \in StepsOf(process.script)
    BY <1>1, <1>2 DEF StepsOf, Process, Scripts, Advancing, Closing
<1>6. (IF isWhole(Project) THEN saves ELSE -1) \in Int
    BY DEF BaseInv, FilesInv
<1> HIDE DEF record
<1>8. processes'[p] \in Process
    BY <1>2, <1>3, <1>4, <1>6 DEF Process, Steps
<1>9. SameRun(p) /\ processes'[p].at = "computeGates" /\ processes'[p].data = record
    BY <1>2, <1>4, <1>5, <1>8 DEF SameRun, Process 
<1>10. processes'[p].saw = IF isWhole(Project) THEN saves ELSE -1
    BY <1>2, <1>4 DEF Process
<1> QED
    BY <1>1, <1>3, <1>9, <1>10 DEF record

LEMMA TargetBounds ==
    ASSUME NEW script, NEW current \in Gates, NEW computed \in Gates
    PROVE  LET goal == target(script, current, computed)
           IN goal \in Nat /\ (goal <= computed \/ goal <= current)
<1>1. KitAssumption
    BY KitAssumption
<1>2. current \in Nat /\ computed \in Nat /\ totalStates \in Nat
    BY <1>1 DEF KitAssumption, Gates
<1> DEFINE goal == target(script, current, computed)
<1>3. CASE script = "advance --auto"
    <2>1. goal = computed
        BY <1>3 DEF target
    <2> QED
        BY <1>2, <2>1
<1>4. CASE script # "advance --auto"
    <2>1. goal = IF current + 1 < computed THEN current + 1 ELSE computed
        BY <1>4 DEF target, Min2
    <2> HIDE DEF goal
    <2>2. goal \in Nat /\ (goal <= computed \/ goal <= current)
        BY <1>2, <2>1
    <2> QED
        BY <2>2 DEF goal
<1> QED
    BY <1>3, <1>4

LEMMA NotedRecord ==
    ASSUME NEW record \in Record, NEW goal, NEW gates, NEW run
    PROVE  withNote([record EXCEPT !.state = goal, !.gates = gates], run) =
             [state |-> goal, gates |-> gates, history |-> Append(record.history, run)]
<1> DEFINE onlyState == [record EXCEPT !.state = goal]
           ahead == [record EXCEPT !.state = goal, !.gates = gates]
<1>1. ahead = [state |-> goal, gates |-> gates, history |-> record.history]
    <2>1. onlyState = [state |-> goal, gates |-> record.gates, history |-> record.history]
        BY DEF Record
    <2> HIDE DEF onlyState
    <2>2. [onlyState EXCEPT !.gates = gates]
            = [state |-> goal, gates |-> gates, history |-> record.history]
        BY <2>1
    <2>3. ahead = [onlyState EXCEPT !.gates = gates]
        BY Zenon DEF onlyState
    <2> QED
        BY <2>2, <2>3, Zenon
<1> HIDE DEF ahead
<1>2. withNote(ahead, run) =
        [state |-> goal, gates |-> gates, history |-> Append(record.history, run)]
    BY <1>1 DEF withNote
<1> QED
    BY <1>2 DEF ahead

LEMMA Advances ==
    ASSUME BaseInv, NEW p \in Processes, advance(p)
    PROVE  /\ processes[p] # Idle /\ processes[p].at = "computeGates"
           /\ \/ processes'[p] = Idle
              \/ /\ SameRun(p) /\ processes'[p].at = "project"
                 /\ processes'[p].saw = processes[p].saw
                 /\ Evidenced(processes'[p].data)
                 /\ processes[p].data.state < processes'[p].data.state
                 /\ processes'[p].data.history = Append(processes[p].data.history, processes[p].run)
<1> DEFINE process == processes[p]
           current == process.data.state
           computed == highestPassedState(artifacts)
           goal == target(process.script, current, computed)
           record == withNote([process.data EXCEPT !.state = goal, !.gates = artifacts], process.run)
<1>1. process # Idle /\ process.at = "computeGates" /\ process.script \in Advancing
    BY DEF advance, at
<1>2. /\ process \in Process /\ process.at \in StepsOf(process.script) /\ process.data \in Record
      /\ ~process.truncated
    BY <1>1, ProcessTyped DEF OnItsWay, Filling
<1>4. process.data \in Record /\ current \in Gates /\ process.run \in 1..MaxRuns
    BY <1>2 DEF Record, Process
<1>5. /\ computed \in Gates
      /\ computed > 1 => 1..computed \subseteq artifacts
    BY HighestPassed
<1>6. goal \in Nat /\ (goal <= computed \/ goal <= current)
    BY <1>4, <1>5, TargetBounds
<1>3. /\ goal <= current => processes'[p] = Idle
      /\ goal > current => processes'[p] = [process EXCEPT !.at = "project", !.data = record]
    <2> DEFINE saving == [process EXCEPT !.at = "project", !.data = record]
    <2>1. \/ goal <= current /\ move(p, Idle)
          \/ goal > current /\ move(p, saving)
        BY Zenon DEF advance, finish
    <2>2. goal <= current /\ goal > current => FALSE
        BY <1>2, <1>5, <1>6 DEF Gates, Record
    <2> HIDE DEF saving, goal
    <2>3. ASSUME NEW new, move(p, new) PROVE processes'[p] = new
        BY <2>3, Moved DEF BaseInv
    <2>4. CASE goal <= current /\ move(p, Idle)
        BY <2>2, <2>3, <2>4
    <2>5. CASE goal > current /\ move(p, saving)
        <3>1. processes'[p] = saving
            BY <2>3, <2>5
        <3> QED
            BY <2>2, <2>5, <3>1 DEF saving
    <2> QED
        BY <2>1, <2>4, <2>5
<1>7. ASSUME goal > current
      PROVE  /\ Evidenced(record) /\ record.state = goal
             /\ record.history = Append(process.data.history, process.run)
    <2>1. goal \in Gates /\ goal <= computed
        <3> HIDE DEF goal, current, computed
        <3> QED
            BY <1>4, <1>5, <1>6, <1>7, KitAssumption DEF Gates
    <2>2. 1..goal \subseteq artifacts
        BY <1>4, <1>5, <1>7, <2>1 DEF Gates
    <2>3. process.data.history \in Seq(1..MaxRuns) /\ artifacts \in SUBSET Gates
        BY <1>4 DEF Record, BaseInv, TypeOK
    <2>4. Append(process.data.history, process.run) \in Seq(1..MaxRuns)
        BY <1>4, <2>3, AppendProperties
    <2> HIDE DEF goal
    <2>5. record = [state |-> goal, gates |-> artifacts,
                    history |-> Append(process.data.history, process.run)]
        BY <1>4, <2>1, <2>3, NotedRecord
    <2> HIDE DEF record
    <2> QED
        BY <2>1, <2>2, <2>3, <2>4, <2>5 DEF Evidenced, Record
<1> HIDE DEF record, goal
<1>8. ASSUME goal > current
      PROVE  SameRun(p) /\ processes'[p].at = "project" /\ processes'[p].data = record
             /\ processes'[p].saw = process.saw
    <2>1. "project" \in StepsOf(process.script)
        BY <1>1 DEF StepsOf, Advancing
    <2>2. record \in Record
        BY <1>7, <1>8 DEF Evidenced
    <2>3. processes'[p] \in Process
        BY <1>2, <1>3, <1>8, <2>2 DEF Process, Steps
    <2> QED
        BY <1>2, <1>3, <1>8, <2>1, <2>3 DEF SameRun, Process
<1>9. goal > current \/ goal <= current
    BY <1>4, <1>5, <1>6 DEF Gates
<1> QED
    BY <1>1, <1>3, <1>7, <1>8, <1>9

LEMMA Scaffolds ==
    ASSUME BaseInv, NEW p \in Processes, scaffold(p)
    PROVE  /\ processes[p] # Idle /\ processes[p].at = "scaffold"
           /\ processes[p].script = "intake"
           /\ SameRun(p) /\ processes'[p].at = "manifest"
           /\ processes'[p].saw = processes[p].saw
<1> DEFINE process == processes[p]
<1>1. process # Idle /\ process.at = "scaffold"
    BY DEF scaffold, at
<1>2. process \in Process /\ process.at \in StepsOf(process.script) /\ ~process.truncated
    BY <1>1, ProcessTyped DEF OnItsWay, Filling
<1>3. process.script = "intake" /\ "manifest" \in StepsOf(process.script)
    BY <1>1, <1>2 DEF StepsOf, Process, Scripts, Advancing, Closing
<1>4. processes'[p] = [process EXCEPT !.at = "manifest"]
    BY Moved DEF scaffold, BaseInv
<1>5. processes'[p] \in Process
    BY <1>2, <1>4 DEF Process, Steps
<1> QED
    BY <1>1, <1>2, <1>3, <1>4, <1>5 DEF SameRun, Process

LEMMA SeedsManifest ==
    ASSUME BaseInv, NEW p \in Processes, seedManifest(p)
    PROVE  /\ processes[p] # Idle /\ processes[p].at = "manifest"
           /\ processes[p].script = "intake"
           /\ SameRun(p) /\ processes'[p].saw = processes[p].saw
           /\ processes'[p].at \in {"manifest", "project"}
           /\ processes'[p].at = "project" => Evidenced(processes'[p].data)
<1> DEFINE process == processes[p]
           record == withNote(createProjectRecord(process.run), process.run)
           emptying == [process EXCEPT !.truncated = TRUE]
           filling == [process EXCEPT !.at = "project", !.truncated = FALSE, !.data = record]
<1>1. process # Idle /\ process.at = "manifest"
    BY DEF seedManifest, at
<1>2. process \in Process /\ process.at \in StepsOf(process.script)
    BY <1>1, ProcessTyped DEF OnItsWay
<1>3. process.script = "intake" /\ {"manifest", "project"} \subseteq StepsOf(process.script)
    BY <1>1, <1>2 DEF StepsOf, Process, Scripts, Advancing, Closing
<1>4. Evidenced(record)
    <2>1. 1 \in Gates /\ process.run \in 1..MaxRuns /\ <<process.run>> \in Seq(1..MaxRuns)
        BY <1>2, KitAssumption DEF Gates, Process
    <2>2. Append(<<process.run>>, process.run) \in Seq(1..MaxRuns)
        BY <2>1, AppendProperties
    <2>3. record = [state |-> 1, gates |-> {}, history |-> Append(<<process.run>>, process.run)]
        BY DEF withNote, createProjectRecord
    <2> HIDE DEF record
    <2> QED
        BY <2>1, <2>2, <2>3 DEF Evidenced, Record
<1>5. ASSUME NEW new, move(p, new) PROVE processes'[p] = new
    BY <1>5, Moved DEF BaseInv
<1>6. move(p, emptying) \/ move(p, filling)
    BY Zenon DEF seedManifest
<1> HIDE DEF record
<1>7. CASE move(p, emptying)
    <2>1. processes'[p] = emptying
        BY <1>5, <1>7
    <2>2. processes'[p] \in Process
        BY <1>2, <2>1 DEF Process
    <2> QED
        BY <1>1, <1>2, <1>3, <2>1, <2>2 DEF SameRun, Process, Filling
<1>8. CASE move(p, filling)
    <2>1. processes'[p] = filling
        BY <1>5, <1>8
    <2>2. processes'[p] \in Process
        BY <1>2, <1>4, <2>1 DEF Process, Steps, Evidenced
    <2> QED
        BY <1>1, <1>2, <1>3, <1>4, <2>1, <2>2 DEF SameRun, Process, Filling
<1> QED
    BY <1>6, <1>7, <1>8

LEMMA Rebuilds ==
    ASSUME BaseInv, NEW p \in Processes, rebuildProjectIndex(p)
    PROVE  /\ processes[p] # Idle /\ processes[p].at = "computeGates"
           /\ SameRun(p) /\ processes'[p].at = "index"
           /\ processes'[p].saw = processes[p].saw
           /\ processes'[p].data \in IndexEntry
<1> DEFINE process == processes[p]
           entry == [state |-> process.data.state, computed |-> highestPassedState(artifacts)]
<1>1. process # Idle /\ process.at = "computeGates" /\ process.script = "state"
    BY DEF rebuildProjectIndex, at
<1>2. /\ process \in Process /\ process.data \in Record /\ ~process.truncated
      /\ "index" \in StepsOf(process.script)
    BY <1>1, ProcessTyped DEF OnItsWay, StepsOf, Advancing, Filling
<1>3. entry \in IndexEntry
    <2>1. process.data.state \in Gates
        BY <1>2 DEF Record
    <2> QED
        BY <2>1, HighestPassed DEF IndexEntry
<1>4. processes'[p] = [process EXCEPT !.at = "index", !.data = entry]
    BY Moved DEF rebuildProjectIndex, BaseInv
<1> HIDE DEF entry
<1>5. processes'[p] \in Process
    BY <1>2, <1>3, <1>4 DEF Process, Steps
<1> QED
    BY <1>1, <1>2, <1>3, <1>4, <1>5 DEF SameRun, Process

LEMMA ReadsIssue ==
    ASSUME BaseInv, NEW p \in Processes, readIssue(p)
    PROVE  /\ processes[p] # Idle /\ processes[p].at = "readIssue"
           /\ processes[p].script \in Closing
           /\ \/ processes'[p] = Idle /\ contested' = contested
              \/ /\ isWhole(Open(processes[p].issue))
                 /\ SameRun(p) /\ ~processes'[p].truncated
                 /\ processes'[p].at =
                      IF processes[p].script \in Teaching THEN "appendLesson" ELSE "closed"
                 /\ contested' =
                      IF {q \in Processes \ {p} :
                             /\ processes[q] # Idle /\ processes[q].issue = processes[p].issue
                             /\ processes[q].at \notin {"open", "readIssue"}} = {}
                        THEN contested ELSE contested \cup {processes[p].issue}
<1> DEFINE process == processes[p]
           next == IF process.script \in Teaching THEN "appendLesson" ELSE "closed"
           reading == [process EXCEPT !.at = next]
<1>1. process # Idle /\ process.at = "readIssue"
    BY DEF readIssue, at
<1>2. process \in Process /\ process.at \in StepsOf(process.script) /\ ~process.truncated
    BY <1>1, ProcessTyped DEF OnItsWay, Filling
<1>3. process.script \in Closing /\ next \in StepsOf(process.script)
    BY <1>1, <1>2 DEF StepsOf, Process, Scripts, Advancing, Closing, Teaching
<1>4. ASSUME NEW new, move(p, new) PROVE processes'[p] = new
    BY <1>4, Moved DEF BaseInv
<1>5. CASE move(p, Idle) /\ contested' = contested
    BY <1>1, <1>3, <1>4, <1>5
<1>6. CASE move(p, reading) /\ isWhole(Open(process.issue))
    <2>1. processes'[p] = reading
        BY <1>4, <1>6
    <2>2. next \in Steps
        BY DEF Steps
    <2> HIDE DEF next
    <2>3. processes'[p] \in Process
        BY <1>2, <2>1, <2>2 DEF Process
    <2>4. SameRun(p) /\ processes'[p].at = next /\ ~processes'[p].truncated
        BY <1>2, <1>3, <2>1, <2>3 DEF SameRun, Process
    <2>5. isWhole(Open(process.issue)) /\ move(p, reading) =>
            \/ processes'[p] = Idle /\ contested' = contested
            \/ contested' =
                  IF {q \in Processes \ {p} :
                         /\ processes[q] # Idle /\ processes[q].issue = process.issue
                         /\ processes[q].at \notin {"open", "readIssue"}} = {}
                    THEN contested ELSE contested \cup {process.issue}
        BY Zenon DEF readIssue
    <2> QED
        BY <1>1, <1>3, <1>6, <2>4, <2>5 DEF next
<1> QED
    BY <1>5, <1>6, Zenon DEF readIssue, finish

LEMMA Appends ==
    ASSUME BaseInv, NEW p \in Processes, appendLesson(p)
    PROVE  /\ processes[p] # Idle /\ processes[p].at = "appendLesson"
           /\ processes[p].run \in 1..MaxRuns
           /\ SameRun(p) /\ processes'[p].at = "readLessons"
<1> DEFINE process == processes[p]
<1>1. process # Idle /\ process.at = "appendLesson"
    BY DEF appendLesson, at
<1>2. process \in Process /\ process.at \in StepsOf(process.script) /\ ~process.truncated
    BY <1>1, ProcessTyped DEF OnItsWay, Filling
<1>3. "readLessons" \in StepsOf(process.script)
    BY <1>1, <1>2 DEF StepsOf, Process, Scripts, Advancing, Closing
<1>4. processes'[p] = [process EXCEPT !.at = "readLessons"]
    BY Moved DEF appendLesson, BaseInv
<1>5. processes'[p] \in Process
    BY <1>2, <1>4 DEF Process, Steps
<1> QED
    BY <1>1, <1>2, <1>3, <1>4, <1>5 DEF SameRun, Process

LEMMA ReadsLessons ==
    ASSUME BaseInv, NEW p \in Processes, readLessons(p)
    PROVE  /\ processes[p] # Idle /\ processes[p].at = "readLessons"
           /\ SameRun(p) /\ processes'[p].at = "summary" /\ processes'[p].seen = lessons
           /\ ~processes'[p].truncated
<1> DEFINE process == processes[p]
<1>1. process # Idle /\ process.at = "readLessons"
    BY DEF readLessons, at
<1>2. process \in Process /\ process.at \in StepsOf(process.script) /\ ~process.truncated
    BY <1>1, ProcessTyped DEF OnItsWay, Filling
<1>3. "summary" \in StepsOf(process.script)
    BY <1>1, <1>2 DEF StepsOf, Process, Scripts, Advancing, Closing
<1>4. processes'[p] = [process EXCEPT !.at = "summary", !.seen = lessons]
    BY Moved DEF readLessons, BaseInv
<1>5. lessons \in Seq(1..MaxRuns)
    BY DEF BaseInv, TypeOK
<1>6. processes'[p] \in Process
    BY <1>2, <1>4, <1>5 DEF Process, Steps
<1> QED
    BY <1>1, <1>2, <1>3, <1>4, <1>6 DEF SameRun, Process

(* The file that a process writes. *)
Writes(process) ==
    \/ process.at = "project" /\ fileOf(process) = Project
    \/ process.at = "index" /\ fileOf(process) = Index
    \/ process.at = "summary" /\ fileOf(process) = Summary
    \/ process.at = "open" /\ fileOf(process) = Open(process.issue) /\ process.issue \in Issues
    \/ process.at = "closed" /\ fileOf(process) = Closed(process.issue) /\ process.issue \in Issues

LEMMA Writing ==
    ASSUME BaseInv, NEW p \in Processes, isWriting(p)
    PROVE  /\ processes[p] # Idle /\ processes[p] \in Process /\ OnItsWay(processes[p])
           /\ Writes(processes[p])
           /\ fileOf(processes[p]) \in Files
<1> DEFINE process == processes[p]
<1>1. process # Idle /\ fileOf(process) \in Files
    BY DEF isWriting
<1>2. process \in Process /\ OnItsWay(process)
    BY <1>1, ProcessTyped
<1>3. \/ fileOf(process) \in {Project, Index, Summary}
      \/ fileOf(process) \in {"open", "closed"} \X Issues
    BY <1>1 DEF Files
<1>4. Writes(process)
    BY <1>3 DEF Writes, fileOf, Project, Index, Summary, Open, Closed
<1> QED
    BY <1>1, <1>2, <1>4

LEMMA Truncates ==
    ASSUME BaseInv, NEW p \in Processes, truncate(p)
    PROVE  /\ SameRun(p)
           /\ processes'[p].at = processes[p].at /\ processes'[p].data = processes[p].data
           /\ processes[p].at \in Filling
           /\ processes'[p].seen = processes[p].seen /\ processes'[p].saw = processes[p].saw
<1> DEFINE process == processes[p]
<1>1. /\ process # Idle /\ process \in Process /\ process.at \in StepsOf(process.script)
      /\ process.at \in Filling
    BY Writing DEF truncate, OnItsWay, Writes, Filling
<1>2. processes'[p] = [process EXCEPT !.truncated = TRUE]
    BY Moved DEF truncate, BaseInv
<1>3. processes'[p] \in Process
    BY <1>1, <1>2 DEF Process
<1> QED
    BY <1>1, <1>2, <1>3 DEF SameRun, Process

(* After the summary of a lesson that closes an issue, and after the closed  *)
(* issue, a process goes on; it is done after any other file.                *)
LEMMA Fills ==
    ASSUME BaseInv, NEW p \in Processes, fill(p)
    PROVE  \/ /\ processes[p].at \in {"project", "index", "open"}
              /\ processes'[p] = Idle
           \/ /\ processes[p].at = "summary" /\ processes[p].script \notin Closing
              /\ processes'[p] = Idle
           \/ /\ processes[p].at = "summary" /\ processes[p].script \in Closing
              /\ SameRun(p) /\ ~processes'[p].truncated /\ processes'[p].at = "closed"
           \/ /\ processes[p].at = "closed" /\ processes[p].script \in Closing
              /\ SameRun(p) /\ ~processes'[p].truncated /\ processes'[p].at = "rm"
<1> DEFINE process == processes[p]
           next == afterWrite(process)
           going == [process EXCEPT !.at = next, !.truncated = FALSE]
<1>1. /\ process # Idle /\ process \in Process /\ Writes(process)
      /\ process.at \in StepsOf(process.script)
    BY Writing DEF fill, OnItsWay
<1>2. process.at = "closed" => process.script \in Closing
    BY <1>1 DEF StepsOf, Process, Scripts, Advancing, Closing
<1>3. ASSUME NEW new, move(p, new) PROVE processes'[p] = new
    BY <1>3, Moved DEF BaseInv
<1>4. /\ next = "done" => move(p, Idle)
      /\ next # "done" => move(p, going)
    BY Zenon DEF fill, finish
<1>5. CASE next = "done"
    <2>1. processes'[p] = Idle
        BY <1>3, <1>4, <1>5
    <2> QED
        BY <1>1, <1>5, <2>1 DEF afterWrite, Writes
<1>6. CASE next # "done"
    <2>1. processes'[p] = going
        BY <1>3, <1>4, <1>6
    <2>2. /\ process.script \in Closing
          /\ \/ process.at = "summary" /\ next = "closed"
             \/ process.at = "closed" /\ next = "rm"
        BY <1>2, <1>6 DEF afterWrite
    <2>3. next \in Steps /\ next \in StepsOf(process.script)
        BY <1>1, <2>2 DEF Steps, StepsOf, Process, Scripts, Advancing, Closing
    <2> HIDE DEF next
    <2>4. processes'[p] \in Process
        BY <1>1, <2>1, <2>3 DEF Process
    <2>5. SameRun(p) /\ ~processes'[p].truncated /\ processes'[p].at = next
        BY <1>1, <2>1, <2>3, <2>4 DEF SameRun, Process
    <2> QED
        BY <2>2, <2>5
<1> QED
    BY <1>5, <1>6

LEMMA Starts ==
    ASSUME BaseInv, NEW script \in Scripts, NEW i \in Issues \cup {None}, start(script, i)
    PROVE  /\ runs' = runs + 1 /\ runs < MaxRuns
           /\ processes' \in [Processes -> Process \cup {Idle}]
           /\ \E p \in Processes :
                /\ processes[p] = Idle
                /\ \A q \in Processes : q # p => processes'[q] = processes[q]
                /\ processes'[p] \in Process /\ OnItsWay(processes'[p])
                /\ processes'[p].script = script /\ processes'[p].issue = i
                /\ processes'[p].at = firstStep(script) /\ processes'[p].saw = -1
                /\ ~processes'[p].truncated
<1> DEFINE p == CHOOSE q \in Processes : processes[q] = Idle
           new == [script |-> script, run |-> runs + 1, at |-> firstStep(script),
                   truncated |-> FALSE, issue |-> i, data |-> None, seen |-> <<>>, saw |-> -1]
<1>1. runs' = runs + 1 /\ runs < MaxRuns /\ \E q \in Processes : processes[q] = Idle
    BY DEF start
<1>2. processes' = [processes EXCEPT ![p] = new]
    BY Zenon DEF start
<1>3. p \in Processes /\ processes[p] = Idle
    BY <1>1
<1>4. runs + 1 \in 1..MaxRuns
    BY <1>1, KitAssumption DEF BaseInv, TypeOK
<1>5. /\ firstStep(script) \in Steps /\ firstStep(script) \in StepsOf(script)
      /\ firstStep(script) \notin {"computeGates", "project", "index"}
    BY DEF firstStep, Steps, StepsOf, Scripts, Advancing, Closing
<1>6. /\ script \in Closing \cup {"new"} => i \in Issues
      /\ script \notin Closing \cup {"new"} => i = None
    BY DEF start, BaseInv, FilesInv
<1> HIDE DEF p
<1>7. new \in Process
    BY <1>4, <1>5 DEF Process
<1>8. OnItsWay(new)
    BY <1>5, <1>6 DEF OnItsWay
<1>9. /\ processes'[p] = new
      /\ \A q \in Processes : q # p => processes'[q] = processes[q]
      /\ processes' \in [Processes -> Process \cup {Idle}]
    <2> HIDE DEF new
    <2> QED
        BY <1>2, <1>3, <1>7 DEF BaseInv, TypeOK
<1>10. /\ new.script = script /\ new.issue = i /\ new.at = firstStep(script) /\ new.saw = -1
       /\ ~new.truncated
    OBVIOUS
<1> HIDE DEF new
<1> QED
    BY <1>1, <1>3, <1>7, <1>8, <1>9, <1>10

(* A step, or the end, of one process; what it becomes is on its way.        *)
LEMMA OneMoves ==
    ASSUME BaseInv, NEW p \in Processes, step(p) \/ kill(p)
    PROVE  /\ processes' \in [Processes -> Process \cup {Idle}]
           /\ processes[p] # Idle /\ OnItsWay(processes[p]) /\ processes[p] \in Process
           /\ \A q \in Processes : q # p => processes'[q] = processes[q]
           /\ processes'[p] = Idle \/ (SameRun(p) /\ OnItsWay(processes'[p]))
<1>1. /\ \A q \in Processes : q # p => processes'[q] = processes[q]
      /\ \E new : move(p, new)
    <2>1. \E new : move(p, new)
        BY Zenon DEF step, kill, readProject, advance, scaffold, seedManifest, rebuildProjectIndex, readIssue,
                     appendLesson, readLessons, truncate, fill, rm, finish
    <2> QED
        BY <2>1, Moved DEF BaseInv
<1>2. processes[p] # Idle
    BY DEF step, kill, readProject, advance, scaffold, seedManifest, rebuildProjectIndex, readIssue,
           appendLesson, readLessons, truncate, fill, rm, at, isWriting
<1>3. processes[p] \in Process /\ OnItsWay(processes[p])
    BY <1>2, ProcessTyped
<1>4. \/ processes'[p] = Idle
      \/ /\ SameRun(p)
         /\ processes'[p].at = "computeGates" => processes'[p].data \in Record
         /\ processes'[p].at = "project" => Evidenced(processes'[p].data)
         /\ processes'[p].at = "index" => processes'[p].data \in IndexEntry
    <2>1. CASE readProject(p)
        BY <2>1, Reads
    <2>2. CASE advance(p)
        BY <2>2, Advances
    <2>3. CASE scaffold(p)
        BY <2>3, Scaffolds
    <2>4. CASE rebuildProjectIndex(p)
        BY <2>4, Rebuilds
    <2>5. CASE readIssue(p)
        BY <2>5, ReadsIssue
    <2>6. CASE appendLesson(p)
        BY <2>6, Appends
    <2>7. CASE readLessons(p)
        BY <2>7, ReadsLessons
    <2>8. CASE truncate(p)
        BY <1>3, <2>8, Truncates DEF OnItsWay
    <2>9. CASE fill(p)
        BY <2>9, Fills
    <2>10. CASE rm(p) \/ kill(p)
        BY <2>10, Moved DEF rm, kill, finish, BaseInv
    <2>11. CASE seedManifest(p)
        BY <2>11, SeedsManifest
    <2> QED
        BY <2>1, <2>2, <2>3, <2>4, <2>5, <2>6, <2>7, <2>8, <2>9, <2>10, <2>11 DEF step
<1>5. SameRun(p) => /\ processes'[p].at \in StepsOf(processes'[p].script)
                    /\ processes'[p].truncated => processes'[p].at \in Filling
                    /\ processes'[p].script = processes[p].script
                    /\ processes'[p].issue = processes[p].issue
    BY DEF SameRun
<1>6. processes'[p] = Idle \/ (SameRun(p) /\ OnItsWay(processes'[p]))
    BY <1>3, <1>4, <1>5 DEF OnItsWay
<1>7. processes' \in [Processes -> Process \cup {Idle}]
    <2>1. PICK new : move(p, new)
        BY <1>1
    <2>2. processes' = [processes EXCEPT ![p] = new] /\ processes'[p] = new
        BY <2>1, Moved DEF move, BaseInv
    <2>3. new \in Process \cup {Idle}
        BY <1>6, <2>2 DEF SameRun
    <2> QED
        BY <2>1, <2>3, Moved DEF BaseInv
<1> QED
    BY <1>1, <1>2, <1>3, <1>6, <1>7

LEMMA SummaryTyped ==
    ASSUME NEW taught \in Seq(1..MaxRuns)
    PROVE  summaryOf(taught) \in Text
<1> DEFINE from == IF Len(taught) > summarySize THEN Len(taught) - summarySize + 1 ELSE 1
<1>1. Len(taught) \in Nat /\ summarySize \in Nat /\ summarySize > 0
    BY KitAssumption DEF KitAssumption
<1>2. from \in Nat /\ from >= 1
    BY <1>1
<1> HIDE DEF from
<1>3. SubSeq(taught, from, Len(taught)) \in Seq(1..MaxRuns)
    <2>1. \A n \in from..Len(taught) : taught[n] \in 1..MaxRuns
        <3> TAKE n \in from..Len(taught)
        <3>1. n \in 1..Len(taught)
            BY <1>1, <1>2
        <3> QED
            BY <3>1, ElementOfSeq
    <2> QED
        BY <1>1, <1>2, <2>1, SubSeqProperties
<1> QED
    BY <1>1, <1>3 DEF summaryOf, Text, from

(* What a process writes has the shape of the file. *)
LEMMA Contents ==
    ASSUME BaseInv, NEW p \in Processes, isWriting(p)
    PROVE  LET process == processes[p] IN
           /\ process.at = "project" => contents(process) = process.data /\ Evidenced(process.data)
           /\ process.at = "index" => contents(process) \in IndexEntry
           /\ process.at = "summary" =>
                /\ contents(process) = summaryOf(process.seen)
                /\ process.seen \in Seq(1..MaxRuns) /\ summaryOf(process.seen) \in Text
           /\ process.at \in {"open", "closed"} => contents(process) \in Issue
           /\ process.at = "closed" =>
                contents(process).lesson = IF process.script \in Teaching THEN process.run ELSE None
<1>1. processes[p] \in Process /\ OnItsWay(processes[p])
    BY Writing
<1>2. processes[p].seen \in Seq(1..MaxRuns) /\ summaryOf(processes[p].seen) \in Text
    BY <1>1, SummaryTyped DEF Process
<1> QED
    BY <1>1, <1>2 DEF contents, OnItsWay, Process, Issue

(* A step of a process leaves each file as it is, or not whole, or fills the *)
(* one that it writes.                                                       *)
LEMMA FilesAfter ==
    ASSUME BaseInv, NEW p \in Processes, step(p) \/ kill(p)
    PROVE  /\ files' = [f \in Files |-> files'[f]]
           /\ \A f \in Files :
                \/ files'[f] = files[f]
                \/ truncate(p) /\ f = fileOf(processes[p]) /\ files'[f] = Torn
                \/ rm(p) /\ f = Open(processes[p].issue) /\ files'[f] = Absent
                \/ /\ fill(p) /\ f = fileOf(processes[p])
                   /\ files'[f] \in {contents(processes[p]), Mixed}
                   /\ files[f] = Torn => files'[f] = contents(processes[p])
<1>1. files = [f \in Files |-> files[f]]
    BY DEF BaseInv, FilesInv
<1>2. \/ files' = files
      \/ truncate(p) /\ files' = [files EXCEPT ![fileOf(processes[p])] = Torn]
      \/ rm(p) /\ files' = [files EXCEPT ![Open(processes[p].issue)] = Absent]
      \/ /\ fill(p)
         /\ \E text \in writtenOver(processes[p]) : files' = [files EXCEPT ![fileOf(processes[p])] = text]
    BY Zenon DEF step, kill, readProject, advance, scaffold, seedManifest, rebuildProjectIndex, readIssue,
                 appendLesson, readLessons, truncate, fill, rm
<1>3. \A text \in writtenOver(processes[p]) :
        /\ text \in {contents(processes[p]), Mixed}
        /\ files[fileOf(processes[p])] = Torn => text = contents(processes[p])
    BY DEF writtenOver
<1> QED
    BY <1>1, <1>2, <1>3

-------------------------------------------------------------------------------
(* The shapes, the evidence of a record, and the processes on their way.     *)
LEMMA InitBase == Init => BaseInv
<1> SUFFICES ASSUME Init PROVE BaseInv
    OBVIOUS
<1>1. PICK tree \in Trees, issues \in SUBSET Issues :
        /\ files = [f \in Files |->
              CASE f = Project -> tree.project
                [] f = Summary -> IF tree.lessons = <<>> THEN Absent ELSE Mixed
                [] f \in {Open(i) : i \in issues} -> [lesson |-> None]
                [] OTHER -> Absent]
        /\ artifacts = tree.artifacts /\ lessons = tree.lessons
        /\ created = issues
    BY DEF Init
<1>2. /\ tree.project \in Record \cup {Absent}
      /\ artifacts \subseteq Gates /\ lessons \in Seq(1..MaxRuns)
    BY <1>1, TreesAssumption
<1>0. files[Project] = tree.project
    <2>1. Project \in Files /\ Project # Summary /\ Project \notin {Open(i) : i \in issues}
        BY DEF Files, Project, Summary, Open
    <2> QED
        BY <1>1, <2>1
<1>3. isWhole(Project) => files[Project] \in Record
    BY <1>0, <1>2 DEF isWhole
<1>4. ~isWhole(Index) /\ ~isWhole(Summary)
    BY <1>1 DEF isWhole, Files, Project, Index, Summary, Open
<1>5. \A i \in Issues :
        /\ files[Open(i)] \in {Absent, [lesson |-> None]}
        /\ files[Closed(i)] = Absent
    BY <1>1 DEF Files, Project, Summary, Open, Closed
<1>6. [lesson |-> None] \in Issue
    BY DEF Issue
<1>7. files = [f \in Files |-> files[f]] /\ DOMAIN files = Files
    BY <1>1
<1>8. TypeOK
    <2>2. processes \in [Processes -> Process \cup {Idle}]
        BY DEF Init
    <2>3. runs \in 1..MaxRuns /\ edits \in 0..MaxEdits /\ crashes \in 0..MaxCrashes
        BY KitAssumption DEF Init
    <2> QED
        BY <1>2, <1>3, <1>4, <1>5, <1>6, <1>7, <2>2, <2>3 DEF TypeOK, isWhole
<1>9. ProcessInv
    BY DEF ProcessInv, Init
<1>10. FilesInv
    BY <1>1, <1>3, <1>7 DEF FilesInv, Init
<1> QED
    BY <1>8, <1>9, <1>10 DEF BaseInv

LEMMA FilesTyped ==
    ASSUME BaseInv, NEW p \in Processes, step(p) \/ kill(p)
    PROVE  /\ isWhole(Project)' => files'[Project] \in Record
           /\ isWhole(Project)' /\ saves' > 0 => Evidenced(files'[Project])
           /\ isWhole(Index)' => files'[Index] \in IndexEntry
           /\ isWhole(Summary)' => files'[Summary] \in Text
           /\ \A i \in Issues : /\ isWhole(Open(i))' => files'[Open(i)] \in Issue
                                /\ isWhole(Closed(i))' => files'[Closed(i)] \in Issue
<1> DEFINE file == fileOf(processes[p])
           new == contents(processes[p])
<1>1. \A f \in Files : \/ files'[f] = files[f] \/ files'[f] \in {Absent, Torn, Mixed}
                       \/ fill(p) /\ f = file /\ files'[f] = new
    BY FilesAfter
<1>2. fill(p) => isWriting(p)
    BY DEF fill
<1>3. fill(p) =>
        /\ file = Project => Evidenced(new)
        /\ file = Index => new \in IndexEntry
        /\ file = Summary => new \in Text
        /\ \A i : file \in {Open(i), Closed(i)} => new \in Issue
    BY <1>2, Writing, Contents DEF Writes, Project, Index, Summary, Open, Closed
<1>4. /\ {Project, Index, Summary} \subseteq Files
      /\ \A i \in Issues : Open(i) \in Files /\ Closed(i) \in Files
    BY DEF Files, Open, Closed
<1>5. /\ isWhole(Project) => files[Project] \in Record
      /\ isWhole(Project) /\ saves > 0 => Evidenced(files[Project])
      /\ isWhole(Index) => files[Index] \in IndexEntry
      /\ isWhole(Summary) => files[Summary] \in Text
      /\ \A i \in Issues : /\ isWhole(Open(i)) => files[Open(i)] \in Issue
                           /\ isWhole(Closed(i)) => files[Closed(i)] \in Issue
    BY DEF BaseInv, TypeOK, FilesInv
<1>6. \A f : isWhole(f) <=> files[f] \notin {Absent, Torn, Mixed}
    BY DEF isWhole
<1>7. \A f \in Files : files'[f] \notin {Absent, Torn, Mixed} =>
        \/ isWhole(f) /\ files'[f] = files[f]
        \/ fill(p) /\ f = file /\ files'[f] = new
    BY <1>1, <1>6
<1>8. /\ isWhole(Project)' => files'[Project] \notin {Absent, Torn, Mixed}
      /\ isWhole(Index)' => files'[Index] \notin {Absent, Torn, Mixed}
      /\ isWhole(Summary)' => files'[Summary] \notin {Absent, Torn, Mixed}
      /\ \A i \in Issues : /\ isWhole(Open(i))' => files'[Open(i)] \notin {Absent, Torn, Mixed}
                           /\ isWhole(Closed(i))' => files'[Closed(i)] \notin {Absent, Torn, Mixed}
    BY DEF isWhole, Project, Index, Summary, Open, Closed
<1>9. (fill(p) /\ file = Project) \/ saves' = saves
    <2>1. fill(p) /\ processes[p].at = "project" => file = Project
        BY <1>2, Writing DEF Writes
    <2> QED
        BY <2>1 DEF step, kill, readProject, advance, scaffold, seedManifest, rebuildProjectIndex,
               readIssue, appendLesson, readLessons, truncate, fill, rm, history
<1>10. Evidenced(new) => new \in Record
    BY DEF Evidenced
<1>11. fill(p) /\ file = Project => files'[Project] \in {new, Mixed}
    <2>1. \A text \in writtenOver(processes[p]) : text \in {new, Mixed}
        BY DEF writtenOver
    <2> QED
        BY <1>4, <2>1 DEF fill, BaseInv, TypeOK
<1> HIDE DEF file, new
<1> QED
    BY <1>3, <1>4, <1>5, <1>7, <1>8, <1>9, <1>10, <1>11

LEMMA BaseStep ==
    ASSUME BaseInv, NEW p \in Processes, step(p) \/ kill(p)
    PROVE  BaseInv'
<1>1. artifacts' \subseteq Gates
    BY KitAssumption
       DEF step, kill, readProject, advance, scaffold, seedManifest, rebuildProjectIndex, readIssue, appendLesson,
           readLessons, truncate, fill, rm, BaseInv, TypeOK
<1>2. lessons' \in Seq(1..MaxRuns)
    <2>1. CASE appendLesson(p)
        <3>1. lessons' = Append(lessons, processes[p].run)
            BY <2>1 DEF appendLesson
        <3> QED
            BY <2>1, <3>1, Appends, AppendProperties DEF BaseInv, TypeOK
    <2>2. CASE ~appendLesson(p)
        BY <2>2 DEF step, kill, readProject, advance, scaffold, seedManifest, rebuildProjectIndex, readIssue,
               readLessons, truncate, fill, rm, BaseInv, TypeOK
    <2> QED
        BY <2>1, <2>2
<1>3. runs' \in 1..MaxRuns /\ edits' \in 0..MaxEdits /\ crashes' \in 0..MaxCrashes
    <2>1. runs' = runs /\ edits' = edits /\ (crashes' = crashes \/ (kill(p) /\ crashes' = crashes + 1))
        BY DEF step, kill, readProject, advance, scaffold, seedManifest, rebuildProjectIndex, readIssue,
               appendLesson, readLessons, truncate, fill, rm, bounds
    <2>2. kill(p) => crashes < MaxCrashes
        BY DEF kill
    <2> QED
        BY <2>1, <2>2, KitAssumption DEF BaseInv, TypeOK
<1>4. saves' \in Nat /\ created' \subseteq Issues
    <2>1. CASE fill(p)
        <3>1. saves' \in {saves, saves + 1}
            BY <2>1 DEF fill
        <3>2. processes[p].at = "open" => processes[p].issue \in Issues
            BY <2>1, Writing DEF fill, Writes
        <3>3. created' \subseteq created \cup (IF processes[p].at = "open" THEN {processes[p].issue} ELSE {})
            BY <2>1 DEF fill
        <3> QED
            BY <3>1, <3>2, <3>3 DEF BaseInv, FilesInv
    <2>2. CASE ~fill(p)
        BY <2>2 DEF step, kill, readProject, advance, scaffold, seedManifest, rebuildProjectIndex, readIssue,
               appendLesson, readLessons, truncate, rm, history, BaseInv, FilesInv
    <2> QED
        BY <2>1, <2>2
<1>5. files' = [f \in Files |-> files'[f]] /\ DOMAIN files' = Files
    BY FilesAfter
<1>6. TypeOK'
    BY <1>1, <1>2, <1>3, <1>5, FilesTyped, OneMoves DEF TypeOK, Evidenced, Open, Closed
<1>7. FilesInv'
    BY <1>4, <1>5, FilesTyped DEF FilesInv
<1>8. ProcessInv'
    BY OneMoves DEF ProcessInv, BaseInv
<1> QED
    BY <1>6, <1>7, <1>8 DEF BaseInv

LEMMA NextBase == BaseInv /\ [Next]_vars => BaseInv'
<1> SUFFICES ASSUME BaseInv, [Next]_vars PROVE BaseInv'
    OBVIOUS
<1>1. CASE UNCHANGED vars
    BY <1>1 DEF vars, bounds, history, BaseInv, TypeOK, FilesInv, ProcessInv, isWhole
<1>2. CASE \E g \in Gates : edit(g)
    <2>1. PICK g \in Gates : edit(g)
        BY <1>2
    <2>2. artifacts' \subseteq Gates /\ edits' \in 0..MaxEdits
        BY <2>1, KitAssumption DEF edit, BaseInv, TypeOK
    <2> QED
        BY <2>1, <2>2 DEF edit, history, BaseInv, TypeOK, FilesInv, ProcessInv, isWhole
<1>3. CASE \E script \in Scripts, i \in Issues \cup {None} : start(script, i)
    <2>1. PICK script \in Scripts, i \in Issues \cup {None} : start(script, i)
        BY <1>3
    <2>2. /\ runs' \in 1..MaxRuns /\ processes' \in [Processes -> Process \cup {Idle}]
          /\ ProcessInv'
        BY <2>1, Starts, KitAssumption DEF BaseInv, TypeOK, ProcessInv
    <2>3. UNCHANGED <<artifacts, files, lessons, edits, crashes, saves, created>>
        BY <2>1 DEF start, history
    <2> QED
        BY <2>2, <2>3 DEF BaseInv, TypeOK, FilesInv, isWhole
<1>4. CASE \E p \in Processes : step(p) \/ kill(p)
    BY <1>4, BaseStep
<1> QED
    BY <1>1, <1>2, <1>3, <1>4 DEF Next

-------------------------------------------------------------------------------
(* What a process that works on the record has read, if nobody has saved     *)
(* since: the record as it is, and a step beyond it.                         *)
UpToDate(process) ==
    /\ process.at \in {"scaffold", "manifest", "computeGates", "project"} =>
          process.saw <= saves
    /\ process.at = "computeGates" /\ process.saw = saves => process.data = saved
    /\ process.at = "project" /\ process.script # "intake" /\ process.saw = saves =>
          /\ saved.state < process.data.state
          /\ IsPrefix(saved.history, process.data.history)

RecordInv ==
    /\ isWhole(Project) => files[Project] = saved
    /\ \A p \in Processes : processes[p] # Idle => UpToDate(processes[p])

LEMMA InitRecord == Init => RecordInv
<1> SUFFICES ASSUME Init PROVE RecordInv
    OBVIOUS
<1>1. files[Project] = saved
    <2>1. Project \in Files /\ Project # Summary
        BY DEF Files, Project, Summary
    <2>2. PICK tree \in Trees, issues \in SUBSET Issues :
            /\ files = [f \in Files |->
                  CASE f = Project -> tree.project
                    [] f = Summary -> IF tree.lessons = <<>> THEN Absent ELSE Mixed
                    [] f \in {Open(i) : i \in issues} -> [lesson |-> None]
                    [] OTHER -> Absent]
            /\ saved = tree.project
        BY DEF Init
    <2>3. Project \notin {Open(i) : i \in issues}
        BY DEF Project, Open
    <2> QED
        BY <2>1, <2>2, <2>3
<1>2. \A p \in Processes : processes[p] = Idle
    BY DEF Init
<1> QED
    BY <1>1, <1>2 DEF RecordInv

(* Only the filling of the record counts as a save. *)
LEMMA Saves ==
    ASSUME BaseInv, NEW p \in Processes, step(p) \/ kill(p)
    PROVE  /\ \/ /\ fill(p) /\ processes[p].at = "project"
                 /\ saves' = saves + 1 /\ saved' = processes[p].data
                 /\ processes'[p] = Idle /\ files'[Project] \in {processes[p].data, Mixed}
              \/ UNCHANGED <<saves, saved>> /\ ~(fill(p) /\ processes[p].at = "project")
           /\ isWhole(Project)' =>
                \/ isWhole(Project) /\ files'[Project] = files[Project]
                \/ fill(p) /\ processes[p].at = "project"
<1>1. CASE fill(p) /\ processes[p].at = "project"
    <2>1. fileOf(processes[p]) = Project /\ contents(processes[p]) = processes[p].data
        BY <1>1, Writing, Contents DEF fill, Writes
    <2>2. files'[Project] \in {processes[p].data, Mixed}
        <3>1. \E text \in writtenOver(processes[p]) : files' = [files EXCEPT ![Project] = text]
            BY <1>1, <2>1 DEF fill
        <3>2. \A text \in writtenOver(processes[p]) : text \in {contents(processes[p]), Mixed}
            BY DEF writtenOver
        <3>3. Project \in DOMAIN files
            BY DEF BaseInv, TypeOK, Files
        <3> QED
            BY <2>1, <3>1, <3>2, <3>3
    <2>3. saves' = saves + 1 /\ saved' = processes[p].data
        BY <1>1 DEF fill
    <2>4. processes'[p] = Idle
        BY <1>1, Fills
    <2> QED
        BY <1>1, <2>2, <2>3, <2>4
<1>2. CASE ~(fill(p) /\ processes[p].at = "project")
    <2>1. UNCHANGED <<saves, saved>>
        BY <1>2 DEF step, kill, readProject, advance, scaffold, seedManifest, rebuildProjectIndex, readIssue,
               appendLesson, readLessons, truncate, fill, rm, history
    <2>2. Project \in Files
        BY DEF Files
    <2>3. fill(p) => fileOf(processes[p]) # Project
        <3>1. fill(p) => isWriting(p)
            BY DEF fill
        <3>2. fill(p) => Writes(processes[p]) /\ processes[p].at # "project"
            BY <1>2, <3>1, Writing
        <3> QED
            BY <3>2 DEF Writes, Project, Index, Summary, Open, Closed
    <2>4. files'[Project] = files[Project] \/ files'[Project] \in {Absent, Torn, Mixed}
        BY <2>2, <2>3, FilesAfter
    <2>5. isWhole(Project)' <=> files'[Project] \notin {Absent, Torn, Mixed}
        BY DEF isWhole, Project
    <2>6. isWhole(Project) <=> files[Project] \notin {Absent, Torn, Mixed}
        BY DEF isWhole
    <2> QED
        BY <1>2, <2>1, <2>4, <2>5, <2>6
<1> QED
    BY <1>1, <1>2

LEMMA RecordStep ==
    ASSUME BaseInv, RecordInv, NEW p \in Processes, step(p) \/ kill(p)
    PROVE  RecordInv'
<1>0. saves \in Nat
    BY DEF BaseInv, FilesInv
<1>1. UpToDate(processes[p]) /\ processes[p] # Idle
    BY OneMoves DEF RecordInv
<1>2. isWhole(Project)' => (files[Project] = saved)'
    <2>1. isWhole(Project) => files[Project] = saved
        BY DEF RecordInv
    <2>2. ASSUME isWhole(Project)' PROVE files'[Project] = saved'
        <3>1. CASE isWhole(Project) /\ files'[Project] = files[Project]
                   /\ UNCHANGED <<saves, saved>>
            BY <2>1, <3>1
        <3>2. CASE fill(p) /\ processes[p].at = "project"
            <4>1. files'[Project] \in {processes[p].data, Mixed} /\ saved' = processes[p].data
                BY <3>2, Saves
            <4>2. files'[Project] # Mixed
                BY <2>2 DEF isWhole, Project
            <4> QED
                BY <4>1, <4>2
        <3> QED
            BY <2>2, <3>1, <3>2, Saves
    <2> QED
        BY <2>2 DEF Project
<1>3. ASSUME NEW q \in Processes, q # p, processes'[q] # Idle
      PROVE  UpToDate(processes[q])'
    <2>1. processes'[q] = processes[q] /\ UpToDate(processes[q])
        BY <1>3, OneMoves DEF RecordInv
    <2>2. saves' = saves + 1 \/ UNCHANGED <<saves, saved>>
        BY Saves
    <2>3. processes[q] \in Process
        BY <1>3, <2>1, ProcessTyped
    <2>4. processes[q].saw \in Int
        BY <2>3 DEF Process
    <2> QED
        BY <1>0, <2>1, <2>2, <2>4 DEF UpToDate
<1>4. ASSUME processes'[p] # Idle
      PROVE  UpToDate(processes[p])'
    <2>0. UNCHANGED <<saves, saved>>
        BY <1>4, Saves
    <2>1. CASE readProject(p)
        <3>1. isWhole(Project) => files[Project] = saved
            BY DEF RecordInv
        <3> QED
            BY <1>0, <2>0, <2>1, <3>1, Reads DEF UpToDate
    <2>2. CASE advance(p)
        <3>1. /\ processes'[p].at = "project" /\ processes'[p].saw = processes[p].saw
              /\ processes[p].at = "computeGates"
              /\ processes[p].data.state < processes'[p].data.state
              /\ processes'[p].data.history = Append(processes[p].data.history, processes[p].run)
            BY <1>4, <2>2, Advances
        <3>2. processes[p].data \in Record /\ processes[p].run \in 1..MaxRuns
            BY <3>1, OneMoves DEF OnItsWay, Process
        <3>3. processes[p].data.history \in Seq(1..MaxRuns)
            BY <3>2 DEF Record
        <3>4. IsPrefix(processes[p].data.history, processes'[p].data.history)
            BY <3>1, <3>2, <3>3, PrefixOfAppend
        <3> QED
            BY <1>1, <2>0, <3>1, <3>4 DEF UpToDate
    <2>3. CASE scaffold(p)
        <3>1. /\ processes'[p].at = "manifest" /\ processes'[p].script = "intake"
              /\ processes[p].at = "scaffold" /\ processes'[p].saw = processes[p].saw
            BY <2>3, Scaffolds DEF SameRun
        <3> QED
            BY <1>1, <2>0, <3>1 DEF UpToDate
    <2>9. CASE seedManifest(p)
        <3>1. /\ processes'[p].at \in {"manifest", "project"} /\ processes'[p].script = "intake"
              /\ processes[p].at = "manifest" /\ processes'[p].saw = processes[p].saw
            BY <2>9, SeedsManifest DEF SameRun
        <3> QED
            BY <1>1, <2>0, <3>1 DEF UpToDate
    <2>4. CASE rebuildProjectIndex(p)
        BY <2>4, Rebuilds DEF UpToDate
    <2>5. CASE readIssue(p) \/ appendLesson(p) \/ readLessons(p)
        <3>1. processes'[p].at \notin {"scaffold", "manifest", "computeGates", "project"}
            BY <1>4, <2>5, ReadsIssue, Appends, ReadsLessons
        <3> QED
            BY <3>1 DEF UpToDate
    <2>6. CASE truncate(p)
        BY <1>1, <2>0, <2>6, Truncates DEF UpToDate, SameRun
    <2>7. CASE fill(p)
        BY <1>4, <2>7, Fills DEF UpToDate
    <2>8. ~rm(p) /\ ~kill(p)
        BY <1>4, Moved DEF rm, kill, finish, BaseInv
    <2> QED
        BY <2>1, <2>2, <2>3, <2>4, <2>5, <2>6, <2>7, <2>8, <2>9 DEF step
<1> QED
    BY <1>2, <1>3, <1>4 DEF RecordInv

LEMMA NextRecord == BaseInv /\ RecordInv /\ [Next]_vars => RecordInv'
<1> SUFFICES ASSUME BaseInv, RecordInv, [Next]_vars PROVE RecordInv'
    OBVIOUS
<1>1. CASE UNCHANGED vars \/ \E g \in Gates : edit(g)
    <2>1. UNCHANGED <<files, processes, saves, saved>>
        BY <1>1 DEF vars, edit, history
    <2> QED
        BY <2>1 DEF RecordInv, UpToDate, isWhole
<1>2. CASE \E script \in Scripts, i \in Issues \cup {None} : start(script, i)
    <2>1. PICK script \in Scripts, i \in Issues \cup {None} : start(script, i)
        BY <1>2
    <2>2. UNCHANGED <<files, saves, saved>>
        BY <2>1 DEF start, history
    <2>3. PICK p \in Processes :
            /\ \A q \in Processes : q # p => processes'[q] = processes[q]
            /\ processes'[p].at = firstStep(script) /\ processes'[p].saw = -1
        BY <2>1, Starts
    <2>4. processes'[p].at \notin {"computeGates", "project"}
        BY <2>3 DEF firstStep
    <2>5. saves \in Nat
        BY DEF BaseInv, FilesInv
    <2> QED
        BY <2>2, <2>3, <2>4, <2>5 DEF RecordInv, UpToDate, isWhole
<1>3. CASE \E p \in Processes : step(p) \/ kill(p)
    BY <1>3, RecordStep
<1> QED
    BY <1>1, <1>2, <1>3 DEF Next

-------------------------------------------------------------------------------
(* What a process that teaches has read, and where its lesson is.            *)
InLessons(r) == \E n \in DOMAIN lessons : lessons[n] = r

Taught(process) ==
    /\ process.at = "summary" =>
          IsPrefix(process.seen, lessons) /\ (raced \/ process.seen = lessons)
    /\ \/ process.at \in {"readLessons", "summary"}
       \/ process.at \in {"closed", "rm"} /\ process.script \in Teaching
       => InLessons(process.run)

OneAtLessons == raced \/ \A p, q \in atLessons : p = q

(* The summary while one is at the lessons alone, and the lessons that a     *)
(* whole summary is of.                                                      *)
SummaryTorn ==
    raced \/ \A p \in atLessons :
        processes[p].at = "summary" /\ processes[p].truncated => files[Summary] = Torn

Summarises(text) ==
    \E taught \in Seq(1..MaxRuns) : IsPrefix(taught, lessons) /\ text = summaryOf(taught)

SummaryInv ==
    /\ isWhole(Summary) => Summarises(files[Summary])
    /\ lessons # <<>> /\ ~raced /\ atLessons = {} => files[Summary] = summaryOf(lessons)

ClosedLessons ==
    \A i \in Issues :
        isWhole(Closed(i)) /\ files[Closed(i)].lesson # None => InLessons(files[Closed(i)].lesson)

LessonInv ==
    /\ \A p \in Processes : processes[p] # Idle => Taught(processes[p])
    /\ OneAtLessons /\ SummaryTorn /\ SummaryInv /\ ClosedLessons

LEMMA InitLesson == Init => LessonInv
<1> SUFFICES ASSUME Init PROVE LessonInv
    OBVIOUS
<1>1. ~isWhole(Summary) /\ \A i \in Issues : files[Closed(i)] = Absent
    BY DEF Init, isWhole, Files, Project, Summary, Open, Closed
<1>2. \A p \in Processes : processes[p] = Idle
    BY DEF Init
<1>3. raced <=> lessons # <<>>
    BY DEF Init
<1> QED
    BY <1>1, <1>2, <1>3 DEF LessonInv, OneAtLessons, SummaryTorn, SummaryInv, ClosedLessons,
       atLessons, isWhole

LEMMA LessonsGrow ==
    ASSUME BaseInv, NEW p \in Processes, step(p) \/ kill(p)
    PROVE  /\ \/ /\ appendLesson(p) /\ lessons' = Append(lessons, processes[p].run)
                 /\ raced' = (atLessons # {})
              \/ /\ ~appendLesson(p) /\ lessons' = lessons
                 /\ raced' = raced \/ (kill(p) /\ raced' = (raced \/ p \in atLessons))
           /\ \A s \in Seq(1..MaxRuns) : IsPrefix(s, lessons) => IsPrefix(s, lessons')
           /\ \A r : InLessons(r) => InLessons(r)'
           /\ appendLesson(p) => InLessons(processes[p].run)'
<1>1. CASE appendLesson(p)
    <2>1. lessons' = Append(lessons, processes[p].run) /\ raced' = (atLessons # {})
        BY <1>1 DEF appendLesson
    <2>2. processes[p].run \in 1..MaxRuns /\ lessons \in Seq(1..MaxRuns)
        BY <1>1, Appends DEF BaseInv, TypeOK
    <2>3. /\ DOMAIN lessons' = 1..(Len(lessons) + 1) /\ DOMAIN lessons = 1..Len(lessons)
          /\ Len(lessons) \in Nat
          /\ \A n \in 1..Len(lessons) : lessons'[n] = lessons[n]
          /\ lessons'[Len(lessons) + 1] = processes[p].run
        BY <2>1, <2>2, AppendProperties
    <2>4. \A r : InLessons(r) => InLessons(r)'
        BY <2>3 DEF InLessons
    <2>5. InLessons(processes[p].run)'
        <3>1. \E n \in DOMAIN lessons' : lessons'[n] = processes[p].run
            BY <2>3
        <3>2. processes'[p].run = processes[p].run
            BY <1>1, Appends DEF SameRun
        <3> QED
            BY <3>1, <3>2 DEF InLessons
    <2>6. \A s \in Seq(1..MaxRuns) : IsPrefix(s, lessons) => IsPrefix(s, lessons')
        BY <2>1, <2>2, PrefixAppend
    <2> QED
        BY <1>1, <2>1, <2>4, <2>5, <2>6
<1>2. CASE ~appendLesson(p)
    <2>1. lessons' = lessons
        BY <1>2 DEF step, kill, readProject, advance, scaffold, seedManifest, rebuildProjectIndex, readIssue,
               readLessons, truncate, fill, rm
    <2>2. raced' = raced \/ (kill(p) /\ raced' = (raced \/ p \in atLessons))
        BY <1>2 DEF step, kill, readProject, advance, scaffold, seedManifest, rebuildProjectIndex, readIssue,
               readLessons, truncate, fill, rm, history
    <2> QED
        BY <1>2, <2>1, <2>2 DEF InLessons
<1> QED
    BY <1>1, <1>2

(* Who is at the lessons: one leaves when it has filled the summary, or is   *)
(* killed, and comes when it has added its lesson.                           *)
LEMMA AtLessonsAfter ==
    ASSUME BaseInv, NEW p \in Processes, step(p) \/ kill(p)
    PROVE  /\ \A q \in Processes : q # p => (q \in atLessons' <=> q \in atLessons)
           /\ appendLesson(p) => p \in atLessons' /\ p \notin atLessons
           /\ ~appendLesson(p) /\ p \in atLessons' => p \in atLessons
           /\ p \in atLessons /\ p \notin atLessons' =>
                 kill(p) \/ (fill(p) /\ processes[p].at = "summary")
<1>1. \A q \in Processes :
        /\ q \in atLessons <=> processes[q] # Idle /\ processes[q].at \in {"readLessons", "summary"}
        /\ q \in atLessons' <=> processes'[q] # Idle /\ processes'[q].at \in {"readLessons", "summary"}
    BY DEF atLessons
<1>2. SameRun(p) => processes'[p] # Idle
    BY WholeAssumption DEF SameRun
<1>3. appendLesson(p) => p \in atLessons' /\ p \notin atLessons
    BY <1>1, <1>2, Appends
<1>4. ASSUME ~appendLesson(p), p \in atLessons' PROVE p \in atLessons
    <2>1. processes'[p] # Idle /\ processes'[p].at \in {"readLessons", "summary"}
        BY <1>1, <1>4
    <2>2. ~rm(p) /\ ~kill(p)
        BY <2>1, Moved DEF rm, kill, finish, BaseInv
    <2>3. readLessons(p) \/ truncate(p)
        BY <1>4, <2>1, <2>2, Reads, Advances, Scaffolds, SeedsManifest, Rebuilds, ReadsIssue, Fills DEF step
    <2>4. processes[p].at \in {"readLessons", "summary"}
        BY <2>1, <2>3, ReadsLessons, Truncates
    <2> QED
        BY <1>1, <2>4, OneMoves
<1>5. ASSUME p \in atLessons, p \notin atLessons', ~kill(p)
      PROVE  fill(p) /\ processes[p].at = "summary"
    <2>1. processes[p].at \in {"readLessons", "summary"}
        BY <1>1, <1>5
    <2>2. ~readLessons(p) /\ ~truncate(p)
        BY <1>1, <1>2, <1>5, <2>1, ReadsLessons, Truncates
    <2>3. fill(p) \/ rm(p)
        BY <1>5, <2>1, <2>2, Reads, Advances, Scaffolds, SeedsManifest, Rebuilds, ReadsIssue, Appends DEF step
    <2>4. ~rm(p)
        BY <2>1 DEF rm, at
    <2> QED
        BY <2>1, <2>3, <2>4, Fills
<1> QED
    BY <1>1, <1>3, <1>4, <1>5, OneMoves

LEMMA TaughtStep ==
    ASSUME BaseInv, LessonInv, NEW p \in Processes, step(p) \/ kill(p)
    PROVE  \A q \in Processes : processes'[q] # Idle => Taught(processes[q])'
<1>1. \A q \in Processes : processes[q] # Idle => Taught(processes[q]) /\ processes[q] \in Process
    BY ProcessTyped DEF LessonInv
<1>2. ASSUME NEW q \in Processes, q # p, processes'[q] # Idle
      PROVE  Taught(processes[q])'
    <2>1. PICK process : process = processes[q] /\ process = processes'[q]
        BY <1>2, OneMoves
    <2>2. Taught(process) /\ process \in Process
        BY <1>1, <1>2, <2>1
    <2>3. process.seen \in Seq(1..MaxRuns)
        BY <2>2 DEF Process
    <2>4. process.at = "summary" => raced' \/ (~appendLesson(p) /\ lessons' = lessons /\ ~raced')
        <3>1. process.at = "summary" => q \in atLessons
            BY <1>2, <2>1 DEF atLessons
        <3>2. raced' \in BOOLEAN \/ raced' = raced
            BY LessonsGrow
        <3> QED
            BY <3>1, <3>2, LessonsGrow
    <2>5. process.at = "summary" => raced' \/ process.seen = lessons'
        <3>1. ~appendLesson(p) => (raced => raced')
            BY LessonsGrow
        <3> QED
            BY <2>2, <2>4, <3>1 DEF Taught
    <2>6. \A r : InLessons(r) => InLessons(r)'
        BY LessonsGrow
    <2>7. process.at = "summary" => IsPrefix(process.seen, lessons')
        BY <2>2, <2>3, LessonsGrow DEF Taught
    <2>8. Taught(process)'
        BY <2>2, <2>5, <2>6, <2>7 DEF Taught
    <2> QED
        BY <2>1, <2>8
<1>3. ASSUME processes'[p] # Idle
      PROVE  Taught(processes[p])'
    <2>0. processes[p] # Idle /\ Taught(processes[p]) /\ processes[p] \in Process
        BY <1>1, OneMoves
    <2>1. CASE appendLesson(p)
        BY <2>1, LessonsGrow, Appends DEF Taught
    <2>2. CASE readLessons(p)
        <3>1. /\ processes'[p].at = "summary" /\ processes'[p].seen = lessons
              /\ processes'[p].run = processes[p].run /\ processes[p].at = "readLessons"
            BY <2>2, ReadsLessons DEF SameRun
        <3>2. lessons' = lessons
            BY <2>2 DEF readLessons
        <3>3. IsPrefix(lessons, lessons)
            BY PrefixItself DEF BaseInv, TypeOK
        <3>4. InLessons(processes[p].run)
            BY <2>0, <3>1 DEF Taught
        <3>5. InLessons(processes[p].run)'
            BY <3>1, <3>2, <3>4 DEF InLessons
        <3> QED
            BY <3>1, <3>2, <3>3, <3>5 DEF Taught
    <2>3. CASE truncate(p) \/ fill(p)
        <3>1. UNCHANGED <<lessons, raced>>
            BY <2>3 DEF truncate, fill, history
        <3>2. /\ processes'[p].script = processes[p].script
              /\ processes'[p].run = processes[p].run
            BY <1>3, <2>3, Truncates, Fills DEF SameRun
        <3>3. \/ /\ processes'[p].at = processes[p].at
                 /\ processes'[p].seen = processes[p].seen
              \/ /\ processes[p].at \in {"summary", "closed"}
                 /\ processes'[p].at \in {"closed", "rm"}
            BY <1>3, <2>3, Truncates, Fills
        <3>4. processes'[p].at \in {"readLessons", "summary", "closed", "rm"}
                /\ (processes'[p].at \in {"closed", "rm"} => processes[p].script \in Teaching)
                => InLessons(processes[p].run)
            BY <1>3, <2>0, <2>3, Truncates, Fills DEF Taught
        <3>5. InLessons(processes[p].run) => InLessons(processes[p].run)'
            BY <3>1, <3>2 DEF InLessons
        <3>6. processes'[p].at = "summary" =>
                /\ processes'[p].seen = processes[p].seen
                /\ IsPrefix(processes[p].seen, lessons) /\ (raced \/ processes[p].seen = lessons)
            BY <2>0, <3>3 DEF Taught
        <3> QED
            BY <3>1, <3>2, <3>4, <3>5, <3>6 DEF Taught
    <2>4. CASE readIssue(p)
        <3>1. /\ processes'[p].at \notin {"readLessons", "summary", "rm"}
              /\ processes'[p].at = "closed" => processes'[p].script \notin Teaching
            BY <1>3, <2>4, ReadsIssue DEF SameRun
        <3> QED
            BY <3>1 DEF Taught
    <2>5. CASE readProject(p) \/ advance(p) \/ scaffold(p) \/ seedManifest(p) \/ rebuildProjectIndex(p)
        <3>1. processes'[p].at \in {"computeGates", "manifest", "project", "index"}
            BY <1>3, <2>5, Reads, Advances, Scaffolds, SeedsManifest, Rebuilds
        <3> QED
            BY <3>1 DEF Taught
    <2>6. ~rm(p) /\ ~kill(p)
        BY <1>3, Moved DEF rm, kill, finish, BaseInv
    <2> QED
        BY <2>1, <2>2, <2>3, <2>4, <2>5, <2>6 DEF step
<1> QED
    BY <1>2, <1>3

LEMMA LessonStep ==
    ASSUME BaseInv, LessonInv, NEW p \in Processes, step(p) \/ kill(p)
    PROVE  LessonInv'
<1>1. \A q \in Processes : processes'[q] # Idle => Taught(processes[q])'
    BY TaughtStep
<1>0. /\ ~appendLesson(p) => (raced => raced') /\ lessons' = lessons
      /\ atLessons \subseteq Processes /\ atLessons' \subseteq Processes
    BY LessonsGrow DEF atLessons
<1>2. OneAtLessons'
    <2>2. CASE appendLesson(p) /\ atLessons = {}
        <3>1. \A q \in atLessons' : q = p
            BY <1>0, <2>2, AtLessonsAfter
        <3> QED
            BY <3>1 DEF OneAtLessons
    <2>3. CASE appendLesson(p) /\ atLessons # {}
        BY <2>3 DEF appendLesson, OneAtLessons
    <2>4. CASE ~appendLesson(p)
        <3>1. \A q \in atLessons' : q \in atLessons
            BY <1>0, <2>4, AtLessonsAfter
        <3> QED
            BY <1>0, <2>4, <3>1 DEF OneAtLessons, LessonInv
    <2> QED
        BY <2>2, <2>3, <2>4
<1>5. \/ files'[Summary] = files[Summary]
      \/ truncate(p) /\ processes[p].at = "summary" /\ p \in atLessons /\ files'[Summary] = Torn
      \/ /\ fill(p) /\ processes[p].at = "summary" /\ p \in atLessons
         /\ files'[Summary] \in {summaryOf(processes[p].seen), Mixed}
         /\ files[Summary] = Torn => files'[Summary] = summaryOf(processes[p].seen)
    <2>1. Summary \in Files
        BY DEF Files
    <2>2. truncate(p) \/ fill(p) => isWriting(p) /\ processes[p] # Idle
        BY Writing DEF truncate, fill
    <2>3. (truncate(p) \/ fill(p)) /\ Summary = fileOf(processes[p]) =>
            processes[p].at = "summary" /\ p \in atLessons
        BY <2>2, Writing DEF Writes, Project, Index, Summary, Open, Closed, atLessons
    <2>4. isWriting(p) /\ processes[p].at = "summary" =>
            contents(processes[p]) = summaryOf(processes[p].seen)
        BY Contents
    <2>5. Summary # Open(processes[p].issue)
        BY DEF Summary, Open
    <2> QED
        BY <2>1, <2>2, <2>3, <2>4, <2>5, FilesAfter
<1>6. SummaryTorn'
    <2> SUFFICES ASSUME ~raced', NEW q \in atLessons',
                        processes'[q].at = "summary", processes'[q].truncated
                 PROVE  files'[Summary] = Torn
        BY DEF SummaryTorn, Summary
    <2>1. ~appendLesson(p)
        <3>1. ASSUME appendLesson(p) PROVE FALSE
            <4>1. atLessons = {}
                BY <3>1 DEF appendLesson
            <4>2. q = p
                BY <1>0, <3>1, <4>1, AtLessonsAfter
            <4> QED
                BY <3>1, <4>2, Appends
        <3> QED
            BY <3>1
    <2>2. ~raced /\ q \in atLessons /\ q \in Processes
        BY <1>0, <2>1, AtLessonsAfter
    <2>3. \A r \in atLessons : r = q
        BY <2>2 DEF LessonInv, OneAtLessons
    <2>4. CASE q # p
        <3>1. p \notin atLessons /\ processes'[q] = processes[q]
            BY <2>2, <2>3, <2>4, OneMoves
        <3> QED
            BY <1>5, <2>2, <3>1 DEF LessonInv, SummaryTorn
    <2>5. CASE q = p
        <3>1. readLessons(p) \/ truncate(p)
            <4>1. ~rm(p) /\ ~kill(p)
                BY <2>5, Moved DEF rm, kill, finish, BaseInv, atLessons
            <4> QED
                BY <2>1, <2>5, <4>1, Reads, Advances, Scaffolds, SeedsManifest, Rebuilds, ReadsIssue,
                   Fills DEF step, atLessons
        <3>2. CASE readLessons(p)
            BY <2>5, <3>2, ReadsLessons
        <3>3. CASE truncate(p)
            <4>1. processes[p].at = "summary" /\ isWriting(p) /\ processes[p] # Idle
                BY <2>5, <3>3, Truncates, Writing DEF truncate
            <4>2. files' = [files EXCEPT ![Summary] = Torn]
                BY <3>3, <4>1, Writing DEF truncate, Writes
            <4>3. Summary \in DOMAIN files
                BY DEF BaseInv, TypeOK, Files
            <4> QED
                BY <4>2, <4>3
        <3> QED
            BY <3>1, <3>2, <3>3
    <2> QED
        BY <2>4, <2>5
<1>3. SummaryInv'
    <2>1. ASSUME isWhole(Summary)' PROVE Summarises(files[Summary])'
        <3>1. files'[Summary] \notin {Absent, Torn, Mixed}
            BY <2>1 DEF isWhole, Summary
        <3>2. CASE files'[Summary] = files[Summary]
            <4>1. Summarises(files[Summary])
                BY <3>1, <3>2 DEF isWhole, LessonInv, SummaryInv
            <4>2. PICK taught \in Seq(1..MaxRuns) :
                    IsPrefix(taught, lessons) /\ files[Summary] = summaryOf(taught)
                BY <4>1 DEF Summarises
            <4>3. IsPrefix(taught, lessons')
                BY <4>2, LessonsGrow
            <4> QED
                BY <3>2, <4>2, <4>3 DEF Summarises, Summary
        <3>3. CASE files'[Summary] # files[Summary]
            <4>1. /\ fill(p) /\ processes[p].at = "summary" /\ p \in atLessons
                  /\ files'[Summary] = summaryOf(processes[p].seen)
                BY <1>5, <3>1, <3>3
            <4>2. IsPrefix(processes[p].seen, lessons) /\ processes[p].seen \in Seq(1..MaxRuns)
                BY <4>1, ProcessTyped DEF LessonInv, Taught, atLessons, Process
            <4>3. lessons' = lessons
                BY <4>1 DEF fill
            <4> QED
                BY <4>1, <4>2, <4>3 DEF Summarises, Summary
        <3> QED
            BY <3>2, <3>3
    <2>2. ASSUME lessons' # <<>>, ~raced', atLessons' = {}
          PROVE  files'[Summary] = summaryOf(lessons')
        <3>1. ~appendLesson(p)
            BY <2>2, AtLessonsAfter
        <3>2. lessons' = lessons /\ ~raced
            BY <1>0, <2>2, <3>1
        <3>3. CASE p \notin atLessons
            <4>1. atLessons = {}
                BY <1>0, <2>2, <3>3, AtLessonsAfter
            <4> QED
                BY <1>5, <2>2, <3>2, <3>3, <4>1 DEF LessonInv, SummaryInv
        <3>4. CASE p \in atLessons
            <4>1. ~kill(p)
                BY <2>2, <3>4 DEF kill
            <4>2. fill(p) /\ processes[p].at = "summary" /\ processes[p].truncated
                BY <2>2, <3>4, <4>1, AtLessonsAfter DEF fill
            <4>3. files[Summary] = Torn
                BY <3>2, <3>4, <4>2 DEF LessonInv, SummaryTorn
            <4>4. processes[p].seen = lessons
                BY <3>2, <3>4, <4>2 DEF LessonInv, Taught, atLessons
            <4>5. files'[Summary] = contents(processes[p])
                <5>1. fileOf(processes[p]) = Summary /\ Summary \in Files
                    BY <4>2, Writing DEF fill, Writes, Files
                <5>2. \E text \in writtenOver(processes[p]) : files' = [files EXCEPT ![Summary] = text]
                    BY <4>2, <5>1 DEF fill
                <5>3. \A text \in writtenOver(processes[p]) : text = contents(processes[p])
                    BY <4>3, <5>1 DEF writtenOver
                <5> QED
                    BY <5>1, <5>2, <5>3 DEF BaseInv, TypeOK
            <4>6. contents(processes[p]) = summaryOf(processes[p].seen)
                BY <4>2, Contents DEF fill
            <4> QED
                BY <3>2, <4>4, <4>5, <4>6
        <3> QED
            BY <3>3, <3>4
    <2>3. summaryOf(lessons)' = summaryOf(lessons')
        BY DEF summaryOf
    <2> QED
        BY <2>1, <2>2, <2>3 DEF SummaryInv, Summary
<1>4. ClosedLessons'
    <2> SUFFICES ASSUME NEW i \in Issues, isWhole(Closed(i))', files'[Closed(i)].lesson # None
                 PROVE  InLessons(files[Closed(i)].lesson)'
        BY DEF ClosedLessons, Closed
    <2>1. Closed(i) \in Files /\ files'[Closed(i)] \notin {Absent, Torn, Mixed}
        BY DEF Files, isWhole, Closed
    <2>2. Closed(i)' = Closed(i)
        BY DEF Closed
    <2>3. CASE fill(p) /\ fileOf(processes[p]) = Closed(i)
        <3>1. processes[p].at = "closed" /\ processes[p] # Idle
            BY <2>3, Writing DEF fill, Writes, Project, Index, Summary, Open, Closed
        <3>2. contents(processes[p]).lesson
                = IF processes[p].script \in Teaching THEN processes[p].run ELSE None
            BY <2>3, <3>1, Contents DEF fill
        <3>3. files'[Closed(i)] = contents(processes[p])
            <4>1. \E text \in writtenOver(processes[p]) : files' = [files EXCEPT ![Closed(i)] = text]
                BY <2>3 DEF fill
            <4>2. \A text \in writtenOver(processes[p]) : text \in {contents(processes[p]), Mixed}
                BY DEF writtenOver
            <4> QED
                BY <2>1, <4>1, <4>2 DEF BaseInv, TypeOK
        <3>4. processes[p].script \in Teaching /\ files'[Closed(i)].lesson = processes[p].run
            BY <3>2, <3>3
        <3>5. InLessons(processes[p].run) /\ lessons' = lessons
            BY <2>3, <3>1, <3>4 DEF LessonInv, Taught, fill
        <3> QED
            BY <2>2, <3>4, <3>5 DEF InLessons
    <2>4. CASE ~(fill(p) /\ fileOf(processes[p]) = Closed(i))
        <3>1. files'[Closed(i)] = files[Closed(i)] /\ isWhole(Closed(i))
            BY <2>1, <2>4, FilesAfter DEF isWhole
        <3>2. InLessons(files[Closed(i)].lesson)
            BY <3>1 DEF LessonInv, ClosedLessons
        <3>3. PICK r : r = files[Closed(i)].lesson /\ r = files'[Closed(i)].lesson
            BY <3>1
        <3>4. InLessons(r)'
            BY <3>2, <3>3, LessonsGrow
        <3> QED
            BY <2>2, <3>3, <3>4 DEF InLessons
    <2> QED
        BY <2>3, <2>4
<1> QED
    BY <1>1, <1>2, <1>3, <1>4, <1>6 DEF LessonInv

LEMMA NextLesson == BaseInv /\ LessonInv /\ [Next]_vars => LessonInv'
<1> SUFFICES ASSUME BaseInv, LessonInv, [Next]_vars PROVE LessonInv'
    OBVIOUS
<1>1. CASE UNCHANGED vars \/ \E g \in Gates : edit(g)
    <2>1. UNCHANGED <<files, processes, lessons, raced>>
        BY <1>1 DEF vars, edit, history
    <2> QED
        BY <2>1 DEF LessonInv, Taught, OneAtLessons, SummaryTorn, SummaryInv, Summarises, summaryOf,
               ClosedLessons, atLessons, InLessons, isWhole
<1>2. CASE \E script \in Scripts, i \in Issues \cup {None} : start(script, i)
    <2>1. PICK script \in Scripts, i \in Issues \cup {None} : start(script, i)
        BY <1>2
    <2>2. UNCHANGED <<files, lessons, raced>>
        BY <2>1 DEF start, history
    <2>3. PICK p \in Processes :
            /\ processes[p] = Idle
            /\ \A q \in Processes : q # p => processes'[q] = processes[q]
            /\ processes'[p].at = firstStep(script)
        BY <2>1, Starts
    <2>4. processes'[p].at \notin {"readLessons", "summary", "closed", "rm"}
        BY <2>3 DEF firstStep
    <2>5. atLessons' = atLessons
        BY <2>3, <2>4 DEF atLessons
    <2>6. \A q \in Processes : processes'[q] # Idle => Taught(processes[q])'
        BY <2>2, <2>3, <2>4 DEF LessonInv, Taught, InLessons
    <2>7. OneAtLessons' /\ SummaryTorn'
        <3>1. \A q \in atLessons' : q \in atLessons /\ processes'[q] = processes[q]
            BY <2>3, <2>4, <2>5 DEF atLessons
        <3> QED
            BY <2>2, <2>5, <3>1 DEF LessonInv, OneAtLessons, SummaryTorn, Summary
    <2>8. SummaryInv'
        BY <2>2, <2>5 DEF LessonInv, SummaryInv, Summarises, summaryOf, isWhole
    <2>9. ClosedLessons'
        BY <2>2 DEF LessonInv, ClosedLessons, InLessons, isWhole
    <2> QED
        BY <2>6, <2>7, <2>8, <2>9 DEF LessonInv
<1>3. CASE \E p \in Processes : step(p) \/ kill(p)
    BY <1>3, LessonStep
<1> QED
    BY <1>1, <1>2, <1>3 DEF Next

-------------------------------------------------------------------------------
(* Who has an issue: a new one has nobody else; one that was created and is  *)
(* not contested has at most one run that closes it, and is open until then. *)
Closer(p, i) ==
    processes[p] # Idle /\ processes[p].issue = i /\ processes[p].at \notin {"open", "readIssue"}

NewAlone ==
    \A p \in Processes : processes[p] # Idle /\ processes[p].script = "new" =>
        /\ processes[p].issue \notin created
        /\ \A q \in Processes :
              processes[q] # Idle /\ processes[q].issue = processes[p].issue => q = p

ClosesCreated ==
    \A p \in Processes : processes[p] # Idle /\ processes[p].script \in Closing =>
        processes[p].issue \in created

ClosedBeforeRemoved ==
    \A i \in Issues \ contested : \A p \in Processes :
        processes[p] # Idle /\ processes[p].at = "rm" /\ processes[p].issue = i => isWhole(Closed(i))

CloserAlone ==
    \A i \in Issues \ contested : \A p \in Processes : Closer(p, i) =>
        /\ isWhole(Open(i))
        /\ \A q \in Processes : Closer(q, i) => q = p

CreatedKept ==
    \A i \in created : isWhole(Open(i)) \/ isWhole(Closed(i)) \/ i \in contested

(* What one of them has truncated is torn when it fills it. *)
NewTorn ==
    \A p \in Processes :
        processes[p] # Idle /\ processes[p].at = "open" /\ processes[p].truncated =>
            files[Open(processes[p].issue)] = Torn

CloserTorn ==
    \A i \in Issues \ contested : \A p \in Processes :
        processes[p] # Idle /\ processes[p].at = "closed" /\ processes[p].issue = i
            /\ processes[p].truncated => files[Closed(i)] = Torn

IssueInv ==
    /\ NewTorn /\ CloserTorn
    /\ NewAlone /\ ClosesCreated /\ ClosedBeforeRemoved /\ CloserAlone /\ CreatedKept

LEMMA InitIssue == Init => IssueInv
<1> SUFFICES ASSUME Init PROVE IssueInv
    OBVIOUS
<1>1. \A p \in Processes : processes[p] = Idle
    BY DEF Init
<1>2. \A i \in created : Open(i) \in Files /\ files[Open(i)] = [lesson |-> None]
    BY DEF Init, Files, Project, Summary, Open
<1>3. [lesson |-> None] \notin {Absent, Torn, Mixed}
    BY WholeAssumption DEF Issue
<1> QED
    BY <1>1, <1>2, <1>3
       DEF IssueInv, NewAlone, ClosesCreated, ClosedBeforeRemoved, CloserAlone, CreatedKept, NewTorn, CloserTorn, Closer,
           isWhole

(* What a step does to the two places of an issue. *)
LEMMA PlacesAfter ==
    ASSUME BaseInv, NEW p \in Processes, step(p) \/ kill(p), NEW i \in Issues
    PROVE  /\ isWhole(Open(i)) =>
                \/ isWhole(Open(i))'
                \/ processes[p].at \in {"open", "rm"} /\ processes[p].issue = i
           /\ isWhole(Closed(i)) =>
                \/ isWhole(Closed(i))'
                \/ processes[p].at = "closed" /\ processes[p].issue = i
           /\ processes[p].at = "open" /\ processes[p].issue = i =>
                /\ truncate(p) => files'[Open(i)] = Torn
                /\ fill(p) /\ files[Open(i)] = Torn => isWhole(Open(i))'
           /\ processes[p].at = "closed" /\ processes[p].issue = i =>
                /\ truncate(p) => files'[Closed(i)] = Torn
                /\ fill(p) /\ files[Closed(i)] = Torn => isWhole(Closed(i))'
           /\ \/ files'[Open(i)] = files[Open(i)]
              \/ processes[p].at \in {"open", "rm"} /\ processes[p].issue = i
           /\ \/ files'[Closed(i)] = files[Closed(i)]
              \/ processes[p].at = "closed" /\ processes[p].issue = i
<1> DEFINE file == fileOf(processes[p])
<1>1. Open(i) \in Files /\ Closed(i) \in Files
    BY DEF Files, Open, Closed
<1>2. \A f \in Files :
        \/ files'[f] = files[f]
        \/ truncate(p) /\ f = file
        \/ rm(p) /\ f = Open(processes[p].issue)
        \/ fill(p) /\ f = file
    BY FilesAfter
<1>3. truncate(p) \/ fill(p) =>
        /\ file = Open(i) => processes[p].at = "open" /\ processes[p].issue = i
        /\ file = Closed(i) => processes[p].at = "closed" /\ processes[p].issue = i
    BY Writing DEF truncate, fill, Writes, Project, Index, Summary, Open, Closed
<1>4. truncate(p) \/ fill(p) =>
                 /\ processes[p].at = "open" => file = Open(processes[p].issue)
                 /\ processes[p].at = "closed" => file = Closed(processes[p].issue)
                 /\ processes[p].at \in {"open", "closed"} =>
                        contents(processes[p]) \notin {Absent, Torn, Mixed}
    BY Writing, Contents, WholeAssumption DEF truncate, fill, Writes
<1>5. rm(p) => /\ processes[p].at = "rm" /\ Closed(i) # Open(processes[p].issue)
               /\ Open(i) = Open(processes[p].issue) => processes[p].issue = i
    BY DEF rm, at, Open, Closed
<1>6. /\ isWhole(Open(i)) <=> files[Open(i)] \notin {Absent, Torn, Mixed}
      /\ isWhole(Closed(i)) <=> files[Closed(i)] \notin {Absent, Torn, Mixed}
      /\ isWhole(Open(i))' <=> files'[Open(i)] \notin {Absent, Torn, Mixed}
      /\ isWhole(Closed(i))' <=> files'[Closed(i)] \notin {Absent, Torn, Mixed}
    BY DEF isWhole, Open, Closed
<1>7. file \in Files =>
        /\ truncate(p) => files'[file] = Torn
        /\ fill(p) /\ files[file] = Torn => files'[file] = contents(processes[p])
    <2>1. files[file] = Torn => writtenOver(processes[p]) = {contents(processes[p])}
        BY DEF writtenOver
    <2> QED
        BY <2>1 DEF truncate, fill, BaseInv, TypeOK
<1> HIDE DEF file
<1> QED
    BY <1>1, <1>2, <1>3, <1>4, <1>5, <1>6, <1>7

(* Who closes an issue after a step has closed it before, or begins to.      *)
LEMMA ClosersAfter ==
    ASSUME BaseInv, NEW p \in Processes, step(p) \/ kill(p), NEW i \in Issues
    PROVE  /\ \A q \in Processes : q # p => (Closer(q, i)' <=> Closer(q, i))
           /\ Closer(p, i)' =>
                \/ Closer(p, i) /\ ~rm(p)
                \/ /\ readIssue(p) /\ processes[p].issue = i /\ isWhole(Open(i))
                   /\ i \in contested' \/ \A q \in Processes : q # p => ~Closer(q, i)
           /\ processes[p].at \notin {"open", "readIssue"} /\ processes[p].issue = i => Closer(p, i)
           /\ contested \subseteq contested'
<1>1. \A q \in Processes : q # p => (Closer(q, i)' <=> Closer(q, i))
    BY OneMoves DEF Closer
<1>2. processes[p].at \notin {"open", "readIssue"} /\ processes[p].issue = i => Closer(p, i)
    BY OneMoves DEF Closer
<1>3. contested \subseteq contested'
    BY DEF step, kill, readProject, advance, scaffold, seedManifest, rebuildProjectIndex, readIssue,
           appendLesson, readLessons, truncate, fill, rm, history
<1>4. ASSUME Closer(p, i)', ~(Closer(p, i) /\ ~rm(p))
      PROVE  /\ readIssue(p) /\ processes[p].issue = i /\ isWhole(Open(i))
             /\ i \in contested' \/ \A q \in Processes : q # p => ~Closer(q, i)
    <2>1. processes'[p] # Idle
        BY <1>4 DEF Closer
    <2>2. ~rm(p) /\ ~kill(p) /\ SameRun(p)
        BY <2>1, OneMoves, Moved DEF rm, kill, finish, BaseInv
    <2>3. processes[p].issue = i /\ processes[p].at \in {"open", "readIssue"}
        BY <1>2, <1>4, <2>2 DEF Closer, SameRun
    <2>4. processes'[p].at \notin {"open", "readIssue"}
        BY <1>4 DEF Closer
    <2>5. readIssue(p)
        BY <2>1, <2>2, <2>3, <2>4, Reads, Advances, Scaffolds, SeedsManifest, Rebuilds, Appends, ReadsLessons,
           Truncates, Fills DEF step
    <2>6. /\ isWhole(Open(i))
          /\ contested' = IF {q \in Processes \ {p} :
                                /\ processes[q] # Idle /\ processes[q].issue = i
                                /\ processes[q].at \notin {"open", "readIssue"}} = {}
                            THEN contested ELSE contested \cup {i}
        BY <2>1, <2>3, <2>5, ReadsIssue
    <2>7. i \in contested' \/ \A q \in Processes : q # p => ~Closer(q, i)
        BY <2>6 DEF Closer
    <2> QED
        BY <2>3, <2>5, <2>6, <2>7
<1> QED
    BY <1>1, <1>2, <1>3, <1>4

LEMMA StepOfScript ==
    ASSUME BaseInv, NEW p \in Processes, processes[p] # Idle
    PROVE  /\ processes[p].at = "open" <=> processes[p].script = "new"
           /\ processes[p].at \in {"readIssue", "closed", "rm"} => processes[p].script \in Closing
           /\ processes[p].issue \in Issues <=> processes[p].script \in Closing \cup {"new"}
<1>1. processes[p] \in Process /\ OnItsWay(processes[p])
    BY ProcessTyped
<1>2. processes[p].script \in Scripts /\ processes[p].at \in StepsOf(processes[p].script)
    BY <1>1 DEF Process, OnItsWay
<1>3. /\ processes[p].at = "open" <=> processes[p].script = "new"
      /\ processes[p].at \in {"readIssue", "closed", "rm"} => processes[p].script \in Closing
    BY <1>2 DEF StepsOf, Scripts, Advancing, Closing
<1> QED
    BY <1>1, <1>3, KitAssumption DEF OnItsWay

LEMMA IssueStep ==
    ASSUME BaseInv, IssueInv, NEW p \in Processes, step(p) \/ kill(p)
    PROVE  IssueInv'
<1>0. /\ NewTorn /\ CloserTorn
      /\ NewAlone /\ ClosesCreated /\ ClosedBeforeRemoved /\ CloserAlone /\ CreatedKept
      /\ created \subseteq Issues
    BY DEF IssueInv, BaseInv, FilesInv
<1>1. \A q \in Processes : processes'[q] # Idle =>
        /\ processes[q] # Idle
        /\ processes'[q].script = processes[q].script /\ processes'[q].issue = processes[q].issue
    BY OneMoves DEF SameRun
<1>2. /\ created \subseteq created'
      /\ \A i \in created' : i \in created
            \/ (fill(p) /\ processes[p].at = "open" /\ processes[p].issue = i /\ processes'[p] = Idle)
    <2>1. CASE fill(p)
        <3>1. created' = created \cup (IF processes[p].at = "open" THEN {processes[p].issue} ELSE {})
            BY <2>1 DEF fill
        <3> QED
            BY <2>1, <3>1, Fills
    <2>2. CASE ~fill(p)
        BY <2>2 DEF step, kill, readProject, advance, scaffold, seedManifest, rebuildProjectIndex, readIssue,
               appendLesson, readLessons, truncate, rm, history
    <2> QED
        BY <2>1, <2>2
<1>3. contested \subseteq contested'
    BY DEF step, kill, readProject, advance, scaffold, seedManifest, rebuildProjectIndex, readIssue,
           appendLesson, readLessons, truncate, fill, rm, history
<1>4. NewAlone'
    <2> SUFFICES ASSUME NEW q \in Processes, processes'[q] # Idle, processes'[q].script = "new"
                 PROVE  /\ processes'[q].issue \notin created'
                        /\ \A r \in Processes :
                              processes'[r] # Idle /\ processes'[r].issue = processes'[q].issue
                                => r = q
        BY DEF NewAlone
    <2>1. /\ processes[q].issue \notin created
          /\ \A r \in Processes :
                processes[r] # Idle /\ processes[r].issue = processes[q].issue => r = q
        BY <1>0, <1>1 DEF NewAlone
    <2>2. processes[p] # Idle
        BY OneMoves
    <2> QED
        BY <1>1, <1>2, <2>1, <2>2
<1>5. ClosesCreated'
    BY <1>0, <1>1, <1>2 DEF ClosesCreated
<1>6. ClosedBeforeRemoved'
    <2> SUFFICES ASSUME NEW i \in Issues, i \notin contested', NEW q \in Processes,
                        processes'[q] # Idle, processes'[q].at = "rm", processes'[q].issue = i
                 PROVE  isWhole(Closed(i))'
        BY DEF ClosedBeforeRemoved
    <2>1. CASE q # p
        <3>1. processes[q] # Idle /\ processes[q].at = "rm" /\ processes[q].issue = i
            BY <2>1, OneMoves
        <3>2. isWhole(Closed(i)) /\ Closer(q, i)
            BY <1>0, <1>3, <3>1 DEF ClosedBeforeRemoved, Closer
        <3>3. ~Closer(p, i)
            BY <1>0, <1>3, <2>1, <3>2 DEF CloserAlone
        <3> QED
            BY <3>2, <3>3, PlacesAfter, ClosersAfter
    <2>2. CASE q = p
        <3>1. SameRun(p) /\ processes[p].issue = i
            BY <1>1, <2>2, OneMoves
        <3>2. ~rm(p) /\ ~kill(p)
            BY <2>2, Moved DEF rm, kill, finish, BaseInv
        <3>3. truncate(p) \/ fill(p)
            BY <2>2, <3>2, Reads, Advances, Scaffolds, SeedsManifest, Rebuilds, ReadsIssue, Appends, ReadsLessons
               DEF step
        <3>4. ~truncate(p)
            <4>1. truncate(p) => processes[p].at = "rm" /\ Writes(processes[p])
                BY <2>2, Truncates, Writing DEF truncate
            <4> QED
                BY <4>1 DEF Writes
        <3>5. fill(p) /\ processes[p].at = "closed"
            BY <2>2, <3>3, <3>4, Fills
        <3>6. files[Closed(i)] = Torn
            BY <1>0, <1>3, <3>1, <3>5, OneMoves DEF CloserTorn, fill
        <3> QED
            BY <3>1, <3>5, <3>6, PlacesAfter
    <2> QED
        BY <2>1, <2>2
<1>7. CloserAlone'
    <2> SUFFICES ASSUME NEW i \in Issues, i \notin contested', NEW q \in Processes, Closer(q, i)'
                 PROVE  /\ isWhole(Open(i))'
                        /\ \A r \in Processes : Closer(r, i)' => r = q
        BY DEF CloserAlone
    <2>1. i \notin contested
        BY <1>3
    <2>2. CASE readIssue(p) /\ processes[p].issue = i /\ isWhole(Open(i))
                 /\ \A r \in Processes : r # p => ~Closer(r, i)
        <3>1. \A r \in Processes : Closer(r, i)' => r = p
            BY <2>2, ClosersAfter
        <3>2. isWhole(Open(i))'
            BY <2>2, PlacesAfter DEF readIssue, at
        <3> QED
            BY <3>1, <3>2
    <2>3. CASE ~(readIssue(p) /\ processes[p].issue = i /\ isWhole(Open(i))
                 /\ \A r \in Processes : r # p => ~Closer(r, i))
        <3>1. \A r \in Processes : Closer(r, i)' => Closer(r, i)
            BY <2>3, ClosersAfter
        <3>2. isWhole(Open(i)) /\ \A r \in Processes : Closer(r, i) => r = q
            BY <1>0, <2>1, <3>1 DEF CloserAlone
        <3>3. ~(processes[p].at = "open" /\ processes[p].issue = i)
            <4>1. ASSUME processes[p].at = "open", processes[p].issue = i PROVE FALSE
                <5>1. processes[p] # Idle /\ processes[p].script = "new"
                    BY <4>1, OneMoves, StepOfScript
                <5>2. q = p
                    BY <1>0, <3>1, <4>1, <5>1 DEF NewAlone, Closer
                <5> QED
                    BY <3>1, <4>1, <5>2 DEF Closer
            <4> QED
                BY <4>1
        <3>4. ~(processes[p].at = "rm" /\ processes[p].issue = i)
            <4>1. ASSUME processes[p].at = "rm", processes[p].issue = i PROVE FALSE
                <5>1. Closer(p, i)
                    BY <4>1, ClosersAfter
                <5>2. q = p
                    BY <3>2, <5>1
                <5>3. ~rm(p) /\ ~kill(p)
                    BY <5>2, Moved DEF rm, kill, finish, BaseInv, Closer
                <5>4. truncate(p) \/ fill(p)
                    BY <4>1, <5>3, Reads, Advances, Scaffolds, SeedsManifest, Rebuilds, ReadsIssue, Appends,
                       ReadsLessons DEF step
                <5> QED
                    BY <4>1, <5>4, Writing DEF truncate, fill, Writes
            <4> QED
                BY <4>1
        <3> QED
            BY <3>1, <3>2, <3>3, <3>4, PlacesAfter
    <2> QED
        BY <2>2, <2>3
<1>8. CreatedKept'
    <2> SUFFICES ASSUME NEW i \in created', i \notin contested'
                 PROVE  isWhole(Open(i))' \/ isWhole(Closed(i))'
        BY DEF CreatedKept, Open, Closed
    <2>0. processes[p] # Idle
        BY OneMoves
    <2>1. CASE i \notin created
        <3>1. fill(p) /\ processes[p].at = "open" /\ processes[p].issue = i
            BY <1>2, <2>1
        <3>2. i \in Issues
            BY <2>0, <3>1, StepOfScript
        <3>3. files[Open(i)] = Torn
            BY <1>0, <2>0, <3>1 DEF NewTorn, fill
        <3> QED
            BY <3>1, <3>2, <3>3, PlacesAfter
    <2>2. CASE i \in created
        <3>1. i \in Issues /\ i \notin contested /\ (isWhole(Open(i)) \/ isWhole(Closed(i)))
            BY <1>0, <1>3, <2>2 DEF CreatedKept
        <3>2. ~(processes[p].at = "open" /\ processes[p].issue = i)
            BY <1>0, <2>0, <2>2, StepOfScript DEF NewAlone
        <3>3. CASE processes[p].at = "rm" /\ processes[p].issue = i
            <4>1. isWhole(Closed(i))
                BY <1>0, <2>0, <3>1, <3>3 DEF ClosedBeforeRemoved
            <4> QED
                BY <3>1, <3>3, <4>1, PlacesAfter
        <3>4. CASE processes[p].at = "closed" /\ processes[p].issue = i
            <4>1. isWhole(Open(i))
                BY <1>0, <3>1, <3>4, ClosersAfter DEF CloserAlone
            <4> QED
                BY <3>1, <3>2, <3>4, <4>1, PlacesAfter
        <3> QED
            BY <3>1, <3>2, <3>3, <3>4, PlacesAfter
    <2> QED
        BY <2>1, <2>2
<1>9. NewTorn'
    <2> SUFFICES ASSUME NEW q \in Processes, processes'[q] # Idle, processes'[q].at = "open",
                        processes'[q].truncated
                 PROVE  files'[Open(processes'[q].issue)] = Torn
        BY DEF NewTorn, Open
    <2>1. CASE q # p
        <3>1. processes'[q] = processes[q] /\ processes[p] # Idle
            BY <2>1, OneMoves
        <3>2. processes[q].script = "new" /\ processes[q].issue \in Issues
            BY <3>1, StepOfScript
        <3>3. processes[p].issue # processes[q].issue
            BY <1>0, <2>1, <3>1, <3>2 DEF NewAlone
        <3>4. files[Open(processes[q].issue)] = Torn
            BY <1>0, <3>1 DEF NewTorn
        <3> QED
            BY <3>1, <3>2, <3>3, <3>4, PlacesAfter
    <2>2. CASE q = p
        <3>1. SameRun(p) /\ processes'[p].issue = processes[p].issue
            BY <1>1, <2>2, OneMoves
        <3>2. ~rm(p) /\ ~kill(p)
            BY <2>2, Moved DEF rm, kill, finish, BaseInv
        <3>3. truncate(p) /\ processes[p].at = "open"
            BY <2>2, <3>2, Reads, Advances, Scaffolds, SeedsManifest, Rebuilds, ReadsIssue, Appends,
               ReadsLessons, Truncates, Fills DEF step
        <3>4. processes[p].issue \in Issues
            BY <3>3, OneMoves, StepOfScript
        <3> QED
            BY <2>2, <3>1, <3>3, <3>4, PlacesAfter
    <2> QED
        BY <2>1, <2>2
<1>10. CloserTorn'
    <2> SUFFICES ASSUME NEW i \in Issues, i \notin contested', NEW q \in Processes,
                        processes'[q] # Idle, processes'[q].at = "closed",
                        processes'[q].issue = i, processes'[q].truncated
                 PROVE  files'[Closed(i)] = Torn
        BY DEF CloserTorn, Closed
    <2>1. CASE q # p
        <3>1. processes'[q] = processes[q]
            BY <2>1, OneMoves
        <3>2. files[Closed(i)] = Torn /\ Closer(q, i)
            BY <1>0, <1>3, <3>1 DEF CloserTorn, Closer
        <3>3. ~Closer(p, i)
            BY <1>0, <1>3, <2>1, <3>2 DEF CloserAlone
        <3> QED
            BY <3>2, <3>3, PlacesAfter, ClosersAfter
    <2>2. CASE q = p
        <3>1. SameRun(p) /\ processes[p].issue = i
            BY <1>1, <2>2, OneMoves
        <3>2. ~rm(p) /\ ~kill(p)
            BY <2>2, Moved DEF rm, kill, finish, BaseInv
        <3>3. truncate(p) /\ processes[p].at = "closed"
            BY <2>2, <3>2, Reads, Advances, Scaffolds, SeedsManifest, Rebuilds, ReadsIssue, Appends,
               ReadsLessons, Truncates, Fills DEF step
        <3> QED
            BY <3>1, <3>3, PlacesAfter
    <2> QED
        BY <2>1, <2>2
<1> QED
    BY <1>4, <1>5, <1>6, <1>7, <1>8, <1>9, <1>10 DEF IssueInv

LEMMA IssueStart ==
    ASSUME BaseInv, IssueInv, NEW script \in Scripts, NEW i \in Issues \cup {None}, start(script, i)
    PROVE  IssueInv'
<1>0. NewTorn /\ CloserTorn /\ NewAlone /\ ClosesCreated /\ ClosedBeforeRemoved /\ CloserAlone /\ CreatedKept
    BY DEF IssueInv
<1>1. UNCHANGED <<files, created, contested>>
    BY DEF start, history
<1>2. PICK p \in Processes :
        /\ processes[p] = Idle
        /\ \A q \in Processes : q # p => processes'[q] = processes[q]
        /\ processes'[p].script = script /\ processes'[p].issue = i
        /\ processes'[p].at = firstStep(script) /\ ~processes'[p].truncated
    BY Starts
<1>3. /\ script = "new" =>
            /\ i \in Issues /\ i \notin created
            /\ \A q \in Processes : processes[q] # Idle => processes[q].issue # i
      /\ script \in Closing => i \in created /\ i \in Issues
      /\ script \notin Closing \cup {"new"} => i \notin Issues
    BY KitAssumption DEF start, isFresh, Closing, BaseInv, FilesInv
<1>4. /\ firstStep(script) # "rm"
      /\ script \in Closing \cup {"new"} => firstStep(script) \in {"open", "readIssue"}
    BY DEF firstStep, Closing, Advancing
<1>5. \A q \in Processes : processes[q] # Idle =>
        (processes[q].script = "new" => processes[q].issue \in Issues)
    BY StepOfScript
<1>6. NewAlone'
    <2> SUFFICES ASSUME NEW q \in Processes, processes'[q] # Idle, processes'[q].script = "new"
                 PROVE  /\ processes'[q].issue \notin created
                        /\ \A r \in Processes :
                              processes'[r] # Idle /\ processes'[r].issue = processes'[q].issue
                                => r = q
        BY <1>1 DEF NewAlone
    <2>1. CASE q = p
        BY <1>2, <1>3, <2>1
    <2>2. CASE q # p
        <3>1. /\ processes'[q] = processes[q] /\ processes[q].issue \notin created
              /\ processes[q].issue \in Issues
              /\ \A r \in Processes :
                    processes[r] # Idle /\ processes[r].issue = processes[q].issue => r = q
            BY <1>0, <1>2, <1>5, <2>2 DEF NewAlone
        <3>2. i # processes[q].issue
            BY <1>3, <2>2, <3>1
        <3> QED
            BY <1>2, <3>1, <3>2
    <2> QED
        BY <2>1, <2>2
<1>7. ClosesCreated'
    BY <1>0, <1>1, <1>2, <1>3 DEF ClosesCreated
<1>8. ClosedBeforeRemoved'
    BY <1>0, <1>1, <1>2, <1>4 DEF ClosedBeforeRemoved, isWhole, Closed
<1>9. \A j \in Issues, q \in Processes : Closer(q, j)' => Closer(q, j)
    BY <1>2, <1>3, <1>4 DEF Closer
<1>10. CloserAlone' /\ CreatedKept'
    BY <1>0, <1>1, <1>9 DEF CloserAlone, CreatedKept, isWhole, Open, Closed
<1>11. NewTorn' /\ CloserTorn'
    BY <1>0, <1>1, <1>2 DEF NewTorn, CloserTorn, Open, Closed
<1> QED
    BY <1>6, <1>7, <1>8, <1>10, <1>11 DEF IssueInv

LEMMA NextIssue == BaseInv /\ IssueInv /\ [Next]_vars => IssueInv'
<1> SUFFICES ASSUME BaseInv, IssueInv, [Next]_vars PROVE IssueInv'
    OBVIOUS
<1>1. CASE UNCHANGED vars \/ \E g \in Gates : edit(g)
    <2>1. UNCHANGED <<files, processes, created, contested>>
        BY <1>1 DEF vars, edit, history
    <2> QED
        BY <2>1 DEF IssueInv, NewAlone, ClosesCreated, ClosedBeforeRemoved, CloserAlone,
               CreatedKept, NewTorn, CloserTorn, Closer, isWhole
<1>2. CASE \E script \in Scripts, i \in Issues \cup {None} : start(script, i)
    BY <1>2, IssueStart
<1>3. CASE \E p \in Processes : step(p) \/ kill(p)
    BY <1>3, IssueStep
<1> QED
    BY <1>1, <1>2, <1>3 DEF Next

-------------------------------------------------------------------------------
KitInv == BaseInv /\ RecordInv /\ LessonInv /\ IssueInv

LEMMA SpecKitInv == Spec => []KitInv
<1>1. Init => KitInv
    BY InitBase, InitRecord, InitLesson, InitIssue DEF KitInv
<1>2. KitInv /\ [Next]_vars => KitInv'
    BY NextBase, NextRecord, NextLesson, NextIssue DEF KitInv
<1> QED
    BY <1>1, <1>2, PTL DEF Spec

(* The files and the scripts keep their shapes. *)
THEOREM KitTyped == Spec => []TypeOK
<1>1. KitInv => TypeOK
    BY DEF KitInv, BaseInv
<1> QED
    BY <1>1, SpecKitInv, PTL

(* A record beyond the first state that a script has saved lists every gate  *)
(* up to its state among those it was saved with, whatever runs beside       *)
(* kit-advance, and whatever record was found, the hand-written ones of the  *)
(* tree included.                                                            *)
THEOREM KitAdvanced == Spec => []AdvancedOnEvidence
<1>1. KitInv => AdvancedOnEvidence
    BY DEF KitInv, BaseInv, FilesInv, Evidenced, AdvancedOnEvidence
<1> QED
    BY <1>1, SpecKitInv, PTL

(* A save by a run whose reading is up to date and was readable keeps the    *)
(* history, and goes forward.                                                *)
THEOREM KitHistory == Spec => HistoryKept
<1>1. KitInv /\ [Next]_vars =>
        [\A p \in Processes :
           /\ at(p, "project") /\ saves' # saves /\ processes'[p] = Idle
           /\ processes[p].script # "intake" /\ processes[p].saw = saves
           => /\ IsPrefix(saved.history, saved'.history)
              /\ saved.state < saved'.state]_vars
    <2> SUFFICES ASSUME KitInv, Next, NEW p \in Processes,
                        at(p, "project"), saves' # saves, processes'[p] = Idle,
                        processes[p].script # "intake", processes[p].saw = saves
                 PROVE  /\ IsPrefix(saved.history, saved'.history)
                        /\ saved.state < saved'.state
        BY Zenon
    <2>1. BaseInv /\ RecordInv
        BY DEF KitInv
    <2>2. PICK q \in Processes : step(q) \/ kill(q)
        BY DEF Next, edit, start, history
    <2>3. fill(q) /\ saved' = processes[q].data
        BY <2>1, <2>2, Saves
    <2>4. q = p
        BY <2>1, <2>2, OneMoves DEF at
    <2>5. UpToDate(processes[p]) /\ processes[p].at = "project"
        BY <2>1 DEF RecordInv, at
    <2> QED
        BY <2>3, <2>4, <2>5 DEF UpToDate
<1> QED
    BY <1>1, SpecKitInv, PTL DEF Spec, HistoryKept

(* An issue that was created can be read as open or as closed, also after a  *)
(* crash, unless a second run closes it too; and the lesson that a closed    *)
(* one refers to is in the lessons.                                          *)
THEOREM KitIssues == Spec => []IssueKept
<1>1. KitInv => IssueKept
    BY DEF KitInv, BaseInv, FilesInv, IssueInv, LessonInv, CreatedKept, ClosedLessons, InLessons,
           IssueKept
<1> QED
    BY <1>1, SpecKitInv, PTL

(* The summary that a script wrote is that of the first so many lessons, and *)
(* of all of them once the last was added in peace: any number of lessons,   *)
(* of which the summary tells any number, and whatever runs wrote over each  *)
(* other before.                                                             *)
THEOREM KitSummary == Spec => []SummaryOfLessons
<1>1. ASSUME KitInv PROVE SummaryOfLessons
    <2>1. SummaryInv /\ lessons \in Seq(1..MaxRuns)
        BY <1>1 DEF KitInv, LessonInv, BaseInv, TypeOK
    <2>2. ASSUME isWhole(Summary)
          PROVE  /\ files[Summary].total <= Len(lessons)
                 /\ files[Summary] = summaryOf(SubSeq(lessons, 1, files[Summary].total))
        <3>1. PICK taught \in Seq(1..MaxRuns) :
                IsPrefix(taught, lessons) /\ files[Summary] = summaryOf(taught)
            BY <2>1, <2>2 DEF SummaryInv, Summarises
        <3>2. files[Summary].total = Len(taught)
            BY <3>1 DEF summaryOf
        <3>3. Len(taught) <= Len(lessons) /\ taught = SubSeq(lessons, 1, Len(taught))
            BY <2>1, <3>1, LenProperties, SubSeqProperties DEF IsPrefix
        <3> QED
            BY <3>1, <3>2, <3>3
    <2> QED
        BY <2>1, <2>2 DEF SummaryOfLessons, SummaryInv
<1> QED
    BY <1>1, SpecKitInv, PTL
=================================================================================
