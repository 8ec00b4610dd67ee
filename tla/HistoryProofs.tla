---------------------------- MODULE HistoryProofs ----------------------------
(***************************************************************************)
(* What History promises, for any sessions, providers, retention and       *)
(* number of lines.                                                        *)
(*                                                                         *)
(* None of its properties is inductive.  All rest on Underway, what a      *)
(* repair has still to do at each step, and on Placed: where its backup    *)
(* directory is among the others, which those that are moved in meanwhile  *)
(* push back.  Then LinesInv says that what a rollout loses when it is     *)
(* replaced has been copied, RecordInv what an index repair has read and   *)
(* recorded so far, and AlignInv which sessions are aligned in which       *)
(* places, or on the repair's list, at each step.                          *)
(***************************************************************************)
EXTENDS History, TLAPS, SequenceTheorems, FiniteSetTheorems

\* What is in the copies, line by line.
LEMMA CopiedLine ==
  ASSUME NEW dirs, NEW s, NEW x
  PROVE  x \in CopiedLines(dirs, s)
           <=> \E i \in 1 .. Len(dirs) : dirs[i][s] # Absent /\ x \in dirs[i][s]
  BY DEF CopiedLines

LEMMA CopiedTyped ==
  ASSUME NEW dirs \in Seq(Copies), NEW s \in Sessions
  PROVE  CopiedLines(dirs, s) \in SUBSET Lines
<1>1. ASSUME NEW x \in CopiedLines(dirs, s) PROVE x \in Lines
  <2>1. PICK i \in 1 .. Len(dirs) : dirs[i][s] # Absent /\ x \in dirs[i][s]
    BY CopiedLine
  <2>2. dirs[i] \in Copies
    OBVIOUS
  <2> QED
    BY <2>1, <2>2 DEF Copies
<1> QED
  BY <1>1

\* Retention keeps the directories that come first, the one at d among them unless
\* MaxBackups others come before it, and what it removes is accounted for.
LEMMA Pruned ==
  ASSUME NEW dirs \in Seq(Copies), NEW d \in 0 .. Len(dirs), PruneDirs(dirs, d),
         stray \in [Sessions -> SUBSET Lines]
  PROVE  /\ backups' \in Seq(Copies)
         /\ stray' \in [Sessions -> SUBSET Lines]
         /\ \A s \in Sessions :
              /\ stray[s] \subseteq stray'[s]
              /\ CopiedLines(dirs, s) \subseteq stray'[s] \cup CopiedLines(backups', s)
         /\ \A i \in 1 .. Len(backups') : backups'[i] = dirs[i]
         /\ d <= MaxBackups => d <= Len(backups')
<1>1. PICK n \in 0 .. Len(dirs) :
        /\ d <= n \/ n = MaxBackups
        /\ backups' = SubSeq(dirs, 1, n)
        /\ stray' = [s \in Sessions |->
             stray[s] \cup (CopiedLines(dirs, s) \ CopiedLines(backups', s))]
  BY DEF PruneDirs, Kept
<1>2. n \in Nat /\ \A i \in 1 .. n : dirs[i] \in Copies
  OBVIOUS
<1>3. /\ backups' \in Seq(Copies)
      /\ Len(backups') = n
      /\ \A i \in 1 .. n : backups'[i] = dirs[i]
  <2>1. /\ SubSeq(dirs, 1, n) \in Seq(Copies)
        /\ Len(SubSeq(dirs, 1, n)) = IF 1 <= n THEN n - 1 + 1 ELSE 0
        /\ \A i \in 1 .. n - 1 + 1 : SubSeq(dirs, 1, n)[i] = dirs[1 + i - 1]
    BY <1>2, SubSeqProperties
  <2>2. \A i \in 1 .. n : SubSeq(dirs, 1, n)[i] = dirs[i]
    BY <1>2, <2>1
  <2> QED
    BY <1>1, <1>2, <2>1, <2>2
<1>4. stray' \in [Sessions -> SUBSET Lines]
  BY <1>1, CopiedTyped
<1>5. d <= MaxBackups => d <= Len(backups')
  BY <1>1, <1>3
<1> QED
  BY <1>1, <1>3, <1>4, <1>5

\* A directory that is moved in as the oldest takes nothing from the others.
LEMMA Appended ==
  ASSUME NEW dirs \in Seq(Copies)
  PROVE  LET more == Append(dirs, NoCopies) IN
         /\ more \in Seq(Copies) /\ Len(more) = Len(dirs) + 1
         /\ \A i \in 1 .. Len(dirs) : more[i] = dirs[i]
         /\ \A s \in Sessions : CopiedLines(dirs, s) \subseteq CopiedLines(more, s)
<1>1. NoCopies \in Copies
  BY DEF NoCopies, Copies
<1>2. /\ Append(dirs, NoCopies) \in Seq(Copies)
      /\ Len(Append(dirs, NoCopies)) = Len(dirs) + 1
      /\ \A i \in 1 .. Len(dirs) : Append(dirs, NoCopies)[i] = dirs[i]
  BY <1>1, AppendProperties
<1>3. ASSUME NEW s \in Sessions, NEW x \in CopiedLines(dirs, s)
      PROVE  x \in CopiedLines(Append(dirs, NoCopies), s)
  <2>1. PICK i \in 1 .. Len(dirs) : dirs[i][s] # Absent /\ x \in dirs[i][s]
    BY <1>3, CopiedLine
  <2>2. i \in 1 .. Len(Append(dirs, NoCopies)) /\ Append(dirs, NoCopies)[i] = dirs[i]
    BY <1>2
  <2> QED
    BY <2>1, <2>2, CopiedLine
<1> QED
  BY <1>2, <1>3

\* A directory that is made, or written into, comes first: the others keep what they hold,
\* and it what it held if the copies extend that.
LEMMA Put ==
  ASSUME NEW dirs \in Seq(Copies), NEW d \in 0 .. Len(dirs), NEW copies \in Copies,
         \A s \in Sessions : d # 0 /\ dirs[d][s] # Absent => copies[s] = dirs[d][s]
  PROVE  LET more == Renewed(dirs, d, copies) IN
         /\ more \in Seq(Copies)
         /\ Len(more) = IF d = 0 THEN Len(dirs) + 1 ELSE Len(dirs)
         /\ Len(more) >= 1 /\ more[1] = copies
         /\ d = 0 => \A i \in 1 .. Len(dirs) : more[i + 1] = dirs[i]
         /\ \A s \in Sessions : CopiedLines(dirs, s) \subseteq CopiedLines(more, s)
         /\ \A s \in Sessions : copies[s] # Absent => copies[s] \subseteq CopiedLines(more, s)
<1> DEFINE more == Renewed(dirs, d, copies)
           size == IF d = 0 THEN Len(dirs) + 1 ELSE Len(dirs)
<1>1. size \in Nat /\ size >= 1
  OBVIOUS
<1>2. more = [i \in 1 .. size |->
                IF i = 1 THEN copies ELSE IF d = 0 \/ i <= d THEN dirs[i - 1] ELSE dirs[i]]
  BY DEF Renewed
<1>3. \A i \in 1 .. size : more[i] =
                IF i = 1 THEN copies ELSE IF d = 0 \/ i <= d THEN dirs[i - 1] ELSE dirs[i]
  BY <1>2
<1>4. \A i \in 1 .. size : more[i] \in Copies
  <2>1. ASSUME NEW i \in 1 .. size, i # 1, d = 0 \/ i <= d PROVE dirs[i - 1] \in Copies
    BY <2>1
  <2>2. ASSUME NEW i \in 1 .. size, ~(d = 0 \/ i <= d) PROVE dirs[i] \in Copies
    BY <2>2
  <2> QED
    BY <1>3, <2>1, <2>2
<1>5. more \in Seq(Copies) /\ Len(more) = size
  <2>1. more \in [1 .. size -> Copies]
    BY <1>2, <1>4
  <2> HIDE DEF more, size
  <2> QED
    BY <1>1, <2>1
<1> HIDE DEF more
<1>6. more[1] = copies
  BY <1>1, <1>3
<1>7. d = 0 => \A i \in 1 .. Len(dirs) : more[i + 1] = dirs[i]
  BY <1>3
<1>8. ASSUME NEW s \in Sessions, NEW x \in CopiedLines(dirs, s)
      PROVE  x \in CopiedLines(more, s)
  <2>1. PICK i \in 1 .. Len(dirs) : dirs[i][s] # Absent /\ x \in dirs[i][s]
    BY <1>8, CopiedLine
  <2>2. \E j \in 1 .. size : more[j][s] = dirs[i][s]
    <3>1. CASE d = 0 \/ i < d
      <4>1. i + 1 \in 1 .. size /\ more[i + 1] = dirs[i]
        BY <1>3, <3>1
      <4> QED
        BY <4>1
    <3>2. CASE d # 0 /\ i = d
      BY <1>1, <1>6, <2>1, <3>2
    <3>3. CASE d # 0 /\ i > d
      <4>1. i \in 1 .. size /\ more[i] = dirs[i]
        BY <1>3, <3>3
      <4> QED
        BY <4>1
    <3> QED
      BY <3>1, <3>2, <3>3
  <2> QED
    BY <1>5, <2>1, <2>2, CopiedLine
<1>9. ASSUME NEW s \in Sessions, copies[s] # Absent, NEW x \in copies[s]
      PROVE  x \in CopiedLines(more, s)
  BY <1>1, <1>5, <1>6, <1>9, CopiedLine
<1> QED
  BY <1>1, <1>5, <1>6, <1>7, <1>8, <1>9 DEF more

\* A copy in a directory that stays where it is adds to what it holds.
LEMMA Copied ==
  ASSUME NEW dirs \in Seq(Copies), NEW d \in 1 .. Len(dirs), NEW s \in Sessions,
         NEW lines \in SUBSET Lines, dirs[d][s] = Absent
  PROVE  LET more == [dirs EXCEPT ![d][s] = lines] IN
         /\ more \in Seq(Copies) /\ Len(more) = Len(dirs)
         /\ more[d] = [dirs[d] EXCEPT ![s] = lines]
         /\ \A t \in Sessions : CopiedLines(dirs, t) \subseteq CopiedLines(more, t)
         /\ lines \subseteq CopiedLines(more, s)
<1> DEFINE more == [dirs EXCEPT ![d][s] = lines]
<1>1. dirs[d] \in Copies
  OBVIOUS
<1>2. [dirs[d] EXCEPT ![s] = lines] \in Copies
  BY <1>1 DEF Copies
<1>3. more \in Seq(Copies) /\ Len(more) = Len(dirs)
  BY <1>1, <1>2
<1>4. \A i \in 1 .. Len(dirs) : i # d => more[i] = dirs[i]
  BY <1>1
<1>5. more[d] = [dirs[d] EXCEPT ![s] = lines]
  BY <1>1
<1>6. more[d][s] = lines /\ \A t \in Sessions : t # s => more[d][t] = dirs[d][t]
  BY <1>1, <1>5 DEF Copies
<1>7. ASSUME NEW t \in Sessions, NEW x \in CopiedLines(dirs, t)
      PROVE  x \in CopiedLines(more, t)
  <2>1. PICK i \in 1 .. Len(dirs) : dirs[i][t] # Absent /\ x \in dirs[i][t]
    BY <1>7, CopiedLine
  <2>2. more[i][t] = dirs[i][t]
    BY <1>4, <1>6, <2>1
  <2> QED
    BY <1>3, <2>1, <2>2, CopiedLine
<1>8. ASSUME NEW x \in lines PROVE x \in CopiedLines(more, s)
  <2>1. lines # Absent
    BY NullAssumption
  <2> QED
    BY <1>1, <1>3, <1>6, <1>8, <2>1, CopiedLine
<1> QED
  BY <1>3, <1>5, <1>7, <1>8

-----------------------------------------------------------------------------
\* What the steps of a history repair rely on: its directory has no copy yet of a rollout
\* that is to be replaced.
Copying == {"rollouts", "replace"}

Underway ==
  /\ pc # "idle" => result = "none"
  /\ pc \in HistorySteps => job.target \in Providers /\ record = Absent /\ replaced = None
  /\ job.todo # {} => pc = "collect"
  /\ \A s \in job.todo : rollout[s] # Absent
  /\ \A s \in Sessions : job.updates[s] # Absent =>
       /\ rollout[s] # Absent
       /\ pc \in {"collect", "mkdir"} \cup Copying
  /\ pc = "mkdir" => NeedsBackup(job)
  /\ pc = "replace" => job.cur \in Sessions /\ job.updates[job.cur] # Absent
  /\ pc \in Copying =>
       \A s \in Sessions :
         job.updates[s] # Absent /\ ~(pc = "replace" /\ s = job.cur) => Mine[s] = Absent
  /\ pc \in {"prepare", "commit", "complete"} => job.cur \in Sessions /\ job.previous \in Providers
  /\ pc \in {"commit", "complete"} => record \in Record
  /\ \A s \in Sessions : rollout[s] = Absent => writer[s] = "none" /\ written[s] = {}

\* Where the repair's directory is: no further back than those put before it push it.
Working == {"rollouts", "replace", "rows", "index", "append", "prune"}

Placed ==
  /\ job.dir \in 0 .. Len(backups)
  /\ job.newer < MaxBackups => job.dir <= job.newer + 1
  /\ pc \notin Working => job.dir = 0

\* What is moved in meanwhile changes nothing else of what the repair knows.
SameWork(a, b) ==
  /\ a.target = b.target /\ a.todo = b.todo /\ a.updates = b.updates /\ a.rows = b.rows
  /\ a.missing = b.missing /\ a.seen = b.seen /\ a.cur = b.cur /\ a.previous = b.previous
  /\ a.warned = b.warned

LEMMA JobTyped == Idle \in Job
  BY RetentionAssumption DEF Idle, Job, NoCopies, Copies, Provider

LEMMA InitTyped == Init => TypeOK /\ Underway /\ Placed
<1> SUFFICES ASSUME Init PROVE TypeOK /\ Underway /\ Placed
  OBVIOUS
<1>1. rollout \in [Sessions -> {Absent} \cup Rollout]
  BY DEF Init, Rollout
<1>2. TypeOK
  <2>1. backups \in Seq(Copies) /\ legacy \in {None} \cup 0 .. MaxLegacy
    BY DEF Init
  <2>2. row \in [Sessions -> Provider \cup {Absent}] /\ index \subseteq Sessions
    BY DEF Init
  <2>3. job \in Job /\ pc \in Steps /\ record \in Record \cup {Absent}
        /\ replaced \in Provider \cup {Absent} /\ touched \subseteq Sessions
        /\ result \in {"none", "ok", "warnings", "err"}
    BY JobTyped DEF Init, Steps, Provider
  <2>4. /\ writer \in [Sessions -> {"none", "open", "stale"}]
        /\ written \in [Sessions -> SUBSET Lines]
        /\ stray \in [Sessions -> SUBSET Lines]
    BY DEF Init
  <2> QED
    BY <1>1, <2>1, <2>2, <2>3, <2>4 DEF TypeOK
<1>3. job.todo = {} /\ job.updates = NoCopies
  BY DEF Init, Idle
<1>4. Underway
  BY <1>3 DEF Init, Underway, HistorySteps, Copying, NoCopies
<1>5. Placed
  BY RetentionAssumption DEF Init, Placed, Idle
<1> QED
  BY <1>2, <1>4, <1>5

\* The parts of TypeOK about the repair, and about the rest.
RepairTyped ==
  /\ record \in Record \cup {Absent}
  /\ pc \in Steps
  /\ job \in Job
  /\ result \in {"none", "ok", "warnings", "err"}
  /\ touched \subseteq Sessions
  /\ replaced \in Provider \cup {Absent}

LEMMA NextLine ==
  ASSUME TypeOK
  PROVE  Cardinality(UNION {written[t] : t \in Sessions}) \in Nat
<1>1. UNION {written[t] : t \in Sessions} \subseteq Lines
  BY DEF TypeOK
<1>2. IsFiniteSet(Lines)
  BY RetentionAssumption, FS_Interval DEF Lines
<1> QED
  BY <1>1, <1>2, FS_Subset, FS_CardinalityType

\* What writing into the repair's directory, or making it, leaves.
LEMMA Written ==
  ASSUME TypeOK, Placed, NEW step, NEW locals \in Job, NEW copies \in Copies,
         \A s \in Sessions : Mine[s] # Absent => copies[s] = Mine[s],
         WriteInto(step, locals, copies)
  PROVE  /\ backups' \in Seq(Copies) /\ Len(backups') >= 1 /\ backups'[1] = copies
         /\ \A s \in Sessions : CopiedLines(backups, s) \subseteq CopiedLines(backups', s)
         /\ \A s \in Sessions : copies[s] # Absent => copies[s] \subseteq CopiedLines(backups', s)
         /\ pc' = step /\ job' \in Job /\ SameWork(job', locals) /\ UNCHANGED <<result, touched>>
         /\ job'.dir = 1 /\ job'.newer = 0 /\ Mine' = copies
<1>1. /\ backups \in Seq(Copies) /\ job.dir \in 0 .. Len(backups)
      /\ \A s \in Sessions : job.dir # 0 /\ backups[job.dir][s] # Absent => copies[s] = backups[job.dir][s]
  BY DEF TypeOK, Placed, Mine
<1>2. /\ backups' = Renewed(backups, job.dir, copies) /\ job' = InFront(locals) /\ pc' = step
      /\ UNCHANGED <<result, touched>>
  BY DEF WriteInto, GoTo
<1>3. /\ job' \in Job /\ SameWork(job', locals) /\ job'.dir = 1 /\ job'.newer = 0
  <2>1. 0 \in 0 .. MaxBackups /\ 1 \in Nat
    BY RetentionAssumption
  <2>2. job' = [locals EXCEPT !.dir = 1, !.newer = 0]
    BY <1>2 DEF InFront
  <2> QED
    BY <2>1, <2>2 DEF Job, SameWork
<1>4. /\ backups' \in Seq(Copies) /\ Len(backups') >= 1 /\ backups'[1] = copies
      /\ \A s \in Sessions : CopiedLines(backups, s) \subseteq CopiedLines(backups', s)
      /\ \A s \in Sessions : copies[s] # Absent => copies[s] \subseteq CopiedLines(backups', s)
  BY <1>1, <1>2, Put
<1> QED
  BY <1>2, <1>3, <1>4 DEF Mine

\* What a copy of a rollout leaves, wherever it goes.
LEMMA CopyMade ==
  ASSUME TypeOK, Placed, NEW s \in Sessions, rollout[s] \in Rollout, Mine[s] = Absent, CopyInto(s)
  PROVE  /\ backups' \in Seq(Copies)
         /\ \A t \in Sessions : CopiedLines(backups, t) \subseteq CopiedLines(backups', t)
         /\ rollout[s].lines \subseteq CopiedLines(backups', s)
         /\ pc' = "replace" /\ job' \in Job /\ SameWork(job', [job EXCEPT !.cur = s])
         /\ UNCHANGED <<result, touched>>
         /\ job'.dir \in 0 .. Len(backups')
         /\ job'.newer < MaxBackups => job'.dir <= job'.newer + 1
         /\ \A t \in Sessions \ {s} : Mine'[t] = Mine[t]
<1> DEFINE lines == rollout[s].lines
           locals == [job EXCEPT !.cur = s]
           copies == [Mine EXCEPT ![s] = lines]
<1>1. lines \in SUBSET Lines /\ lines # Absent
  BY NullAssumption DEF Rollout
<1> HIDE DEF lines
<1>2. locals \in Job /\ locals.dir = job.dir /\ locals.newer = job.newer
  BY DEF TypeOK, Job
<1>3. Mine \in Copies
  BY DEF Mine, Placed, TypeOK, NoCopies, Copies
<1>4. /\ copies \in Copies /\ copies[s] = lines
      /\ \A t \in Sessions \ {s} : copies[t] = Mine[t]
      /\ \A t \in Sessions : Mine[t] # Absent => copies[t] = Mine[t]
  BY <1>1, <1>3 DEF Copies
<1>5. CASE WriteInto("replace", locals, copies)
  <2> HIDE DEF locals, copies
  <2>1. /\ backups' \in Seq(Copies) /\ Len(backups') >= 1
        /\ \A t \in Sessions : CopiedLines(backups, t) \subseteq CopiedLines(backups', t)
        /\ copies[s] # Absent => copies[s] \subseteq CopiedLines(backups', s)
        /\ pc' = "replace" /\ job' \in Job /\ SameWork(job', locals) /\ UNCHANGED <<result, touched>>
        /\ job'.dir = 1 /\ job'.newer = 0 /\ Mine' = copies
    BY <1>2, <1>4, <1>5, Written
  <2>2. Len(backups') \in Nat
    BY <2>1
  <2>3. SameWork(job', [job EXCEPT !.cur = s])
    BY <2>1 DEF locals
  <2> QED
    BY <1>1, <1>4, <2>1, <2>2, <2>3 DEF lines
<1>6. CASE /\ job.dir # 0
           /\ backups' = [backups EXCEPT ![job.dir][s] = lines]
           /\ GoTo("replace", locals)
  <2>1. /\ job.dir \in 1 .. Len(backups) /\ backups \in Seq(Copies)
        /\ backups[job.dir] = Mine /\ backups[job.dir][s] = Absent
    BY <1>6 DEF Placed, Mine, TypeOK
  <2>2. /\ backups' \in Seq(Copies) /\ Len(backups') = Len(backups)
        /\ backups'[job.dir] = copies
        /\ \A t \in Sessions : CopiedLines(backups, t) \subseteq CopiedLines(backups', t)
        /\ lines \subseteq CopiedLines(backups', s)
    <3> DEFINE d == job.dir
               more == [backups EXCEPT ![d][s] = lines]
    <3>1. d \in 1 .. Len(backups) /\ backups \in Seq(Copies) /\ backups[d][s] = Absent
      BY <2>1
    <3> HIDE DEF d
    <3>2. /\ more \in Seq(Copies) /\ Len(more) = Len(backups)
          /\ more[d] = [backups[d] EXCEPT ![s] = lines]
          /\ \A t \in Sessions : CopiedLines(backups, t) \subseteq CopiedLines(more, t)
          /\ lines \subseteq CopiedLines(more, s)
      BY <1>1, <3>1, Copied
    <3>3. backups' = more
      BY <1>6 DEF d
    <3> HIDE DEF more
    <3> QED
      BY <2>1, <3>2, <3>3 DEF d
  <2>3. pc' = "replace" /\ job' = locals /\ UNCHANGED <<result, touched>>
    BY <1>6 DEF GoTo
  <2>4. Mine' = copies
    BY <1>2, <1>6, <2>2, <2>3 DEF Mine
  <2>5. SameWork(job', [job EXCEPT !.cur = s])
    BY <2>3 DEF SameWork
  <2> HIDE DEF locals, copies
  <2> QED
    BY <1>2, <1>4, <2>1, <2>2, <2>3, <2>4, <2>5 DEF Placed, lines
<1> QED
  BY <1>5, <1>6 DEF CopyInto, lines

LEMMA MineTyped == TypeOK /\ Placed => Mine \in Copies
  BY DEF Mine, Placed, TypeOK, NoCopies, Copies

\* What the end of a repair leaves.
LEMMA Ended ==
  ASSUME TypeOK, Placed, Prune
  PROVE  /\ backups' \in Seq(Copies) /\ stray' \in [Sessions -> SUBSET Lines]
         /\ \A s \in Sessions :
              /\ stray[s] \subseteq stray'[s]
              /\ CopiedLines(backups, s) \subseteq stray'[s] \cup CopiedLines(backups', s)
         /\ job.dir # 0 /\ job.newer < MaxBackups =>
              \E i \in 1 .. Len(backups') : backups'[i] = backups[job.dir]
<1> DEFINE more == Renewed(backups, job.dir, Mine)
<1>1. /\ backups \in Seq(Copies) /\ job.dir \in 0 .. Len(backups) /\ Mine \in Copies
      /\ job.newer \in 0 .. MaxBackups /\ stray \in [Sessions -> SUBSET Lines]
      /\ job.dir # 0 => Mine = backups[job.dir]
  BY MineTyped DEF TypeOK, Placed, Job, Mine
<1>2. /\ more \in Seq(Copies) /\ Len(more) >= 1 /\ more[1] = Mine
      /\ \A s \in Sessions : CopiedLines(backups, s) \subseteq CopiedLines(more, s)
  BY <1>1, Put
<1> HIDE DEF more
<1>3. Len(more) \in Nat
  BY <1>2
<1>4. CASE backups' = more /\ UNCHANGED stray
  BY <1>1, <1>2, <1>3, <1>4
<1>5. CASE PruneDirs(more, 1)
  <2>1. 1 \in 0 .. Len(more)
    BY <1>2, <1>3
  <2>2. /\ backups' \in Seq(Copies) /\ stray' \in [Sessions -> SUBSET Lines]
        /\ \A s \in Sessions :
             /\ stray[s] \subseteq stray'[s]
             /\ CopiedLines(more, s) \subseteq stray'[s] \cup CopiedLines(backups', s)
        /\ \A i \in 1 .. Len(backups') : backups'[i] = more[i]
        /\ 1 <= MaxBackups => 1 <= Len(backups')
    BY <1>1, <1>2, <1>5, <2>1, Pruned
  <2>3. 1 \in 1 .. Len(backups')
    BY <2>2, RetentionAssumption
  <2>4. backups'[1] = Mine
    BY <1>2, <2>2, <2>3
  <2> QED
    BY <1>1, <1>2, <2>2, <2>3, <2>4
<1>6. CASE backups' = backups /\ stray' = stray
  BY <1>1, <1>6
<1>7. CASE PruneDirs(backups, job.dir)
  <2>1. /\ backups' \in Seq(Copies) /\ stray' \in [Sessions -> SUBSET Lines]
        /\ \A s \in Sessions :
             /\ stray[s] \subseteq stray'[s]
             /\ CopiedLines(backups, s) \subseteq stray'[s] \cup CopiedLines(backups', s)
        /\ \A i \in 1 .. Len(backups') : backups'[i] = backups[i]
        /\ job.dir <= MaxBackups => job.dir <= Len(backups')
    BY <1>1, <1>7, Pruned
  <2>2. ASSUME job.dir # 0, job.newer < MaxBackups
        PROVE  job.dir \in 1 .. Len(backups') /\ backups'[job.dir] = backups[job.dir]
    BY <1>1, <2>1, <2>2, RetentionAssumption DEF Placed
  <2> QED
    BY <2>1, <2>2
<1> QED
  BY <1>4, <1>5, <1>6, <1>7 DEF Prune, more

\* What moving directories of an earlier version in, and pruning then, leaves.
LEMMA MovedIn ==
  ASSUME TypeOK, Placed, MoveLegacy \/ PruneMigrated
  PROVE  /\ backups' \in Seq(Copies) /\ stray' \in [Sessions -> SUBSET Lines]
         /\ legacy' \in {None} \cup 0 .. MaxLegacy
         /\ \A s \in Sessions :
              /\ stray[s] \subseteq stray'[s]
              /\ CopiedLines(backups, s) \subseteq stray'[s] \cup CopiedLines(backups', s)
         /\ job' \in Job /\ SameWork(job', job) /\ (job.dir = 0 => job' = job)
         /\ UNCHANGED <<codexFiles, audit, pc, result, touched, writer, written>>
         /\ job'.dir \in 0 .. Len(backups')
         /\ job'.newer < MaxBackups => job'.dir <= job'.newer + 1
         /\ \A s \in Sessions : Mine[s] = Absent => Mine'[s] = Absent
         /\ job.dir # 0 /\ job.newer < MaxBackups =>
              \E i \in 1 .. Len(backups') : backups'[i] = backups[job.dir]
<1>1. /\ backups \in Seq(Copies) /\ job \in Job /\ job.dir \in 0 .. Len(backups)
      /\ job.newer \in 0 .. MaxBackups /\ stray \in [Sessions -> SUBSET Lines]
      /\ legacy \in {None} \cup 0 .. MaxLegacy
  BY DEF TypeOK, Placed, Job
<1>2. CASE MoveLegacy /\ backups' = Append(backups, NoCopies) /\ legacy' = legacy - 1 /\ job' = job
  <2>1. /\ backups' \in Seq(Copies) /\ Len(backups') = Len(backups) + 1
        /\ \A i \in 1 .. Len(backups) : backups'[i] = backups[i]
        /\ \A s \in Sessions : CopiedLines(backups, s) \subseteq CopiedLines(backups', s)
    BY <1>1, <1>2, Appended
  <2>2. legacy' \in 0 .. MaxLegacy /\ UNCHANGED <<codexFiles, audit, pc, result, touched, writer, written, stray>>
    BY <1>2, RetentionAssumption DEF MoveLegacy, codexState
  <2>3. \A s \in Sessions : Mine[s] = Absent => Mine'[s] = Absent
    BY <1>1, <1>2, <2>1 DEF Mine
  <2>4. SameWork(job', job) /\ job' \in Job
    BY <1>1, <1>2 DEF SameWork
  <2>5. /\ job'.dir \in 0 .. Len(backups')
        /\ job'.newer < MaxBackups => job'.dir <= job'.newer + 1
    BY <1>1, <1>2, <2>1 DEF Placed
  <2>6. job.dir # 0 => job.dir \in 1 .. Len(backups') /\ backups'[job.dir] = backups[job.dir]
    BY <1>1, <2>1
  <2> QED
    BY <1>1, <1>2, <2>1, <2>2, <2>3, <2>4, <2>5, <2>6
<1>3. CASE /\ MoveLegacy /\ backups' = Renewed(backups, 0, NoCopies)
           /\ legacy' \in {legacy - 1, legacy}
           /\ job' = IF job.dir = 0 THEN job
                     ELSE [job EXCEPT !.dir = @ + 1, !.newer = IF @ < MaxBackups THEN @ + 1 ELSE @]
  <2>1. NoCopies \in Copies
    BY DEF NoCopies, Copies
  <2>2. /\ backups' \in Seq(Copies) /\ Len(backups') = Len(backups) + 1
        /\ \A i \in 1 .. Len(backups) : backups'[i + 1] = backups[i]
        /\ \A s \in Sessions : CopiedLines(backups, s) \subseteq CopiedLines(backups', s)
    <3>1. /\ 0 \in 0 .. Len(backups)
          /\ \A s \in Sessions : 0 # 0 /\ backups[0][s] # Absent => NoCopies[s] = backups[0][s]
      BY <1>1
    <3>2. backups' = Renewed(backups, 0, NoCopies)
      BY <1>3
    <3> QED
      BY <1>1, <2>1, <3>1, <3>2, Put
  <2>3. legacy' \in 0 .. MaxLegacy /\ UNCHANGED <<codexFiles, audit, pc, result, touched, writer, written, stray>>
    BY <1>3, RetentionAssumption DEF MoveLegacy, codexState
  <2>4. CASE job.dir = 0
    <3>1. \A s \in Sessions : Mine[s] = Absent => Mine'[s] = Absent
      BY <1>3, <2>4 DEF Mine
    <3> QED
      BY <1>1, <1>3, <2>2, <2>3, <2>4, <3>1 DEF Placed, SameWork
  <2>5. CASE job.dir # 0
    <3>1. /\ job' \in Job /\ SameWork(job', job) /\ job'.dir = job.dir + 1
          /\ job'.newer = IF job.newer < MaxBackups THEN job.newer + 1 ELSE job.newer
      <4> DEFINE n == IF job.newer < MaxBackups THEN job.newer + 1 ELSE job.newer
      <4>1. job.dir + 1 \in Nat /\ n \in 0 .. MaxBackups
        BY <1>1, RetentionAssumption
      <4>2. job' = [job EXCEPT !.dir = job.dir + 1, !.newer = n]
        BY <1>3, <2>5
      <4> HIDE DEF n
      <4>3. job' \in Job /\ SameWork(job', job) /\ job'.dir = job.dir + 1 /\ job'.newer = n
        BY <1>1, <4>1, <4>2 DEF Job, SameWork
      <4> QED
        BY <4>3 DEF n
    <3>2. backups'[job.dir + 1] = backups[job.dir] /\ job.dir + 1 \in 1 .. Len(backups')
      BY <1>1, <2>2, <2>5
    <3>3. \A s \in Sessions : Mine[s] = Absent => Mine'[s] = Absent
      BY <1>1, <2>5, <3>1, <3>2 DEF Mine
    <3>4. job'.newer < MaxBackups => job'.dir <= job'.newer + 1
      BY <1>1, <3>1, RetentionAssumption DEF Placed
    <3> QED
      BY <1>1, <2>2, <2>3, <2>5, <3>1, <3>2, <3>3, <3>4
  <2> QED
    BY <2>4, <2>5
<1>4. CASE PruneMigrated
  <2>1. /\ PruneDirs(backups, job.dir) /\ legacy' \in {0, None}
        /\ job' = [job EXCEPT !.dir = IF @ <= Len(backups') THEN @ ELSE 0]
        /\ UNCHANGED <<codexFiles, audit, pc, result, touched, writer, written>>
    BY <1>4 DEF PruneMigrated
  <2>2. /\ backups' \in Seq(Copies) /\ stray' \in [Sessions -> SUBSET Lines]
        /\ \A s \in Sessions :
             /\ stray[s] \subseteq stray'[s]
             /\ CopiedLines(backups, s) \subseteq stray'[s] \cup CopiedLines(backups', s)
        /\ \A i \in 1 .. Len(backups') : backups'[i] = backups[i]
        /\ job.dir <= MaxBackups => job.dir <= Len(backups')
    BY <1>1, <2>1, Pruned
  <2>3. Len(backups') \in Nat
    BY <2>2
  <2>4. /\ job' \in Job /\ SameWork(job', job) /\ job'.newer = job.newer
        /\ job'.dir = IF job.dir <= Len(backups') THEN job.dir ELSE 0
        /\ job.dir = 0 => job' = job
    BY <1>1, <2>1, <2>3 DEF Job, SameWork
  <2>5. \A s \in Sessions : Mine[s] = Absent => Mine'[s] = Absent
    BY <1>1, <2>2, <2>3, <2>4 DEF Mine, NoCopies
  <2>6. job'.dir \in 0 .. Len(backups') /\ (job'.newer < MaxBackups => job'.dir <= job'.newer + 1)
    BY <1>1, <2>3, <2>4 DEF Placed
  <2>7. ASSUME job.dir # 0, job.newer < MaxBackups
        PROVE  job.dir \in 1 .. Len(backups') /\ backups'[job.dir] = backups[job.dir]
    BY <1>1, <2>2, <2>3, <2>7, RetentionAssumption DEF Placed
  <2>8. legacy' \in {None} \cup 0 .. MaxLegacy
    BY <2>1, RetentionAssumption
  <2> QED
    BY <2>1, <2>2, <2>4, <2>5, <2>6, <2>7, <2>8
<1> QED
  BY <1>2, <1>3, <1>4 DEF MoveLegacy

\* The steps that copy the database and the index.
LEMMA BackupSteps ==
  ASSUME BackupRows \/ ReadIndex
  PROVE  \E step \in {"rows", "index", "append", "prune"} :
           \E locals \in {job, Warned(job), [job EXCEPT !.seen = index]} :
             MayWriteInto(step, locals)
  BY DEF BackupRows, ReadIndex, MayWriteInto

LEMMA HistoryTyped ==
  ASSUME TypeOK, Underway, Placed, History
  PROVE  TypeOK'
<1> USE DEF TypeOK, GoTo, End, Warned, Start, codexFiles, codexState, running, audit, Steps,
     HistorySteps
<1>0. Idle \in Job /\ NoCopies \in Copies
  BY JobTyped DEF NoCopies, Copies
<1>1. ASSUME NEW p \in Providers, StartHistory(p) PROVE TypeOK'
  <2>1. PICK warned \in BOOLEAN :
          job' = [Idle EXCEPT !.target = p, !.warned = warned,
                              !.todo = {s \in Sessions : rollout[s] # Absent}]
    BY <1>1 DEF StartHistory
  <2>2. job' \in Job
    BY <1>0, <2>1 DEF Job, Provider
  <2> QED
    BY <1>1, <2>2 DEF StartHistory, Provider
<1>2. ASSUME NEW s \in Sessions, ReadRollout(s) PROVE TypeOK'
  <2>1. rollout[s] \in Rollout
    BY <1>2 DEF ReadRollout, Underway
  <2>2. [job.updates EXCEPT ![s] = IF rollout[s].provider = job.target
                                   THEN Absent ELSE rollout[s].lines] \in Copies
    BY <2>1 DEF Job, Copies, Rollout
  <2>3. job' \in Job
    BY <1>2, <2>2 DEF ReadRollout, Job
  <2> QED
    BY <1>2, <2>3 DEF ReadRollout
<1>3. CASE CollectFails
  <2>1. job' \in Job
    BY <1>0, <1>3 DEF CollectFails, Job
  <2> QED
    BY <1>3, <2>1 DEF CollectFails
<1>4. CASE Plan
  <2>1. PICK planned \in
          {[job EXCEPT !.rows = \E s \in Sessions : row[s] \notin {Absent, job.target},
                       !.missing = {s \in Sessions : row[s] # Absent} \ index],
           Warned(job)} :
          IF NeedsBackup(planned) THEN GoTo("mkdir", planned) ELSE End(Report(planned))
    BY <1>4 DEF Plan
  <2>2. planned \in Job
    <3>1. \A b \in BOOLEAN, m \in SUBSET Sessions :
            [job EXCEPT !.rows = b, !.missing = m] \in Job
      BY DEF Job
    <3>2. (\E s \in Sessions : row[s] \notin {Absent, job.target}) \in BOOLEAN
      OBVIOUS
    <3>3. ({s \in Sessions : row[s] # Absent} \ index) \in SUBSET Sessions
      OBVIOUS
    <3>4. Warned(job) \in Job
      BY DEF Job
    <3> HIDE DEF Warned, GoTo, End
    <3>5. [job EXCEPT !.rows = \E s \in Sessions : row[s] \notin {Absent, job.target},
                      !.missing = {s \in Sessions : row[s] # Absent} \ index] \in Job
      BY <3>1, <3>2, <3>3, Zenon
    <3> QED
      BY <2>1, <3>4, <3>5, Zenon
  <2>3. \/ GoTo("mkdir", planned)
        \/ End(Report(planned))
    BY <2>1
  <2>4. job' \in Job /\ pc' \in Steps /\ result' \in {"none", "ok", "warnings", "err"}
        /\ touched' \subseteq Sessions
    BY <1>0, <2>2, <2>3 DEF Report
  <2> QED
    BY <1>4, <2>4 DEF Plan
<1>5. CASE MakeDir
  <2>1. CASE WriteInto("rollouts", job, NoCopies)
    <3>1. \A s \in Sessions : Mine[s] # Absent => NoCopies[s] = Mine[s]
      BY <1>5 DEF MakeDir, Placed, Working, Mine
    <3>2. backups' \in Seq(Copies) /\ pc' = "rollouts" /\ job' \in Job /\ UNCHANGED <<result, touched>>
      BY <1>0, <2>1, <3>1, Written
    <3> QED
      BY <1>5, <3>2 DEF MakeDir
  <2>2. CASE UNCHANGED backups /\ End("warnings")
    BY <1>0, <1>5, <2>2 DEF MakeDir
  <2> QED
    BY <1>5, <2>1, <2>2 DEF MakeDir
<1>6. ASSUME NEW s \in Sessions, CopyRollout(s) PROVE TypeOK'
  <2>1. rollout[s] \in Rollout /\ rollout[s].lines \in SUBSET Lines
    BY <1>6 DEF CopyRollout, Underway, Rollout
  <2>2. CASE CopyInto(s)
    <3>1. Mine[s] = Absent
      BY <1>6 DEF CopyRollout, Underway, Copying
    <3>2. backups' \in Seq(Copies) /\ pc' = "replace" /\ job' \in Job /\ UNCHANGED <<result, touched>>
      BY <2>1, <2>2, <3>1, CopyMade
    <3> QED
      BY <1>6, <3>2 DEF CopyRollout
  <2>3. CASE UNCHANGED backups /\ GoTo("rollouts", Warned([job EXCEPT !.updates[s] = Absent]))
    <3>1. [job.updates EXCEPT ![s] = Absent] \in Copies
      BY DEF Job, Copies
    <3>2. job' \in Job
      BY <2>3, <3>1 DEF Job
    <3> QED
      BY <1>6, <2>3, <3>2 DEF CopyRollout
  <2> QED
    BY <1>6, <2>2, <2>3 DEF CopyRollout
<1>7. CASE ReplaceRollout
  <2>1. job.cur \in Sessions /\ job.updates[job.cur] \in SUBSET Lines
    BY <1>7 DEF ReplaceRollout, Underway, Job, Copies
  <2>2. [provider |-> job.target, lines |-> job.updates[job.cur]] \in Rollout
    BY <2>1 DEF Rollout, Job
  <2>3. [job.updates EXCEPT ![job.cur] = Absent] \in Copies
    BY DEF Job, Copies
  <2>4. job' \in Job
    <3> DEFINE done == [job EXCEPT !.updates[job.cur] = Absent, !.cur = None]
    <3>1. done \in Job
      BY <2>3 DEF Job
    <3>2. Warned(done) \in Job
      BY <3>1 DEF Job
    <3>3. job' = done \/ job' = Warned(done)
      BY <1>7 DEF ReplaceRollout
    <3> HIDE DEF done, Warned
    <3> QED
      BY <3>1, <3>2, <3>3
  <2>5. /\ rollout' \in [Sessions -> {Absent} \cup Rollout]
        /\ writer' \in [Sessions -> {"none", "open", "stale"}]
    BY <1>7, <2>1, <2>2 DEF ReplaceRollout
  <2> QED
    BY <1>7, <2>4, <2>5 DEF ReplaceRollout
<1>8. CASE BackupRows \/ ReadIndex
  <2>1. PICK step \in {"rows", "index", "append", "prune"},
             locals \in {job, Warned(job), [job EXCEPT !.seen = index]} :
          MayWriteInto(step, locals)
    BY <1>8, BackupSteps
  <2>2. locals \in Job
    BY <2>1 DEF Job
  <2>3. Mine \in Copies
    BY MineTyped
  <2>4. /\ backups' \in Seq(Copies) /\ pc' \in Steps /\ job' \in Job
        /\ UNCHANGED <<result, touched>>
    <3>1. CASE WriteInto(step, locals, Mine)
      <4>1. backups' \in Seq(Copies) /\ pc' = step /\ job' \in Job /\ UNCHANGED <<result, touched>>
        BY <2>2, <2>3, <3>1, Written
      <4> QED
        BY <4>1
    <3>2. CASE UNCHANGED backups /\ GoTo(step, locals)
      BY <2>2, <3>2
    <3> QED
      BY <2>1, <3>1, <3>2 DEF MayWriteInto
  <2> QED
    BY <1>8, <2>4 DEF BackupRows, ReadIndex
<1>9. CASE UpdateRows \/ AppendIndex
  <2>1. job' \in Job
    BY <1>9 DEF UpdateRows, AppendIndex, Job
  <2>2. row' \in [Sessions -> Provider \cup {Absent}]
    BY <1>9 DEF UpdateRows, AppendIndex, Job
  <2>3. index' \subseteq Sessions
    BY <1>9 DEF UpdateRows, AppendIndex, Job
  <2> QED
    BY <1>9, <2>1, <2>2, <2>3 DEF UpdateRows, AppendIndex
<1>10. CASE Prune
  <2>1. backups' \in Seq(Copies) /\ stray' \in [Sessions -> SUBSET Lines]
    BY <1>10, Ended
  <2> QED
    BY <1>0, <1>10, <2>1 DEF Prune, Report
<1>11. CASE PruneRequest
  <2>1. backups' \in Seq(Copies) /\ stray' \in [Sessions -> SUBSET Lines]
    <3>1. 0 \in 0 .. Len(backups)
      OBVIOUS
    <3> QED
      BY <1>11, <3>1, Pruned DEF PruneRequest
  <2> QED
    BY <1>11, <2>1 DEF PruneRequest
<1>12. CASE MoveLegacy \/ PruneMigrated
  <2>1. /\ backups' \in Seq(Copies) /\ stray' \in [Sessions -> SUBSET Lines]
        /\ legacy' \in {None} \cup 0 .. MaxLegacy /\ job' \in Job
        /\ UNCHANGED <<codexFiles, audit, pc, result, touched, writer, written>>
    BY <1>12, MovedIn
  <2> QED
    BY <2>1
<1> QED
  BY <1>1, <1>2, <1>3, <1>4, <1>5, <1>6, <1>7, <1>8, <1>9, <1>10, <1>11, <1>12 DEF History

LEMMA OtherTyped ==
  ASSUME TypeOK, Underway, Placed, IndexRepair \/ Codex \/ Crash \/ UNCHANGED vars
  PROVE  TypeOK'
<1> USE DEF TypeOK, GoTo, End, Start, codexFiles, codexState, running, audit, Steps,
     HistorySteps
<1>0. Idle \in Job
  BY JobTyped
<1>1. ASSUME NEW s \in Sessions, StartIndexRepair(s) PROVE TypeOK'
  <2>1. row[s] \in Providers
    BY <1>1 DEF StartIndexRepair, Provider
  <2>2. [Idle EXCEPT !.cur = s, !.previous = row[s]] \in Job
    BY <1>0, <2>1 DEF Job, Provider
  <2> QED
    BY <1>1, <2>2 DEF StartIndexRepair, Provider
<1>2. CASE PrepareRecord
  <2>1. [session |-> job.cur, status |-> "prepared", previous |-> job.previous] \in Record
    BY <1>2 DEF PrepareRecord, Underway, Record
  <2> QED
    BY <1>0, <1>2, <2>1 DEF PrepareRecord
<1>3. CASE CommitRow
  <2>1. job.cur \in Sessions /\ row[job.cur] \in Provider \cup {Absent}
    BY <1>3 DEF CommitRow, Underway
  <2>2. row' \in [Sessions -> Provider \cup {Absent}] /\ replaced' \in Provider \cup {Absent}
    BY <1>3, <2>1, ProviderAssumption DEF CommitRow, Overwritten, Provider
  <2> QED
    BY <1>0, <1>3, <2>2 DEF CommitRow
<1>4. CASE CompleteRecord
  <2>1. record \in Record
    BY <1>4 DEF CompleteRecord, Underway
  <2>2. [record EXCEPT !.status = "completed"] \in Record
        /\ [record EXCEPT !.status = "torn"] \in Record
    BY <2>1 DEF Record
  <2> QED
    BY <1>0, <1>4, <2>2 DEF CompleteRecord, RecordTorn
<1>5. CASE Crash
  <2>1. pc = "complete" => [record EXCEPT !.status = "torn"] \in Record
    BY DEF Underway, Record
  <2> QED
    BY <1>0, <1>5, <2>1 DEF Crash, RecordTorn
<1>6. ASSUME NEW s \in Sessions, NEW p \in Providers, CodexStart(s, p) PROVE TypeOK'
  <2>1. [provider |-> p, lines |-> {}] \in Rollout
    BY DEF Rollout, Provider
  <2> QED
    BY <1>6, <2>1 DEF CodexStart, Touch
<1>7. ASSUME NEW s \in Sessions, CodexResume(s) PROVE TypeOK'
  BY <1>7 DEF CodexResume
<1>8. ASSUME NEW s \in Sessions, CodexAppend(s) PROVE TypeOK'
  <2> DEFINE line == Cardinality(UNION {written[t] : t \in Sessions}) + 1
  <2>1. line \in Lines
    BY <1>8, NextLine, RetentionAssumption DEF CodexAppend, Lines
  <2> HIDE DEF line
  <2>2. /\ written' = [written EXCEPT ![s] = @ \cup {line}]
        /\ stray' = [stray EXCEPT ![s] = @ \cup {line}] \/ stray' = stray
        /\ rollout' = rollout \/ rollout' = [rollout EXCEPT ![s].lines = @ \cup {line}]
    BY <1>8 DEF CodexAppend, line
  <2>3. rollout[s] \in Rollout
    BY <1>8 DEF CodexAppend, Underway
  <2>4. [rollout[s] EXCEPT !.lines = @ \cup {line}] \in Rollout
    BY <2>1, <2>3 DEF Rollout
  <2>5. rollout' \in [Sessions -> {Absent} \cup Rollout]
    <3>1. rollout \in [Sessions -> {Absent} \cup Rollout]
      OBVIOUS
    <3> HIDE DEF TypeOK
    <3> QED
      BY <2>2, <2>4, <3>1
  <2>6. written' \in [Sessions -> SUBSET Lines] /\ stray' \in [Sessions -> SUBSET Lines]
    <3>1. written \in [Sessions -> SUBSET Lines] /\ stray \in [Sessions -> SUBSET Lines]
      OBVIOUS
    <3> HIDE DEF TypeOK
    <3> QED
      BY <2>1, <2>2, <3>1
  <2> QED
    BY <1>8, <2>5, <2>6 DEF CodexAppend
<1>9. ASSUME NEW s \in Sessions, NEW p \in Providers, CodexRow(s, p) PROVE TypeOK'
  BY <1>9 DEF CodexRow, Touch, Provider
<1>10. ASSUME NEW s \in Sessions, CodexIndex(s) PROVE TypeOK'
  BY <1>10 DEF CodexIndex, Touch
<1>11. CASE UNCHANGED vars
  BY <1>11 DEF vars
<1> QED
  BY <1>1, <1>2, <1>3, <1>4, <1>5, <1>6, <1>7, <1>8, <1>9, <1>10, <1>11 DEF IndexRepair, Codex

-----------------------------------------------------------------------------
LEMMA HistoryUnderway ==
  ASSUME TypeOK, Underway, Placed, History
  PROVE  Underway'
<1> USE DEF GoTo, End, Warned, codexFiles, codexState, running, audit, HistorySteps, Copying
<1>0. /\ Idle.todo = {} /\ \A s \in Sessions : Idle.updates[s] = Absent
      /\ \A s \in Sessions : NoCopies[s] = Absent
  BY DEF Idle, NoCopies
<1>f. /\ job \in Job
      /\ \A s \in Sessions : rollout[s] # Absent => rollout[s] \in Rollout
  BY DEF TypeOK
<1>1. ASSUME NEW p \in Providers, StartHistory(p) PROVE Underway'
  <2>1. /\ pc' = "collect" /\ job'.target = p /\ result' = "none" /\ record' = Absent
        /\ replaced' = None /\ job'.updates = NoCopies
        /\ job'.todo = {s \in Sessions : rollout[s] # Absent}
    BY <1>1 DEF StartHistory, Start, Idle
  <2> QED
    BY <1>0, <1>1, <2>1 DEF StartHistory, Underway
<1>2. ASSUME NEW s \in Sessions, ReadRollout(s) PROVE Underway'
  BY <1>2, <1>f DEF ReadRollout, Underway, Job, Copies
<1>3. CASE CollectFails
  BY <1>0, <1>3, <1>f DEF CollectFails, Underway, Job, Copies
<1>4. CASE Plan
  <2>1. PICK planned \in
          {[job EXCEPT !.rows = \E s \in Sessions : row[s] \notin {Absent, job.target},
                       !.missing = {s \in Sessions : row[s] # Absent} \ index],
           Warned(job)} :
          IF NeedsBackup(planned) THEN GoTo("mkdir", planned) ELSE End(Report(planned))
    BY <1>4 DEF Plan
  <2>2. /\ planned.todo = job.todo /\ planned.updates = job.updates /\ planned.target = job.target
    BY <2>1, <1>f DEF Job
  <2>3. (NeedsBackup(planned) /\ GoTo("mkdir", planned)) \/ End(Report(planned))
    BY <2>1
  <2>4. CASE NeedsBackup(planned) /\ GoTo("mkdir", planned)
    <3>1. NeedsBackup(job)'
      BY <2>4 DEF NeedsBackup
    <3> QED
      BY <1>4, <2>2, <2>4, <3>1 DEF Plan, Underway
  <2>5. CASE End(Report(planned))
    BY <1>0, <1>4, <2>5 DEF Plan, Underway
  <2> QED
    BY <2>3, <2>4, <2>5
<1>5. CASE MakeDir
  <2>1. CASE WriteInto("rollouts", job, NoCopies)
    <3>1. /\ \A s \in Sessions : Mine[s] # Absent => NoCopies[s] = Mine[s]
          /\ NoCopies \in Copies
      BY <1>5 DEF MakeDir, Placed, Working, Mine, NoCopies, Copies
    <3>2. /\ pc' = "rollouts" /\ SameWork(job', job) /\ UNCHANGED <<result, touched>>
          /\ Mine' = NoCopies
      BY <1>f, <2>1, <3>1, Written
    <3> QED
      BY <1>0, <1>5, <3>2 DEF MakeDir, Underway, SameWork
  <2>2. CASE UNCHANGED backups /\ End("warnings")
    BY <1>0, <1>5, <2>2 DEF MakeDir, Underway
  <2> QED
    BY <1>5, <2>1, <2>2 DEF MakeDir
<1>6. ASSUME NEW s \in Sessions, CopyRollout(s) PROVE Underway'
  <2>1. Mine[s] = Absent /\ rollout[s] \in Rollout
    BY <1>6, <1>f DEF CopyRollout, Underway
  <2>2. CASE CopyInto(s)
    <3>1. /\ pc' = "replace" /\ SameWork(job', [job EXCEPT !.cur = s])
          /\ UNCHANGED <<result, touched>>
          /\ \A t \in Sessions \ {s} : Mine'[t] = Mine[t]
      BY <2>1, <2>2, CopyMade
    <3>2. job'.cur = s /\ job'.todo = job.todo /\ job'.updates = job.updates
          /\ job'.target = job.target
      BY <1>f, <3>1 DEF Job, SameWork
    <3> QED
      BY <1>6, <3>1, <3>2 DEF CopyRollout, Underway
  <2>3. CASE UNCHANGED backups /\ GoTo("rollouts", Warned([job EXCEPT !.updates[s] = Absent]))
    <3>1. /\ job'.todo = job.todo /\ job'.target = job.target /\ Mine' = Mine
          /\ \A t \in Sessions : job'.updates[t] = IF t = s THEN Absent ELSE job.updates[t]
      BY <2>3, <1>f DEF Job, Copies, Mine
    <3> QED
      BY <1>6, <2>3, <3>1 DEF CopyRollout, Underway
  <2> QED
    BY <1>6, <2>2, <2>3 DEF CopyRollout
<1>7. CASE ReplaceRollout
  <2>1. job.cur \in Sessions /\ rollout[job.cur] # Absent
    BY <1>7 DEF ReplaceRollout, Underway
  <2>2. /\ pc' = "rollouts" /\ job'.todo = job.todo /\ job'.target = job.target
        /\ job'.dir = job.dir
        /\ \A t \in Sessions : job'.updates[t] = IF t = job.cur THEN Absent ELSE job.updates[t]
    <3> DEFINE done == [job EXCEPT !.updates[job.cur] = Absent, !.cur = None]
    <3>1. /\ done.todo = job.todo /\ done.target = job.target
          /\ Warned(done).todo = job.todo /\ Warned(done).target = job.target
          /\ \A t \in Sessions : done.updates[t] = IF t = job.cur THEN Absent ELSE job.updates[t]
          /\ Warned(done).updates = done.updates
          /\ done.dir = job.dir /\ Warned(done).dir = job.dir
      BY <1>f DEF Job, Copies
    <3>2. pc' = "rollouts" /\ (job' = done \/ job' = Warned(done))
      BY <1>7 DEF ReplaceRollout
    <3> HIDE DEF done
    <3> QED
      BY <3>1, <3>2
  <2>3. \A t \in Sessions : (rollout'[t] = Absent => rollout[t] = Absent)
                            /\ (writer[t] = "none" => writer'[t] = "none")
    <3>1. [provider |-> job.target, lines |-> job.updates[job.cur]] # Absent
      <4>1. [provider |-> job.target, lines |-> job.updates[job.cur]] \in Rollout
        BY <1>7, <1>f, <2>1 DEF ReplaceRollout, Underway, Job, Copies, Rollout
      <4> QED
        BY <4>1, NullAssumption
    <3> QED
      BY <1>7, <3>1 DEF ReplaceRollout, TypeOK
  <2>4. \A t \in Sessions : rollout[t] # Absent => rollout'[t] # Absent
    BY <2>3
  <2>5. pc = "replace" /\ written' = written /\ backups' = backups /\ record' = record
        /\ replaced' = replaced /\ result' = result
    BY <1>7 DEF ReplaceRollout
  <2>6. Mine' = Mine
    BY <2>2, <2>5 DEF Mine
  <2> QED
    BY <2>1, <2>2, <2>3, <2>4, <2>5, <2>6 DEF Underway
<1>8. CASE BackupRows \/ UpdateRows \/ ReadIndex \/ AppendIndex
  <2>1. /\ job'.todo = job.todo /\ job'.updates = job.updates /\ job'.target = job.target
        /\ pc' \in {"rows", "index", "append", "prune"} /\ result' = result
    <3>1. CASE BackupRows \/ ReadIndex
      <4>1. PICK step \in {"rows", "index", "append", "prune"},
                 locals \in {job, Warned(job), [job EXCEPT !.seen = index]} :
              MayWriteInto(step, locals)
        BY <3>1, BackupSteps
      <4>2. /\ locals \in Job /\ locals.todo = job.todo /\ locals.updates = job.updates
            /\ locals.target = job.target
        BY <1>f DEF Job, TypeOK
      <4>3. pc' = step /\ SameWork(job', locals) /\ result' = result
        <5>1. CASE WriteInto(step, locals, Mine)
          BY <4>2, <5>1, MineTyped, Written
        <5>2. CASE GoTo(step, locals)
          BY <5>2 DEF SameWork
        <5> QED
          BY <4>1, <5>1, <5>2 DEF MayWriteInto
      <4> QED
        BY <4>2, <4>3 DEF SameWork
    <3>2. CASE UpdateRows \/ AppendIndex
      BY <1>f, <3>2 DEF UpdateRows, AppendIndex, Job
    <3> QED
      BY <1>8, <3>1, <3>2
  <2>2. \A s \in Sessions : job.updates[s] = Absent
    BY <1>0, <1>8 DEF BackupRows, UpdateRows, ReadIndex, AppendIndex, Underway
  <2>3. /\ rollout' = rollout /\ writer' = writer /\ written' = written
        /\ record' = record /\ replaced' = replaced
        /\ pc \in {"rollouts", "rows", "index", "append"}
    BY <1>8 DEF BackupRows, UpdateRows, ReadIndex, AppendIndex
  <2> QED
    BY <2>1, <2>2, <2>3 DEF Underway
<1>9. CASE Prune
  BY <1>0, <1>9 DEF Prune, Underway
<1>10. CASE PruneRequest
  BY <1>10 DEF PruneRequest, Underway
<1>11. CASE MoveLegacy \/ PruneMigrated
  <2>1. /\ SameWork(job', job)
        /\ UNCHANGED <<codexFiles, audit, pc, result, touched, writer, written>>
        /\ \A s \in Sessions : Mine[s] = Absent => Mine'[s] = Absent
    BY <1>11, MovedIn
  <2>2. NeedsBackup(job) => NeedsBackup(job')
    BY <2>1 DEF NeedsBackup, SameWork
  <2> QED
    BY <2>1, <2>2 DEF Underway, SameWork
<1> QED
  BY <1>1, <1>2, <1>3, <1>4, <1>5, <1>6, <1>7, <1>8, <1>9, <1>10, <1>11 DEF History

LEMMA OtherUnderway ==
  ASSUME TypeOK, Underway, Placed, IndexRepair \/ Codex \/ Crash \/ UNCHANGED vars
  PROVE  Underway'
<1> USE DEF GoTo, End, codexFiles, codexState, running, audit, HistorySteps, Copying, Mine
<1>0. /\ Idle.todo = {} /\ \A s \in Sessions : Idle.updates[s] = Absent
  BY DEF Idle, NoCopies
<1>f. /\ job \in Job /\ record \in Record \cup {Absent}
      /\ \A s \in Sessions : rollout[s] # Absent => rollout[s] \in Rollout
  BY DEF TypeOK
<1>1. ASSUME NEW s \in Sessions, StartIndexRepair(s) PROVE Underway'
  <2>1. row[s] \in Providers
    BY <1>1 DEF StartIndexRepair, Provider, TypeOK
  <2> QED
    BY <1>0, <1>1, <2>1 DEF StartIndexRepair, Start, Idle, Underway
<1>2. CASE PrepareRecord
  <2>1. [session |-> job.cur, status |-> "prepared", previous |-> job.previous] \in Record
    BY <1>2 DEF PrepareRecord, Underway, Record
  <2> QED
    BY <1>0, <1>2, <2>1 DEF PrepareRecord, Underway
<1>3. CASE CommitRow
  <2>1. pc = "commit" /\ rollout' = rollout /\ backups' = backups /\ record' = record
        /\ writer' = writer /\ written' = written
    BY <1>3 DEF CommitRow
  <2>2. CASE GoTo("complete", job)
    BY <2>1, <2>2 DEF Underway
  <2>3. CASE End("err")
    BY <1>0, <2>1, <2>3 DEF Underway
  <2> QED
    BY <1>3, <2>2, <2>3 DEF CommitRow
<1>4. CASE CompleteRecord
  BY <1>0, <1>4 DEF CompleteRecord, Underway
<1>5. CASE Crash
  BY <1>0, <1>5 DEF Crash, Underway
<1>6. ASSUME NEW s \in Sessions, NEW p \in Providers, CodexStart(s, p) PROVE Underway'
  <2>1. [provider |-> p, lines |-> {}] # Absent
    BY NullAssumption DEF Rollout, Provider
  <2>2. \A t \in Sessions : /\ rollout[t] # Absent => rollout'[t] # Absent
                            /\ rollout'[t] = Absent => rollout[t] = Absent /\ writer'[t] = writer[t]
    BY <1>6, <2>1 DEF CodexStart, TypeOK
  <2>3. job.todo \subseteq Sessions
    BY <1>f DEF Job
  <2>4. /\ pc' = pc /\ job' = job /\ result' = result /\ record' = record
        /\ replaced' = replaced /\ backups' = backups /\ written' = written
    BY <1>6 DEF CodexStart
  <2>5. NeedsBackup(job)' = NeedsBackup(job)
    BY <2>4 DEF NeedsBackup
  <2> QED
    BY <2>2, <2>3, <2>4, <2>5 DEF Underway
<1>7. ASSUME NEW s \in Sessions, CodexResume(s) PROVE Underway'
  BY <1>7 DEF CodexResume, Underway, TypeOK
<1>8. ASSUME NEW s \in Sessions, CodexAppend(s) PROVE Underway'
  <2> DEFINE line == Cardinality(UNION {written[t] : t \in Sessions}) + 1
  <2> HIDE DEF line
  <2>1. /\ written' = [written EXCEPT ![s] = @ \cup {line}]
        /\ rollout' = rollout \/ rollout' = [rollout EXCEPT ![s].lines = @ \cup {line}]
        /\ rollout[s] \in Rollout
    BY <1>8, <1>f DEF CodexAppend, line, Underway
  <2>2. [rollout[s] EXCEPT !.lines = @ \cup {line}] # Absent
    <3>1. line \in Lines
      BY <1>8, NextLine, RetentionAssumption DEF CodexAppend, Lines, line
    <3>2. [rollout[s] EXCEPT !.lines = @ \cup {line}] \in Rollout
      BY <2>1, <3>1 DEF Rollout
    <3> QED
      BY <3>2, NullAssumption
  <2>3. \A t \in Sessions : /\ rollout[t] # Absent => rollout'[t] # Absent
                            /\ t # s => rollout'[t] = rollout[t] /\ written'[t] = written[t]
    BY <2>1, <2>2 DEF TypeOK
  <2>4. rollout'[s] # Absent
    BY <2>1, <2>3, NullAssumption
  <2> QED
    BY <1>8, <1>f, <2>3, <2>4 DEF CodexAppend, Underway, Job
<1>9. ASSUME NEW s \in Sessions, NEW p \in Providers, CodexRow(s, p) PROVE Underway'
  BY <1>9 DEF CodexRow, Underway
<1>10. ASSUME NEW s \in Sessions, CodexIndex(s) PROVE Underway'
  BY <1>10 DEF CodexIndex, Underway
<1>11. CASE UNCHANGED vars
  BY <1>11 DEF vars, Underway, NeedsBackup
<1> QED
  BY <1>1, <1>2, <1>3, <1>4, <1>5, <1>6, <1>7, <1>8, <1>9, <1>10, <1>11 DEF IndexRepair, Codex

\* The repair's directory stays where it is, comes first when the repair writes into it, is
\* pushed back by what is moved in, and is gone when it is pruned.
LEMMA StaysPlaced ==
  ASSUME TypeOK, Underway, Placed, [Next]_vars
  PROVE  Placed'
<1> USE DEF Working, HistorySteps
<1>f. job \in Job /\ backups \in Seq(Copies) /\ Len(backups) \in Nat
      /\ Len(backups') \in Nat /\ job'.newer \in 0 .. MaxBackups
  <2>1. TypeOK'
    BY HistoryTyped, OtherTyped DEF Next
  <2> QED
    BY <2>1 DEF TypeOK, Job
<1>1. CASE job'.dir = 0 /\ pc' \notin Working
  BY <1>f, <1>1, RetentionAssumption DEF Placed
<1>2. CASE /\ backups' = backups /\ job'.dir = job.dir /\ job'.newer = job.newer
           /\ pc' \in Working \/ pc \notin Working
  BY <1>2 DEF Placed
<1>3. ASSUME NEW step \in Working, NEW locals \in Job, NEW copies \in Copies,
             \A s \in Sessions : Mine[s] # Absent => copies[s] = Mine[s],
             WriteInto(step, locals, copies)
      PROVE  Placed'
  <2>1. Len(backups') >= 1 /\ pc' = step /\ job'.dir = 1 /\ job'.newer = 0
    BY <1>3, Written
  <2> QED
    BY <1>f, <2>1 DEF Placed
<1>4. CASE MoveLegacy \/ PruneMigrated
  <2>1. /\ job'.dir \in 0 .. Len(backups') /\ pc' = pc
        /\ job'.newer < MaxBackups => job'.dir <= job'.newer + 1
        /\ job.dir = 0 => job' = job
    BY <1>4, MovedIn
  <2> QED
    BY <2>1 DEF Placed
<1>5. ASSUME NEW s \in Sessions, CopyRollout(s) PROVE Placed'
  <2>1. CASE CopyInto(s)
    <3>1. Mine[s] = Absent /\ rollout[s] \in Rollout
      BY <1>5 DEF CopyRollout, Underway, Copying, TypeOK
    <3>2. /\ job'.dir \in 0 .. Len(backups') /\ pc' = "replace"
          /\ job'.newer < MaxBackups => job'.dir <= job'.newer + 1
      BY <2>1, <3>1, CopyMade
    <3> QED
      BY <3>2 DEF Placed
  <2>2. CASE UNCHANGED backups /\ GoTo("rollouts", Warned([job EXCEPT !.updates[s] = Absent]))
    <3>1. job'.dir = job.dir /\ job'.newer = job.newer /\ pc' = "rollouts"
      BY <1>f, <2>2 DEF GoTo, Warned, Job
    <3> QED
      BY <1>2, <2>2, <3>1
  <2> QED
    BY <1>5, <2>1, <2>2 DEF CopyRollout
<1>6. CASE MakeDir
  <2>1. /\ \A s \in Sessions : Mine[s] # Absent => NoCopies[s] = Mine[s]
        /\ NoCopies \in Copies
    BY <1>6 DEF MakeDir, Placed, Mine, NoCopies, Copies
  <2>2. WriteInto("rollouts", job, NoCopies) \/ End("warnings")
    BY <1>6 DEF MakeDir
  <2>3. CASE WriteInto("rollouts", job, NoCopies)
    BY <1>3, <1>f, <2>1, <2>3
  <2>4. CASE End("warnings")
    BY <1>1, <2>4 DEF End, Idle
  <2> QED
    BY <2>2, <2>3, <2>4
<1>7. CASE BackupRows \/ ReadIndex
  <2>1. PICK step \in {"rows", "index", "append", "prune"},
             locals \in {job, Warned(job), [job EXCEPT !.seen = index]} :
          MayWriteInto(step, locals)
    BY <1>7, BackupSteps
  <2>2. locals \in Job /\ locals.dir = job.dir /\ locals.newer = job.newer
    BY <1>f DEF Warned, Job, TypeOK
  <2>3. CASE WriteInto(step, locals, Mine)
    BY <1>3, <2>2, <2>3, MineTyped
  <2>4. CASE UNCHANGED backups /\ GoTo(step, locals)
    BY <1>2, <2>2, <2>4 DEF GoTo
  <2> QED
    BY <2>1, <2>3, <2>4 DEF MayWriteInto
<1>8. ASSUME NEW p \in Providers, StartHistory(p) PROVE Placed'
  BY <1>1, <1>8 DEF StartHistory, Start, Idle
<1>9. ASSUME NEW s \in Sessions, StartIndexRepair(s) PROVE Placed'
  BY <1>1, <1>9 DEF StartIndexRepair, Start, Idle
<1>10. ASSUME NEW s \in Sessions, ReadRollout(s) PROVE Placed'
  <2>1. job'.dir = job.dir /\ job'.newer = job.newer
    BY <1>f, <1>10 DEF ReadRollout, GoTo, Job
  <2> QED
    BY <1>2, <1>10, <2>1 DEF ReadRollout, GoTo
<1>11. CASE CollectFails \/ UpdateRows \/ AppendIndex
  <2>1. job'.dir = job.dir /\ job'.newer = job.newer
    BY <1>f, <1>11 DEF CollectFails, UpdateRows, AppendIndex, GoTo, Warned, Job
  <2> QED
    BY <1>2, <1>11, <2>1 DEF CollectFails, UpdateRows, AppendIndex, GoTo
<1>12. CASE ReplaceRollout
  <2> DEFINE done == [job EXCEPT !.updates[job.cur] = Absent, !.cur = None]
  <2>1. /\ done.dir = job.dir /\ Warned(done).dir = job.dir
        /\ done.newer = job.newer /\ Warned(done).newer = job.newer
    BY <1>f DEF Warned, Job, Copies
  <2>2. pc' = "rollouts" /\ (job' = done \/ job' = Warned(done)) /\ backups' = backups
    BY <1>12 DEF ReplaceRollout, GoTo
  <2> HIDE DEF done
  <2> QED
    BY <1>2, <2>1, <2>2
<1>13. CASE Plan
  <2>1. PICK planned \in
          {[job EXCEPT !.rows = \E s \in Sessions : row[s] \notin {Absent, job.target},
                       !.missing = {s \in Sessions : row[s] # Absent} \ index],
           Warned(job)} :
          IF NeedsBackup(planned) THEN GoTo("mkdir", planned) ELSE End(Report(planned))
    BY <1>13 DEF Plan
  <2>2. planned.dir = job.dir /\ pc = "collect"
    BY <1>13, <1>f, <2>1 DEF Warned, Job, Plan
  <2>3. job.dir = 0
    BY <2>2 DEF Placed
  <2> QED
    BY <1>1, <2>1, <2>2, <2>3 DEF GoTo, End, Idle
<1>14. CASE Prune \/ Crash
  BY <1>1, <1>14 DEF Prune, Crash, End, Idle
<1>15. CASE PruneRequest
  <2>1. job' = job /\ pc' = pc /\ pc = "idle"
    BY <1>15 DEF PruneRequest, running
  <2>2. job.dir = 0
    BY <2>1 DEF Placed
  <2> QED
    BY <1>1, <2>1, <2>2
<1>16. CASE PrepareRecord \/ CommitRow \/ CompleteRecord
  <2>1. pc \notin Working /\ pc' \notin Working /\ job' \in {job, Idle}
    BY <1>16 DEF PrepareRecord, CommitRow, CompleteRecord, GoTo, End
  <2> QED
    BY <1>1, <2>1 DEF Placed, Idle
<1>17. CASE Codex \/ UNCHANGED vars
  <2>1. job' = job /\ pc' = pc /\ backups' = backups
    BY <1>17 DEF Codex, CodexStart, CodexResume, CodexAppend, CodexRow, CodexIndex, running, vars
  <2> QED
    BY <1>2, <2>1
<1> QED
  BY <1>4, <1>5, <1>6, <1>7, <1>8, <1>9, <1>10, <1>11, <1>12, <1>13, <1>14, <1>15, <1>16, <1>17
  DEF Next, History, IndexRepair

LEMMA TypedStep ==
  ASSUME TypeOK, Underway, Placed, [Next]_vars
  PROVE  TypeOK' /\ Underway' /\ Placed'
  BY HistoryTyped, OtherTyped, HistoryUnderway, OtherUnderway, StaysPlaced DEF Next

\* Every variable keeps its type, whatever repairs run, fail or die and whatever Codex
\* writes meanwhile.
THEOREM TypeCorrect == Spec => []TypeOK
  BY InitTyped, TypedStep, PTL DEF Spec

-----------------------------------------------------------------------------
\* Before a rollout is replaced, every line it holds is copied or accounted for.
LinesInv ==
  /\ LinesKept
  /\ pc = "replace" =>
       rollout[job.cur].lines \subseteq stray[job.cur] \cup CopiedLines(backups, job.cur)

\* What is copied or accounted for may only grow.
Covers(s) == stray[s] \cup CopiedLines(backups, s)

LEMMA HistoryCovers ==
  ASSUME TypeOK, Underway, Placed, History, NEW s \in Sessions
  PROVE  Covers(s) \subseteq Covers(s)'
<1> USE DEF codexFiles, codexState, running, audit
<1>1. CASE backups' = backups /\ stray' = stray
  BY <1>1 DEF Covers
<1>2. CASE MakeDir
  <2>1. /\ \A t \in Sessions : Mine[t] # Absent => NoCopies[t] = Mine[t]
        /\ NoCopies \in Copies /\ job \in Job
    BY <1>2 DEF MakeDir, Placed, Working, Mine, NoCopies, Copies, TypeOK
  <2>2. CASE WriteInto("rollouts", job, NoCopies)
    <3>1. CopiedLines(backups, s) \subseteq CopiedLines(backups', s)
      BY <2>1, <2>2, Written
    <3> QED
      BY <1>2, <3>1 DEF MakeDir, Covers
  <2> QED
    BY <1>1, <1>2, <2>2 DEF MakeDir
<1>3. ASSUME NEW t \in Sessions, CopyRollout(t) PROVE Covers(s) \subseteq Covers(s)'
  <2>1. Mine[t] = Absent /\ rollout[t] \in Rollout
    BY <1>3 DEF CopyRollout, Underway, Copying, TypeOK
  <2>2. CASE CopyInto(t)
    <3>1. CopiedLines(backups, s) \subseteq CopiedLines(backups', s)
      BY <2>1, <2>2, CopyMade
    <3> QED
      BY <1>3, <3>1 DEF CopyRollout, Covers
  <2> QED
    BY <1>1, <1>3, <2>2 DEF CopyRollout
<1>4. CASE PruneRequest
  <2>1. 0 \in 0 .. Len(backups) /\ PruneDirs(backups, 0)
    BY <1>4 DEF PruneRequest, TypeOK
  <2> QED
    BY <2>1, Pruned DEF TypeOK, Covers
<1>5. CASE BackupRows \/ ReadIndex
  <2>1. PICK step \in {"rows", "index", "append", "prune"},
             locals \in {job, Warned(job), [job EXCEPT !.seen = index]} :
          MayWriteInto(step, locals)
    BY <1>5, BackupSteps
  <2>2. locals \in Job
    BY DEF Warned, Job, TypeOK
  <2>3. stray' = stray
    BY <1>5 DEF BackupRows, ReadIndex
  <2>4. CASE WriteInto(step, locals, Mine)
    <3>1. CopiedLines(backups, s) \subseteq CopiedLines(backups', s)
      BY <2>2, <2>4, MineTyped, Written
    <3> QED
      BY <2>3, <3>1 DEF Covers
  <2> QED
    BY <1>1, <2>1, <2>3, <2>4 DEF MayWriteInto
<1>6. CASE Prune
  BY <1>6, Ended DEF Covers
<1>7. CASE MoveLegacy \/ PruneMigrated
  BY <1>7, MovedIn DEF Covers
<1>8. \/ backups' = backups /\ stray' = stray
      \/ MakeDir \/ PruneRequest \/ BackupRows \/ ReadIndex \/ Prune
      \/ MoveLegacy \/ PruneMigrated
      \/ \E t \in Sessions : CopyRollout(t)
  BY DEF History, StartHistory, ReadRollout, CollectFails, Plan, ReplaceRollout, UpdateRows,
     AppendIndex
<1> QED
  BY <1>1, <1>2, <1>3, <1>4, <1>5, <1>6, <1>7, <1>8

\* Which steps of a repair lead to the replacing of a rollout.
LEMMA ToReplace ==
  ASSUME TypeOK, Underway, Placed, History
  PROVE  \/ ReplaceRollout
         \/ \E s \in Sessions : CopyRollout(s)
         \/ /\ rollout' = rollout
            /\ pc' = "replace" => pc = "replace" /\ job'.cur = job.cur
<1> USE DEF codexFiles, codexState, running, audit, GoTo
<1>1. CASE MakeDir
  <2>1. rollout' = rollout /\ (WriteInto("rollouts", job, NoCopies) \/ End("warnings"))
    BY <1>1 DEF MakeDir
  <2> QED
    BY <2>1 DEF WriteInto, End
<1>2. CASE BackupRows \/ ReadIndex
  <2>1. PICK step \in {"rows", "index", "append", "prune"},
             locals \in {job, Warned(job), [job EXCEPT !.seen = index]} :
          MayWriteInto(step, locals)
    BY <1>2, BackupSteps
  <2>2. pc' = step /\ rollout' = rollout
    BY <1>2, <2>1 DEF MayWriteInto, WriteInto, BackupRows, ReadIndex
  <2> QED
    BY <2>2
<1>3. CASE MoveLegacy \/ PruneMigrated
  BY <1>3, MovedIn DEF SameWork
<1>4. CASE CollectFails \/ Plan \/ UpdateRows \/ AppendIndex \/ Prune \/ PruneRequest
  BY <1>4 DEF CollectFails, Plan, UpdateRows, AppendIndex, Prune, PruneRequest, End
<1>5. ASSUME NEW p \in Providers, StartHistory(p)
      PROVE  rollout' = rollout /\ pc' = "collect"
  BY <1>5 DEF StartHistory, Start
<1>6. ASSUME NEW s \in Sessions, ReadRollout(s)
      PROVE  rollout' = rollout /\ pc' = "collect"
  BY <1>6 DEF ReadRollout
<1> QED
  BY <1>1, <1>2, <1>3, <1>4, <1>5, <1>6 DEF History

LEMMA HistoryKeepsLines ==
  ASSUME TypeOK, Underway, Placed, LinesInv, History
  PROVE  LinesInv'
<1> USE DEF codexFiles, codexState, running, audit, GoTo
<1>1. written' = written
  BY DEF History, StartHistory, ReadRollout, CollectFails, Plan, MakeDir, CopyRollout,
     ReplaceRollout, BackupRows, UpdateRows, ReadIndex, AppendIndex, Prune, PruneRequest,
     MoveLegacy, PruneMigrated
<1>2. \A s \in Sessions : Covers(s) \subseteq Covers(s)'
  BY HistoryCovers
<1>3. CASE ReplaceRollout
  <2>1. pc' = "rollouts"
    BY <1>3 DEF ReplaceRollout
  <2>2. \A s \in Sessions : \/ rollout'[s] = rollout[s]
                            \/ s = job.cur /\ rollout[s] # Absent
    BY <1>3 DEF ReplaceRollout, TypeOK, Underway
  <2>3. \A s \in Sessions : s = job.cur => rollout[s].lines \subseteq Covers(s)
    BY <1>3 DEF ReplaceRollout, LinesInv, Covers
  <2>4. ASSUME NEW s \in Sessions, rollout'[s] # Absent
        PROVE  written[s] \subseteq rollout'[s].lines \cup Covers(s)
    BY <2>2, <2>3, <2>4 DEF LinesInv, LinesKept, Covers
  <2> QED
    BY <1>1, <1>2, <2>1, <2>4 DEF LinesInv, LinesKept, Covers
<1>4. CASE rollout' = rollout /\ (pc' = "replace" => pc = "replace" /\ job'.cur = job.cur)
  <2>1. LinesKept'
    BY <1>1, <1>2, <1>4 DEF LinesInv, LinesKept, Covers
  <2>2. ASSUME pc' = "replace"
        PROVE  rollout'[job'.cur].lines \subseteq Covers(job.cur)'
    BY <1>2, <1>4, <2>2 DEF LinesInv, Covers, Underway
  <2>3. job'.cur = job.cur \/ pc' # "replace"
    BY <1>4
  <2> QED
    BY <1>4, <2>1, <2>2, <2>3 DEF LinesInv, Covers
<1>5. ASSUME NEW s \in Sessions, CopyRollout(s) PROVE LinesInv'
  <2>1. LinesKept'
    BY <1>1, <1>2, <1>5 DEF CopyRollout, LinesInv, LinesKept, Covers
  <2>2. CASE CopyInto(s)
    <3>1. Mine[s] = Absent /\ rollout[s] \in Rollout /\ job \in Job
      BY <1>5 DEF CopyRollout, Underway, Copying, TypeOK
    <3>2. /\ rollout[s].lines \subseteq CopiedLines(backups', s)
          /\ SameWork(job', [job EXCEPT !.cur = s])
      BY <2>2, <3>1, CopyMade
    <3>3. job'.cur = s /\ rollout' = rollout
      BY <1>5, <3>1, <3>2 DEF SameWork, Job, CopyRollout
    <3> QED
      BY <2>1, <3>2, <3>3 DEF LinesInv
  <2>3. CASE UNCHANGED backups /\ GoTo("rollouts", Warned([job EXCEPT !.updates[s] = Absent]))
    BY <2>1, <2>3 DEF LinesInv
  <2> QED
    BY <1>5, <2>2, <2>3 DEF CopyRollout
<1> QED
  BY <1>3, <1>4, <1>5, ToReplace

LEMMA OtherKeepsLines ==
  ASSUME TypeOK, Underway, Placed, LinesInv, IndexRepair \/ Codex \/ Crash \/ UNCHANGED vars
  PROVE  LinesInv'
<1> USE DEF codexFiles, codexState, running, audit, GoTo, End
<1>1. CASE /\ rollout' = rollout /\ written' = written /\ stray' = stray /\ backups' = backups
           /\ pc' = "replace" => pc = "replace" /\ job' = job
  BY <1>1 DEF LinesInv, LinesKept
<1>2. ASSUME NEW s \in Sessions, NEW p \in Providers, CodexStart(s, p) PROVE LinesInv'
  <2>1. /\ \A t \in Sessions : t # s => rollout'[t] = rollout[t]
        /\ rollout[s] = Absent /\ written[s] = {}
    BY <1>2 DEF CodexStart, TypeOK, Underway
  <2>2. pc = "replace" => job.cur \in Sessions /\ job.cur # s
    BY <2>1 DEF Underway
  <2> QED
    BY <1>2, <2>1, <2>2 DEF CodexStart, LinesInv, LinesKept
<1>3. ASSUME NEW s \in Sessions, CodexAppend(s) PROVE LinesInv'
  <2> DEFINE line == Cardinality(UNION {written[t] : t \in Sessions}) + 1
  <2> HIDE DEF line
  <2>1. /\ written' = [written EXCEPT ![s] = @ \cup {line}]
        /\ \/ stray' = [stray EXCEPT ![s] = @ \cup {line}]
           \/ /\ stray' = stray /\ writer[s] # "stale"
              /\ ~(pc = "replace" /\ job.cur = s)
        /\ \/ rollout' = rollout /\ writer[s] = "stale"
           \/ rollout' = [rollout EXCEPT ![s].lines = @ \cup {line}]
        /\ pc' = pc /\ job' = job /\ backups' = backups /\ rollout[s] \in Rollout
        /\ rollout[s] # Absent
    BY <1>3 DEF CodexAppend, line, Underway, TypeOK
  <2>2. /\ \A t \in Sessions \ {s} : rollout'[t] = rollout[t]
        /\ \A t \in Sessions \ {s} : written'[t] = written[t]
        /\ \A t \in Sessions \ {s} : stray'[t] = stray[t]
    BY <2>1 DEF TypeOK
  <2>3. written'[s] = written[s] \cup {line}
    BY <2>1 DEF TypeOK
  <2>4. /\ stray[s] \subseteq stray'[s]
        /\ (writer[s] = "stale" \/ (pc = "replace" /\ job.cur = s)) => line \in stray'[s]
    BY <2>1 DEF TypeOK
  <2>5. /\ rollout[s].lines \subseteq rollout'[s].lines
        /\ rollout'[s].lines \subseteq rollout[s].lines \cup {line}
        /\ writer[s] # "stale" => line \in rollout'[s].lines
    BY <2>1 DEF TypeOK, Rollout
  <2>6. written'[s] \subseteq rollout'[s].lines \cup stray'[s] \cup CopiedLines(backups, s)
    BY <2>1, <2>3, <2>4, <2>5 DEF LinesInv, LinesKept
  <2>7. LinesKept'
    BY <2>1, <2>2, <2>6 DEF LinesInv, LinesKept
  <2>8. ASSUME pc = "replace"
        PROVE  rollout'[job.cur].lines \subseteq stray'[job.cur] \cup CopiedLines(backups, job.cur)
    <3>1. job.cur \in Sessions
      BY <2>8 DEF Underway
    <3>2. CASE job.cur = s
      BY <2>4, <2>5, <2>8, <3>2 DEF LinesInv
    <3>3. CASE job.cur # s
      BY <2>2, <2>8, <3>1, <3>3 DEF LinesInv
    <3> QED
      BY <3>2, <3>3
  <2> QED
    BY <2>1, <2>7, <2>8 DEF LinesInv
<1>4. \/ /\ rollout' = rollout /\ written' = written /\ stray' = stray /\ backups' = backups
         /\ pc' = "replace" => pc = "replace" /\ job' = job
      \/ \E s \in Sessions : CodexAppend(s) \/ \E p \in Providers : CodexStart(s, p)
  BY DEF IndexRepair, Codex, StartIndexRepair, Start, PrepareRecord, CommitRow, CompleteRecord,
     Crash, CodexResume, CodexRow, CodexIndex, vars
<1> QED
  BY <1>1, <1>2, <1>3, <1>4

\* No repair loses a line of a conversation, however many sessions it repairs, whichever of
\* its steps fail and wherever it dies, but those Codex writes to a file being replaced.
THEOREM ConversationsKept == Spec => []LinesKept
<1>1. Init => LinesInv
  BY DEF Init, LinesInv, LinesKept
<1>2. TypeOK /\ Underway /\ Placed /\ LinesInv /\ [Next]_vars => LinesInv'
  BY HistoryKeepsLines, OtherKeepsLines DEF Next
<1>3. LinesInv => LinesKept
  BY DEF LinesInv
<1> QED
  BY InitTyped, TypedStep, <1>1, <1>2, <1>3, PTL DEF Spec

-----------------------------------------------------------------------------
\* What the directory of a running repair holds stays, for any retention: only MaxBackups
\* directories of an earlier version copied in before it can push it out.
THEOREM RunningBackupStays == Spec => RunningBackupKept
<1>1. ASSUME TypeOK, Underway, Placed, Next, pc \in HistorySteps,
             job.dir # 0, job.newer < MaxBackups, NEW s \in Sessions
      PROVE  CopiedLines(<<Mine>>, s) \subseteq CopiedLines(backups', s)
  <2>1. /\ backups \in Seq(Copies) /\ job.dir \in 1 .. Len(backups) /\ Mine = backups[job.dir]
        /\ Len(backups) \in Nat
    BY <1>1 DEF TypeOK, Placed, Mine
  <2>2. ASSUME NEW dirs \in Seq(Copies), NEW i \in 1 .. Len(dirs), dirs[i] = Mine
        PROVE  CopiedLines(<<Mine>>, s) \subseteq CopiedLines(dirs, s)
    <3>1. SUFFICES ASSUME NEW x \in CopiedLines(<<Mine>>, s) PROVE x \in CopiedLines(dirs, s)
      OBVIOUS
    <3>2. PICK j \in 1 .. Len(<<Mine>>) : <<Mine>>[j][s] # Absent /\ x \in <<Mine>>[j][s]
      BY <3>1, CopiedLine
    <3>3. dirs[i][s] # Absent /\ x \in dirs[i][s]
      BY <2>2, <3>2
    <3> QED
      BY <3>3, CopiedLine
  <2>3. CopiedLines(<<Mine>>, s) \subseteq CopiedLines(backups, s)
    BY <2>1, <2>2
  <2>5. CASE Prune \/ MoveLegacy \/ PruneMigrated
    <3>1. /\ backups' \in Seq(Copies)
          /\ \E i \in 1 .. Len(backups') : backups'[i] = backups[job.dir]
      BY <1>1, <2>5, Ended, MovedIn
    <3> QED
      BY <2>1, <2>2, <3>1
  <2>6. ASSUME NEW t \in Sessions, CopyRollout(t), CopyInto(t)
        PROVE  CopiedLines(<<Mine>>, s) \subseteq CopiedLines(backups', s)
    <3>1. Mine[t] = Absent /\ rollout[t] \in Rollout
      BY <1>1, <2>6 DEF CopyRollout, Underway, Copying, TypeOK
    <3>2. CopiedLines(backups, s) \subseteq CopiedLines(backups', s)
      BY <1>1, <2>6, <3>1, CopyMade
    <3> QED
      BY <2>3, <3>2
  <2>7. ASSUME NEW step, NEW locals \in Job, WriteInto(step, locals, Mine)
        PROVE  CopiedLines(<<Mine>>, s) \subseteq CopiedLines(backups', s)
    BY <1>1, <2>3, <2>7, MineTyped, Written
  <2>8. CASE BackupRows \/ ReadIndex
    <3>1. PICK step \in {"rows", "index", "append", "prune"},
               locals \in {job, Warned(job), [job EXCEPT !.seen = index]} :
            MayWriteInto(step, locals)
      BY <2>8, BackupSteps
    <3>2. locals \in Job
      BY <1>1 DEF Warned, Job, TypeOK
    <3> QED
      BY <2>3, <2>7, <3>1, <3>2 DEF MayWriteInto
  <2>9. CASE backups' = backups
    BY <2>3, <2>9
  <2>10. pc # "idle" /\ pc # "mkdir"
    BY <1>1 DEF Placed, Working, HistorySteps
  <2>11. \/ backups' = backups
         \/ Prune \/ MoveLegacy \/ PruneMigrated \/ BackupRows \/ ReadIndex
         \/ \E t \in Sessions : CopyRollout(t) /\ CopyInto(t)
    BY <1>1, <2>10 DEF Next, History, IndexRepair, Codex, StartHistory, Start, ReadRollout,
       CollectFails, Plan, MakeDir, CopyRollout, ReplaceRollout, UpdateRows, AppendIndex,
       PruneRequest, StartIndexRepair, PrepareRecord, CommitRow, CompleteRecord, Crash, CodexStart,
       CodexResume, CodexAppend, CodexRow, CodexIndex
  <2> QED
    BY <2>5, <2>6, <2>8, <2>9, <2>11
<1>2. TypeOK /\ Underway /\ Placed /\ [Next]_vars =>
        [\A s \in Sessions :
           pc \in HistorySteps /\ job.dir # 0 /\ job.newer < MaxBackups =>
             CopiedLines(<<Mine>>, s) \subseteq CopiedLines(backups', s)]_vars
  BY <1>1
<1> QED
  BY InitTyped, TypedStep, <1>2, PTL DEF Spec, RunningBackupKept

-----------------------------------------------------------------------------
\* The audit record of an index repair under way, and what it has read.
Indexing == {"prepare", "commit", "complete"}

RecordInv ==
  /\ RecordIsTrue
  /\ pc \in Indexing =>
       /\ job.previous # OpenAI
       /\ job.cur \notin touched /\ pc # "complete" => row[job.cur] = job.previous
  /\ pc = "prepare" => record = Absent /\ replaced = None
  /\ pc = "commit" =>
       record.status = "prepared" /\ record.previous = job.previous /\ replaced = None
  /\ pc = "complete" =>
       /\ record.status = "prepared" /\ record.previous = job.previous
       /\ replaced \in {Absent, job.previous}

LEMMA RecordStep ==
  ASSUME TypeOK, Underway, Placed, RecordInv, [Next]_vars
  PROVE  RecordInv'
<1> USE DEF GoTo, End, Start, codexFiles, codexState, running, audit, Indexing
<1>0. /\ None # Absent /\ None \notin Providers /\ Absent \notin Providers /\ Absent \notin Record
  BY ProviderAssumption, NullAssumption
<1>1. CASE /\ record' = record /\ replaced' = replaced /\ pc' \notin Indexing
           /\ record = Absent \/ result' \in {"none", "err", result}
  BY <1>1 DEF RecordInv, RecordIsTrue
<1>2. CASE /\ record' = record /\ replaced' = replaced /\ pc' = pc /\ job' = job
           /\ result' = result
           /\ pc \in Indexing /\ job.cur \notin touched' =>
                job.cur \notin touched /\ row'[job.cur] = row[job.cur]
  BY <1>2 DEF RecordInv, RecordIsTrue
<1>3. ASSUME NEW p \in Providers, StartHistory(p) PROVE RecordInv'
  BY <1>0, <1>3 DEF StartHistory, RecordInv, RecordIsTrue
<1>4. ASSUME NEW s \in Sessions, StartIndexRepair(s) PROVE RecordInv'
  <2>1. job'.cur = s /\ job'.previous = row[s]
    BY <1>4 DEF StartIndexRepair, Idle
  <2> QED
    BY <1>0, <1>4, <2>1 DEF StartIndexRepair, RecordInv, RecordIsTrue
<1>5. CASE PrepareRecord
  <2>1. /\ pc = "prepare" /\ result = "none" /\ replaced' = replaced /\ replaced = None
        /\ record = Absent /\ row' = row
    BY <1>5 DEF PrepareRecord, Underway, RecordInv
  <2>2. \/ /\ record' = [session |-> job.cur, status |-> "prepared", previous |-> job.previous]
           /\ GoTo("commit", job) \/ End("err")
        \/ record' = record /\ End("err")
    BY <1>5 DEF PrepareRecord
  <2> QED
    BY <2>1, <2>2 DEF RecordInv, RecordIsTrue
<1>6. CASE CommitRow
  <2>1. /\ record \in Record /\ record' = record /\ pc = "commit"
        /\ job.cur \in Sessions /\ job.previous \in Providers /\ result = "none"
    BY <1>6 DEF CommitRow, Underway
  <2>2. CASE replaced' = Overwritten(job.cur) /\ GoTo("complete", job)
    <3>1. replaced' \in {Absent, job.previous}
      BY <2>1, <2>2 DEF Overwritten, RecordInv
    <3> QED
      BY <1>0, <2>1, <2>2, <3>1 DEF RecordInv, RecordIsTrue
  <2>3. CASE UNCHANGED replaced /\ End("err")
    BY <2>1, <2>3 DEF RecordInv, RecordIsTrue
  <2> QED
    BY <1>6, <2>2, <2>3 DEF CommitRow
<1>r. ASSUME pc = "complete"
      PROVE  /\ record \in Record /\ record.previous = job.previous /\ replaced # None
             /\ replaced # Absent => replaced # OpenAI /\ replaced = job.previous
             /\ \A status \in {"completed", "torn"} :
                  LET ended == [record EXCEPT !.status = status] IN
                  ended \in Record /\ ended.previous = record.previous /\ ended.status = status
  BY <1>0, <1>r DEF Underway, RecordInv, Record
<1>7. CASE CompleteRecord
  <2>1. pc = "complete" /\ replaced' = replaced /\ pc' = "idle"
    BY <1>7 DEF CompleteRecord
  <2>2. \/ record' = [record EXCEPT !.status = "completed"]
        \/ record' \in {record, [record EXCEPT !.status = "torn"]} /\ result' = "err"
    BY <1>7 DEF CompleteRecord, RecordTorn
  <2> QED
    BY <1>0, <1>r, <2>1, <2>2 DEF RecordInv, RecordIsTrue
<1>8. ASSUME NEW s \in Sessions, NEW p \in Providers, CodexStart(s, p) \/ CodexRow(s, p)
      PROVE  RecordInv'
  <2>1. /\ record' = record /\ replaced' = replaced /\ pc' = pc /\ job' = job
        /\ result' = result
        /\ pc # "idle" => touched' = touched \cup {s}
        /\ \A t \in Sessions : t # s => row'[t] = row[t]
    BY <1>8 DEF CodexStart, CodexRow, Touch, TypeOK
  <2>2. pc \in Indexing => job.cur \in Sessions
    BY DEF Underway
  <2> QED
    BY <1>2, <2>1, <2>2
<1>9. ASSUME NEW s \in Sessions, CodexIndex(s) PROVE RecordInv'
  <2>1. /\ record' = record /\ replaced' = replaced /\ pc' = pc /\ job' = job /\ row' = row
        /\ result' = result
        /\ pc # "idle" => touched \subseteq touched'
    BY <1>9 DEF CodexIndex, Touch
  <2> QED
    BY <1>2, <2>1
<1>11. CASE Crash
  <2>1. CASE record' = record
    BY <1>1, <1>11, <2>1 DEF Crash
  <2>2. CASE pc = "complete" /\ RecordTorn
    BY <1>0, <1>r, <1>11, <2>2 DEF Crash, RecordTorn, RecordInv, RecordIsTrue
  <2> QED
    BY <1>11, <2>1, <2>2 DEF Crash
<1>10. CASE UNCHANGED vars \/ \E s \in Sessions : CodexResume(s) \/ CodexAppend(s)
  BY <1>2, <1>10 DEF vars, CodexResume, CodexAppend
<1>12. CASE History /\ \A p \in Providers : ~StartHistory(p)
  <2>1. CASE PruneRequest
    BY <1>1, <2>1 DEF PruneRequest, Underway, HistorySteps
  <2>2. CASE MoveLegacy \/ PruneMigrated
    <3>1. /\ SameWork(job', job) /\ (job.dir = 0 => job' = job)
          /\ UNCHANGED <<codexFiles, audit, pc, result, touched, writer, written>>
      BY <2>2, MovedIn
    <3>2. pc \in Indexing => job.dir = 0
      BY DEF Placed, Working
    <3>3. CASE pc \in Indexing
      BY <1>2, <3>1, <3>2, <3>3
    <3>4. CASE pc \notin Indexing
      BY <1>1, <3>1, <3>4
    <3> QED
      BY <3>3, <3>4
  <2>3. ASSUME History, ~PruneRequest, ~MoveLegacy, ~PruneMigrated
        PROVE  /\ pc \in HistorySteps /\ record' = record /\ replaced' = replaced
               /\ pc' \notin Indexing
    <3>1. CASE BackupRows \/ ReadIndex
      <4>1. PICK step \in {"rows", "index", "append", "prune"},
                 locals \in {job, Warned(job), [job EXCEPT !.seen = index]} :
              MayWriteInto(step, locals)
        BY <3>1, BackupSteps
      <4>2. pc' = step
        BY <4>1 DEF MayWriteInto, WriteInto
      <4> QED
        BY <3>1, <4>2 DEF BackupRows, ReadIndex, HistorySteps
    <3>2. ASSUME NEW s \in Sessions, CopyRollout(s)
          PROVE  pc \in HistorySteps /\ record' = record /\ replaced' = replaced /\ pc' \notin Indexing
      BY <3>2 DEF CopyRollout, CopyInto, WriteInto, HistorySteps
    <3>3. CASE MakeDir
      BY <3>3 DEF MakeDir, WriteInto, HistorySteps
    <3> QED
      BY <1>12, <2>3, <3>1, <3>2, <3>3 DEF History, ReadRollout, CollectFails, Plan, ReplaceRollout,
         UpdateRows, AppendIndex, Prune, HistorySteps
  <2>4. pc \in HistorySteps => record = Absent
    BY DEF Underway
  <2> QED
    BY <1>1, <1>12, <2>1, <2>2, <2>3, <2>4
<1>13. History \/ IndexRepair \/ Codex \/ Crash \/ UNCHANGED vars
  BY DEF Next
<1> QED
  BY <1>3, <1>4, <1>5, <1>6, <1>7, <1>8, <1>9, <1>10, <1>11, <1>12, <1>13 DEF IndexRepair, Codex

\* A completed audit record stands for a changed row, success for a completed record, and a
\* changed row for a record, wherever the repair ends.  The provider the record names is
\* the one that was read, which is the replaced one unless Codex has written in between.
THEOREM RecordsStandForRepairs == Spec => []RecordIsTrue
<1>1. Init => RecordInv
  BY DEF Init, RecordInv, RecordIsTrue, Indexing
<1>2. RecordInv => RecordIsTrue
  BY DEF RecordInv
<1> QED
  BY InitTyped, TypedStep, RecordStep, <1>1, <1>2, PTL DEF Spec

-----------------------------------------------------------------------------
\* As long as a repair has nothing to warn of, a session Codex has not written is aligned
\* in every place the repair is done with, and on its list for the others.
RolloutCovered(s) ==
  rollout[s] # Absent => \/ rollout[s].provider = job.target
                         \/ s \in job.todo
                         \/ job.updates[s] # Absent
RowCovered(s) ==
  /\ \/ row[s] \in {Absent, job.target}
     \/ pc \in {"collect", "rows"}
     \/ pc \in {"mkdir"} \cup Copying /\ job.rows = TRUE
  /\ row[s] # Absent => \/ pc = "collect"
                        \/ s \in index
                        \/ pc # "prune" /\ s \in job.missing
  /\ pc = "append" /\ s \in index => s \in job.seen

AlignInv ==
  pc \in HistorySteps /\ ~job.warned =>
    \A s \in Sessions \ touched : RolloutCovered(s) /\ RowCovered(s)

Aligned ==
  \A s \in Sessions :
    pc \in HistorySteps /\ result' = "ok" /\ s \notin touched =>
      /\ rollout[s] # Absent => rollout[s].provider = job.target
      /\ row[s] # Absent => row[s] = job.target /\ s \in index

LEMMA HistoryAligns ==
  ASSUME TypeOK, Underway, Placed, AlignInv, History
  PROVE  AlignInv' /\ Aligned
<1> USE DEF GoTo, End, codexFiles, codexState, running, audit, HistorySteps, Copying
<1>f. job \in Job /\ \A s \in Sessions : rollout[s] # Absent => rollout[s] \in Rollout
  BY DEF TypeOK
<1>1. ASSUME NEW p \in Providers, StartHistory(p) PROVE AlignInv' /\ Aligned
  <2>1. job'.todo = {s \in Sessions : rollout[s] # Absent} /\ result' = "none"
    BY <1>1 DEF StartHistory, Start, Idle
  <2>2. pc = "idle" /\ pc' = "collect" /\ rollout' = rollout
    BY <1>1 DEF StartHistory, Start
  <2>3. \A s \in Sessions : RolloutCovered(s)' /\ RowCovered(s)'
    BY <2>1, <2>2 DEF RolloutCovered, RowCovered
  <2> QED
    BY <2>2, <2>3 DEF AlignInv, Aligned
<1>2. ASSUME NEW t \in Sessions, ReadRollout(t) PROVE AlignInv' /\ Aligned
  <2>1. /\ job'.target = job.target /\ job'.warned = job.warned /\ job'.todo = job.todo \ {t}
        /\ \A s \in Sessions : s # t => job'.updates[s] = job.updates[s]
        /\ job'.updates[t] = IF rollout[t].provider = job.target THEN Absent ELSE rollout[t].lines
    BY <1>2, <1>f DEF ReadRollout, Job, Copies
  <2>2. rollout[t].lines # Absent
    BY <1>2, <1>f, NullAssumption DEF ReadRollout, Underway, Rollout
  <2> QED
    BY <1>2, <2>1, <2>2, <1>f
    DEF ReadRollout, Underway, AlignInv, Aligned, RolloutCovered, RowCovered
<1>3. CASE CollectFails
  <2>1. job'.warned
    BY <1>3, <1>f DEF CollectFails, Warned, Job
  <2> QED
    BY <1>3, <2>1 DEF CollectFails, Underway, AlignInv, Aligned
<1>4. CASE Plan
  <2> DEFINE rows == \E s \in Sessions : row[s] \notin {Absent, job.target}
             missing == {s \in Sessions : row[s] # Absent} \ index
             full == [job EXCEPT !.rows = rows, !.missing = missing]
  <2>1. PICK planned \in {full, Warned(job)} :
          IF NeedsBackup(planned) THEN GoTo("mkdir", planned) ELSE End(Report(planned))
    BY <1>4 DEF Plan
  <2>2. Warned(job).warned /\ (full.warned = job.warned) /\ (rows => full.rows = TRUE) /\ full.missing = missing
        /\ full.updates = job.updates /\ full.target = job.target /\ full.todo = job.todo
    BY <1>f DEF Warned, Job
  <2>3. /\ pc = "collect" /\ job.todo = {} /\ rollout' = rollout /\ row' = row /\ index' = index
        /\ result = "none"
    BY <1>4 DEF Plan, Underway
  <2> HIDE DEF full
  <2>4. CASE NeedsBackup(planned) /\ GoTo("mkdir", planned)
    <3>1. Aligned
      BY <2>3, <2>4 DEF Aligned
    <3>2. ASSUME ~planned.warned, NEW s \in Sessions \ touched
          PROVE  RolloutCovered(s)' /\ RowCovered(s)'
      <4>1. planned = full /\ ~job.warned
        BY <2>1, <2>2, <3>2
      <4>2. RolloutCovered(s)
        BY <2>3, <3>2, <4>1 DEF AlignInv
      <4>3. RolloutCovered(s)'
        BY <2>2, <2>3, <2>4, <4>1, <4>2 DEF RolloutCovered
      <4>4. /\ row[s] \in {Absent, job.target} \/ rows
            /\ row[s] # Absent => s \in index \/ s \in missing
        OBVIOUS
      <4>5. /\ pc' = "mkdir" /\ row' = row /\ index' = index /\ job'.target = job.target
            /\ rows => job'.rows = TRUE
            /\ job'.missing = missing
        BY <2>2, <2>3, <2>4, <4>1
      <4> HIDE DEF rows, missing
      <4>6. RowCovered(s)'
        BY <4>4, <4>5 DEF RowCovered
      <4> QED
        BY <4>3, <4>6
    <3> QED
      BY <2>4, <3>1, <3>2 DEF AlignInv
  <2>5. CASE ~NeedsBackup(planned) /\ End(Report(planned))
    <3>1. AlignInv'
      BY <2>5 DEF AlignInv
    <3>2. ASSUME result' = "ok", NEW s \in Sessions, s \notin touched
          PROVE  /\ rollout[s] # Absent => rollout[s].provider = job.target
                 /\ row[s] # Absent => row[s] = job.target /\ s \in index
      <4>1. ~planned.warned
        BY <2>5, <3>2 DEF Report
      <4>2. planned = full /\ ~job.warned
        BY <2>1, <2>2, <4>1
      <4>3. job.updates = NoCopies /\ ~rows /\ missing = {}
        BY <2>2, <2>5, <4>2 DEF NeedsBackup
      <4>4. RolloutCovered(s)
        BY <2>3, <3>2, <4>2 DEF AlignInv
      <4>5. rollout[s] # Absent => rollout[s].provider = job.target
        BY <2>3, <4>3, <4>4 DEF RolloutCovered, NoCopies
      <4>6. row[s] # Absent => row[s] = job.target /\ s \in index
        BY <4>3
      <4> QED
        BY <4>5, <4>6
    <3> QED
      BY <3>1, <3>2 DEF Aligned
  <2> QED
    BY <2>1, <2>4, <2>5
<1>5. CASE MakeDir
  <2>1. CASE WriteInto("rollouts", job, NoCopies)
    <3>1. /\ \A s \in Sessions : Mine[s] # Absent => NoCopies[s] = Mine[s]
          /\ NoCopies \in Copies
      BY <1>5 DEF MakeDir, Placed, Working, Mine, NoCopies, Copies
    <3>2. pc' = "rollouts" /\ SameWork(job', job) /\ UNCHANGED <<result, touched>>
      BY <1>f, <2>1, <3>1, Written
    <3> QED
      BY <1>5, <3>2 DEF MakeDir, Underway, AlignInv, Aligned, RolloutCovered, RowCovered, SameWork
  <2>2. CASE End("warnings")
    BY <1>5, <2>2 DEF MakeDir, AlignInv, Aligned
  <2> QED
    BY <1>5, <2>1, <2>2 DEF MakeDir
<1>6. ASSUME NEW t \in Sessions, CopyRollout(t) PROVE AlignInv' /\ Aligned
  <2>1. CASE CopyInto(t)
    <3>1. Mine[t] = Absent /\ rollout[t] \in Rollout
      BY <1>6, <1>f DEF CopyRollout, Underway
    <3>2. /\ pc' = "replace" /\ SameWork(job', [job EXCEPT !.cur = t])
          /\ UNCHANGED <<result, touched>>
      BY <2>1, <3>1, CopyMade
    <3>3. /\ job'.target = job.target /\ job'.warned = job.warned /\ job'.todo = job.todo
          /\ job'.updates = job.updates /\ job'.rows = job.rows /\ job'.missing = job.missing
      BY <1>f, <3>2 DEF Job, SameWork
    <3> QED
      BY <1>6, <3>2, <3>3
      DEF CopyRollout, Underway, AlignInv, Aligned, RolloutCovered, RowCovered
  <2>2. CASE GoTo("rollouts", Warned([job EXCEPT !.updates[t] = Absent]))
    <3>1. job'.warned
      BY <2>2, <1>f DEF Warned, Job
    <3> QED
      BY <1>6, <2>2, <3>1 DEF CopyRollout, Underway, AlignInv, Aligned
  <2> QED
    BY <1>6, <2>1, <2>2 DEF CopyRollout
<1>7. CASE ReplaceRollout
  <2> DEFINE done == [job EXCEPT !.updates[job.cur] = Absent, !.cur = None]
  <2>1. /\ done.target = job.target /\ done.warned = job.warned /\ done.todo = job.todo
        /\ done.rows = job.rows /\ done.missing = job.missing /\ Warned(done).warned
        /\ \A s \in Sessions : s # job.cur => done.updates[s] = job.updates[s]
    BY <1>f DEF Warned, Job, Copies
  <2>2. /\ pc = "replace" /\ pc' = "rollouts" /\ row' = row /\ index' = index
        /\ touched' = touched /\ result' = "none" /\ job.cur \in Sessions
    BY <1>7 DEF ReplaceRollout, Underway
  <2>3. \/ job' = Warned(done)
        \/ /\ job' = done
           /\ rollout' = [rollout EXCEPT ![job.cur] =
                [provider |-> job.target, lines |-> job.updates[job.cur]]]
    BY <1>7 DEF ReplaceRollout
  <2> HIDE DEF done
  <2>4. CASE job' = Warned(done)
    BY <2>1, <2>2, <2>4 DEF AlignInv, Aligned
  <2>5. CASE job' = done /\ rollout' = [rollout EXCEPT ![job.cur] =
               [provider |-> job.target, lines |-> job.updates[job.cur]]]
    <3>1. /\ \A s \in Sessions : s # job.cur => rollout'[s] = rollout[s]
          /\ rollout'[job.cur].provider = job.target
      BY <2>2, <2>5 DEF TypeOK
    <3>2. ASSUME ~job.warned, NEW s \in Sessions \ touched
          PROVE  RolloutCovered(s)' /\ RowCovered(s)'
      <4>1. RolloutCovered(s) /\ RowCovered(s)
        BY <2>2, <3>2 DEF AlignInv
      <4> QED
        BY <2>1, <2>2, <2>5, <3>1, <4>1 DEF RolloutCovered, RowCovered
    <3> QED
      BY <2>1, <2>2, <2>5, <3>2 DEF AlignInv, Aligned
  <2> QED
    BY <2>3, <2>4, <2>5
<1>w. ASSUME NEW step, NEW locals \in Job, MayWriteInto(step, locals)
      PROVE  pc' = step /\ SameWork(job', locals) /\ UNCHANGED <<result, touched>>
  <2>1. CASE WriteInto(step, locals, Mine)
    BY <1>w, <2>1, MineTyped, Written
  <2>2. CASE GoTo(step, locals)
    BY <2>2 DEF SameWork
  <2> QED
    BY <1>w, <2>1, <2>2 DEF MayWriteInto
<1>v. Warned(job) \in Job /\ Warned(job).warned
  BY <1>f DEF Warned, Job
<1>8. CASE BackupRows
  <2>1. /\ pc = "rollouts" /\ job.updates = NoCopies
        /\ rollout' = rollout /\ row' = row /\ index' = index
    BY <1>8 DEF BackupRows
  <2>2. CASE MayWriteInto("index", Warned(job))
    <3>1. pc' = "index" /\ job'.warned = TRUE /\ result' = result
      BY <1>v, <1>w, <2>2 DEF SameWork, Job
    <3> QED
      BY <2>1, <3>1 DEF Underway, AlignInv, Aligned
  <2>3. CASE job.rows /\ WriteInto("rows", job, Mine)
    <3>1. pc' = "rows" /\ SameWork(job', job) /\ UNCHANGED <<result, touched>>
      BY <1>f, <1>w, <2>3 DEF MayWriteInto
    <3> QED
      BY <2>1, <3>1 DEF Underway, AlignInv, Aligned, RolloutCovered, RowCovered, SameWork
  <2>4. CASE ~job.rows /\ GoTo("index", job)
    BY <2>1, <2>4 DEF Underway, AlignInv, Aligned, RolloutCovered, RowCovered
  <2> QED
    BY <1>8, <2>2, <2>3, <2>4 DEF BackupRows
<1>9. CASE UpdateRows
  <2>1. Warned(job).warned
    BY <1>f DEF Warned, Job
  <2>2. CASE /\ row' = [s \in Sessions |-> IF row[s] = Absent THEN Absent ELSE job.target]
             /\ GoTo("index", job)
    BY <1>9, <2>2 DEF UpdateRows, Underway, AlignInv, Aligned, RolloutCovered, RowCovered
  <2>3. CASE GoTo("index", Warned(job))
    BY <1>9, <2>1, <2>3 DEF UpdateRows, Underway, AlignInv, Aligned
  <2> QED
    BY <1>9, <2>2, <2>3 DEF UpdateRows
<1>10. CASE ReadIndex
  <2>1. pc = "index" /\ rollout' = rollout /\ row' = row /\ index' = index
    BY <1>10 DEF ReadIndex
  <2>2. CASE MayWriteInto("prune", Warned(job))
    <3>1. pc' = "prune" /\ job'.warned = TRUE /\ result' = result
      BY <1>v, <1>w, <2>2 DEF SameWork, Job
    <3> QED
      BY <2>1, <3>1 DEF Underway, AlignInv, Aligned
  <2>3. CASE MayWriteInto("append", [job EXCEPT !.seen = index])
    <3> DEFINE read == [job EXCEPT !.seen = index]
    <3>1. /\ read \in Job /\ read.target = job.target /\ read.warned = job.warned
          /\ read.todo = job.todo /\ read.updates = job.updates /\ read.missing = job.missing
          /\ read.seen = index
      BY <1>f DEF Job, TypeOK
    <3> HIDE DEF read
    <3>2. pc' = "append" /\ SameWork(job', read) /\ UNCHANGED <<result, touched>>
      BY <1>w, <2>3, <3>1 DEF read
    <3> QED
      BY <2>1, <3>1, <3>2
      DEF Underway, AlignInv, Aligned, RolloutCovered, RowCovered, SameWork
  <2>4. CASE job.missing = {} /\ GoTo("prune", job)
    BY <2>1, <2>4 DEF Underway, AlignInv, Aligned, RolloutCovered, RowCovered
  <2> QED
    BY <1>10, <2>2, <2>3, <2>4 DEF ReadIndex
<1>11. CASE AppendIndex
  <2>1. Warned(job).warned
    BY <1>f DEF Warned, Job
  <2> QED
    BY <1>11, <2>1 DEF AppendIndex, Underway, AlignInv, Aligned, RolloutCovered, RowCovered
<1>12. CASE Prune
  <2>1. pc = "prune" /\ pc' = "idle" /\ (result' = "ok" => ~job.warned)
    BY <1>12 DEF Prune, Report
  <2>2. ASSUME result' = "ok", NEW s \in Sessions \ touched
        PROVE  /\ rollout[s] # Absent => rollout[s].provider = job.target
               /\ row[s] # Absent => row[s] = job.target /\ s \in index
    <3>1. RolloutCovered(s) /\ RowCovered(s)
      BY <2>1, <2>2 DEF AlignInv
    <3>2. s \notin job.todo /\ job.updates[s] = Absent
      BY <2>1 DEF Underway
    <3> QED
      BY <2>1, <3>1, <3>2 DEF RolloutCovered, RowCovered
  <2> QED
    BY <2>1, <2>2 DEF AlignInv, Aligned
<1>13. CASE PruneRequest
  BY <1>13 DEF PruneRequest, AlignInv, Aligned
<1>14. CASE MoveLegacy \/ PruneMigrated
  <2>1. /\ SameWork(job', job)
        /\ UNCHANGED <<codexFiles, audit, pc, result, touched, writer, written>>
    BY <1>14, MovedIn
  <2> QED
    BY <2>1 DEF Underway, AlignInv, Aligned, RolloutCovered, RowCovered, SameWork
<1> QED
  BY <1>1, <1>2, <1>3, <1>4, <1>5, <1>6, <1>7, <1>8, <1>9, <1>10, <1>11, <1>12, <1>13, <1>14
  DEF History

LEMMA OtherAligns ==
  ASSUME TypeOK, Underway, Placed, AlignInv, IndexRepair \/ Codex \/ Crash \/ UNCHANGED vars
  PROVE  AlignInv' /\ Aligned
<1> USE DEF GoTo, End, Start, codexFiles, codexState, running, audit, HistorySteps
<1>1. CASE pc' \notin HistorySteps /\ (pc \in HistorySteps => result' = "none")
  BY <1>1 DEF AlignInv, Aligned
<1>2. CASE /\ pc' = pc /\ job' = job /\ pc \in HistorySteps /\ result' = result
           /\ touched \subseteq touched'
           /\ \A s \in Sessions \ touched' :
                /\ \/ rollout'[s] = rollout[s]
                   \/ rollout[s] # Absent /\ rollout'[s].provider = rollout[s].provider
                /\ row'[s] = row[s] /\ (s \in index' <=> s \in index)
  BY <1>2 DEF Underway, AlignInv, Aligned, RolloutCovered, RowCovered
<1>3. CASE IndexRepair \/ Crash
  BY <1>1, <1>3 DEF IndexRepair, StartIndexRepair, PrepareRecord, CommitRow, CompleteRecord, Crash
<1>4. CASE (Codex \/ UNCHANGED vars) /\ pc \in HistorySteps
  <2>1. ASSUME NEW s \in Sessions, NEW p \in Providers, CodexStart(s, p) \/ CodexRow(s, p)
        PROVE  AlignInv' /\ Aligned
    BY <1>2, <1>4, <2>1 DEF CodexStart, CodexRow, Touch, TypeOK
  <2>2. ASSUME NEW s \in Sessions, CodexResume(s) \/ CodexIndex(s)
        PROVE  AlignInv' /\ Aligned
    BY <1>2, <1>4, <2>2 DEF CodexResume, CodexIndex, Touch
  <2>3. ASSUME NEW s \in Sessions, CodexAppend(s)
        PROVE  AlignInv' /\ Aligned
    <3> DEFINE line == Cardinality(UNION {written[t] : t \in Sessions}) + 1
    <3> HIDE DEF line
    <3>1. /\ rollout' = rollout \/ rollout' = [rollout EXCEPT ![s].lines = @ \cup {line}]
          /\ rollout[s] \in Rollout /\ rollout[s] # Absent
          /\ row' = row /\ index' = index /\ pc' = pc /\ job' = job /\ result' = result
          /\ touched' = touched
      BY <2>3 DEF CodexAppend, line, Underway, TypeOK
    <3>2. \A t \in Sessions :
            \/ rollout'[t] = rollout[t]
            \/ rollout[t] # Absent /\ rollout'[t].provider = rollout[t].provider
      BY <3>1 DEF TypeOK, Rollout
    <3> QED
      BY <1>2, <1>4, <3>1, <3>2
  <2>4. CASE UNCHANGED vars
    BY <1>2, <1>4, <2>4 DEF vars
  <2> QED
    BY <1>4, <2>1, <2>2, <2>3, <2>4 DEF Codex
<1>5. CASE (Codex \/ UNCHANGED vars) /\ pc \notin HistorySteps
  BY <1>1, <1>5 DEF Codex, CodexStart, CodexResume, CodexAppend, CodexRow, CodexIndex, vars
<1> QED
  BY <1>3, <1>4, <1>5

\* A history repair that reports no warning has aligned all it had to, for any number of
\* sessions.
THEOREM RepairIsComplete == Spec => RepairAligns
<1>1. Init => AlignInv
  BY DEF Init, AlignInv, HistorySteps
<1>2. TypeOK /\ Underway /\ Placed /\ AlignInv /\ [Next]_vars =>
        AlignInv' /\ [\A s \in Sessions :
          pc \in HistorySteps /\ result' = "ok" /\ s \notin touched =>
            /\ rollout[s] # Absent => rollout[s].provider = job.target
            /\ row[s] # Absent => row[s] = job.target /\ s \in index]_vars
  BY HistoryAligns, OtherAligns DEF Next, Aligned
<1> QED
  BY InitTyped, TypedStep, <1>1, <1>2, PTL DEF Spec, RepairAligns
=============================================================================
