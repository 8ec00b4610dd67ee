------------------------------- MODULE History -------------------------------
(***************************************************************************)
(* Repairing what Codex remembers of its sessions: codexProfile's history  *)
(* repair (crates/service/src/codex_profile.rs) and the repair of one      *)
(* session's provider index (crates/service/src/session_catalog.rs).       *)
(*                                                                         *)
(* A session has a rollout file, a row of state_5.sqlite and an entry of   *)
(* session_index.jsonl.  The history repair moves all of them to one       *)
(* provider: it reads the rollouts, plans, makes a backup directory,       *)
(* copies and replaces each rollout, updates the rows, adds entries and    *)
(* prunes old directories; what fails is a warning and the rest goes on.   *)
(* The index repair moves one row, with a backup and an audit record.      *)
(* RPCs are served one at a time; Codex writes the same files meanwhile,   *)
(* and status requests of other threads move an earlier version's backup   *)
(* directories in among the new ones.                                      *)
(*                                                                         *)
(* A rollout is the provider its first line, session_meta, names and the   *)
(* set of later lines, numbered as Codex writes them; a backup directory   *)
(* is the lines copied.                                                    *)
(***************************************************************************)
EXTENDS Naturals, Sequences, FiniteSets

CONSTANTS
  Sessions,
  Providers,
  OpenAI,       \* DEFAULT_HISTORY_PROVIDER_ID, the target of the index repair
  MinBackups,   \* MIN_HISTORY_BACKUPS_PER_PROFILE
  MaxBackups,   \* MAX_HISTORY_BACKUPS_PER_PROFILE
  MaxDirs,      \* bound: backup directories there can be while pruning fails
  MaxLegacy,    \* bound: directories an earlier version left
  MaxLines,     \* bound: lines Codex writes
  None, Absent

Lines == 1 .. MaxLines
Provider == Providers \cup {None}
Rollout == [provider: Provider, lines: SUBSET Lines]
Copies == [Sessions -> {Absent} \cup SUBSET Lines]
Record == [session: Sessions, status: {"prepared", "completed", "torn"}, previous: Providers]

ASSUME ProviderAssumption == OpenAI \in Providers /\ {None, Absent} \cap Providers = {}
ASSUME RetentionAssumption ==
  /\ MinBackups \in Nat \ {0} /\ MaxBackups \in Nat /\ MaxDirs \in Nat /\ MaxLegacy \in Nat
  /\ MaxLines \in Nat /\ MinBackups <= MaxBackups
ASSUME NullAssumption ==
  /\ None # Absent /\ None \notin Sessions \cup Nat /\ \A ls \in SUBSET Lines : Absent # ls
  /\ Absent \notin Rollout /\ Absent \notin Record

VARIABLES
  rollout,   \* session -> its file
  row,       \* threads.model_provider, which may be NULL
  index,     \* the sessions with an entry
  backups,   \* history backup directories, the one modified last first
  legacy,    \* how many are where an earlier version kept them; None: no such place
  record,    \* the audit record of the last repair, if it was an index repair
  pc, job,   \* the repair under way and its local variables
  result,    \* how the last one ended
  writer,    \* Codex's handle on each rollout
  written,   \* history: the lines Codex has written
  stray,     \* history: those written through a handle to a replaced file, or after
             \* the rollout was copied and before it was replaced, or that were in a
             \* directory that retention removed
  touched,   \* history: sessions Codex has written since the repair began
  replaced   \* history: the provider the index repair replaced, Absent when Codex has
             \* written the session since the repair read it

codexFiles == <<rollout, row, index>>
codexState == <<writer, written, stray>>
running == <<pc, job, result, touched>>
audit == <<record, replaced>>
vars == <<rollout, row, index, backups, legacy, record, pc, job, result,
          writer, written, stray, touched, replaced>>

HistorySteps == {"collect", "mkdir", "rollouts", "replace", "rows", "index", "append", "prune"}
Steps == {"idle", "prepare", "commit", "complete"} \cup HistorySteps

NoCopies == [s \in Sessions |-> Absent]

\* todo: rollouts not read yet; updates: what is to replace the others; rows, missing:
\* the SqliteRepairPlan; seen: the index as read; cur: the session at hand; dir: where
\* the repair's directory is among the backups, 0 when there is none; newer (history):
\* how many directories were put before it since it was made, counted to MaxBackups.
Idle == [target |-> None, todo |-> {}, updates |-> NoCopies, rows |-> FALSE, missing |-> {},
         seen |-> {}, cur |-> None, previous |-> None, dir |-> 0, newer |-> 0, warned |-> FALSE]
Job == [target: Provider, todo: SUBSET Sessions, updates: Copies, rows: BOOLEAN,
        missing: SUBSET Sessions, seen: SUBSET Sessions, cur: Sessions \cup {None},
        previous: Provider, dir: Nat, newer: 0 .. MaxBackups, warned: BOOLEAN]

Init ==
  /\ rollout \in [Sessions -> [provider: Provider, lines: {{}}] \cup {Absent}]
  /\ row \in [Sessions -> Provider \cup {Absent}]
  /\ index \in SUBSET Sessions
  /\ backups = <<>>
  /\ legacy \in {None} \cup 0 .. MaxLegacy
  /\ record = Absent
  /\ pc = "idle" /\ job = Idle /\ result = "none"
  /\ writer = [s \in Sessions |-> "none"]
  /\ written = [s \in Sessions |-> {}]
  /\ stray = [s \in Sessions |-> {}]
  /\ touched = {}
  /\ replaced = None

\* A repair begins, goes on, ends.
Start(step, locals) ==
  /\ pc = "idle" /\ pc' = step /\ job' = locals /\ result' = "none" /\ touched' = {}
  /\ record' = Absent /\ replaced' = None

GoTo(step, locals) == pc' = step /\ job' = locals /\ UNCHANGED <<result, touched>>
Warned(locals) == [locals EXCEPT !.warned = TRUE]
End(outcome) == pc' = "idle" /\ job' = Idle /\ result' = outcome /\ touched' = {}
Report(locals) == IF locals.warned THEN "warnings" ELSE "ok"

-----------------------------------------------------------------------------
\* repair_history_for_provider, asked for or after a switch to the gateway.  It begins with
\* ensure_managed_profile_migrated, whose warnings are the repair's.
StartHistory(target) ==
  /\ \E warned \in BOOLEAN :
       /\ legacy \in 1 .. MaxLegacy => warned
       /\ Start("collect", [Idle EXCEPT !.target = target, !.warned = warned,
                                        !.todo = {s \in Sessions : rollout[s] # Absent}])
  /\ UNCHANGED <<codexFiles, backups, legacy, codexState>>

\* collect_rollout_updates: files of the target provider need no update.
ReadRollout(s) ==
  /\ pc = "collect" /\ s \in job.todo
  /\ GoTo("collect", [job EXCEPT !.todo = @ \ {s},
       !.updates[s] = IF rollout[s].provider = job.target THEN Absent ELSE rollout[s].lines])
  /\ UNCHANGED <<codexFiles, backups, legacy, audit, codexState>>

\* One file that cannot be read, and no rollout is updated.
CollectFails ==
  /\ pc = "collect" /\ job.todo # {}
  /\ GoTo("collect", Warned([job EXCEPT !.todo = {}, !.updates = NoCopies]))
  /\ UNCHANGED <<codexFiles, backups, legacy, audit, codexState>>

\* Mutant of NeedsBackup: entries the index lacks do not count.
NeedsBackupForProviders(locals) ==
  locals.updates # NoCopies \/ locals.rows

NeedsBackup(locals) ==
  locals.updates # NoCopies \/ locals.rows \/ locals.missing # {}

\* inspect_sqlite_repair_plan, which may find the database locked.
Plan ==
  /\ pc = "collect" /\ job.todo = {}
  /\ \E planned \in
       {[job EXCEPT !.rows = \E s \in Sessions : row[s] \notin {Absent, job.target},
                    !.missing = {s \in Sessions : row[s] # Absent} \ index],
        Warned(job)} :
       IF NeedsBackup(planned) THEN GoTo("mkdir", planned) ELSE End(Report(planned))
  /\ UNCHANGED <<codexFiles, backups, legacy, audit, codexState>>

\* Of the directories dirs, the one at d -- a new one if d is 0 -- is modified last and
\* holds the copies.
Renewed(dirs, d, copies) ==
  [i \in 1 .. IF d = 0 THEN Len(dirs) + 1 ELSE Len(dirs) |->
     IF i = 1 THEN copies ELSE IF d = 0 \/ i <= d THEN dirs[i - 1] ELSE dirs[i]]

Mine == IF job.dir = 0 THEN NoCopies ELSE backups[job.dir]
InFront(locals) == [locals EXCEPT !.dir = 1, !.newer = 0]

\* The repair makes a file or folder in its directory, which is made again if it is gone.
WriteInto(step, locals, copies) ==
  /\ backups' = Renewed(backups, job.dir, copies)
  /\ GoTo(step, InFront(locals))

\* A copy that is not needed, or that fails, may leave the directory as it is.
MayWriteInto(step, locals) ==
  \/ WriteInto(step, locals, Mine)
  \/ UNCHANGED backups /\ GoTo(step, locals)

\* Without a backup directory nothing is repaired.
MakeDir ==
  /\ pc = "mkdir"
  /\ \/ /\ Len(backups) < MaxDirs
        /\ WriteInto("rollouts", job, NoCopies)
     \/ UNCHANGED backups /\ End("warnings")
  /\ UNCHANGED <<codexFiles, legacy, audit, codexState>>

\* A copy goes into a folder of the directory, which may be there already.
CopyInto(s) ==
  \/ WriteInto("replace", [job EXCEPT !.cur = s], [Mine EXCEPT ![s] = rollout[s].lines])
  \/ /\ job.dir # 0
     /\ backups' = [backups EXCEPT ![job.dir][s] = rollout[s].lines]
     /\ GoTo("replace", [job EXCEPT !.cur = s])

\* Mutant of CopyRollout: the rollout is replaced although its copy failed.
CopyRolloutOrNot(s) ==
  /\ pc = "rollouts" /\ job.updates[s] # Absent
  /\ \/ CopyInto(s)
     \/ UNCHANGED backups /\ GoTo("replace", Warned([job EXCEPT !.cur = s]))
  /\ UNCHANGED <<codexFiles, legacy, audit, codexState>>

CopyRollout(s) ==
  /\ pc = "rollouts" /\ job.updates[s] # Absent
  /\ \/ CopyInto(s)
     \/ UNCHANGED backups /\ GoTo("rollouts", Warned([job EXCEPT !.updates[s] = Absent]))
  /\ UNCHANGED <<codexFiles, legacy, audit, codexState>>

\* write_atomic puts a new file in the rollout's place; Codex's handle stays with the old
\* one.  It may fail before or after that.
ReplaceRollout ==
  LET s == job.cur
      done == [job EXCEPT !.updates[s] = Absent, !.cur = None]
  IN
  /\ pc = "replace"
  /\ \/ /\ rollout' = [rollout EXCEPT ![s] =
              [provider |-> job.target, lines |-> job.updates[s]]]
        /\ writer' = [writer EXCEPT ![s] = IF @ = "open" THEN "stale" ELSE @]
        /\ GoTo("rollouts", done) \/ GoTo("rollouts", Warned(done))
     \/ UNCHANGED <<rollout, writer>> /\ GoTo("rollouts", Warned(done))
  /\ UNCHANGED <<row, index, backups, legacy, audit, written, stray>>

\* When the rollouts are done, the database is copied if rows are to be updated.
BackupRows ==
  /\ pc = "rollouts" /\ job.updates = NoCopies
  /\ \/ job.rows /\ (WriteInto("rows", job, Mine) \/ MayWriteInto("index", Warned(job)))
     \/ ~job.rows /\ UNCHANGED backups /\ GoTo("index", job)
  /\ UNCHANGED <<codexFiles, legacy, audit, codexState>>

UpdateRows ==
  /\ pc = "rows"
  /\ \/ /\ row' = [s \in Sessions |-> IF row[s] = Absent THEN Absent ELSE job.target]
        /\ GoTo("index", job)
     \/ UNCHANGED row /\ GoTo("index", Warned(job))
  /\ UNCHANGED <<rollout, index, backups, legacy, audit, codexState>>

\* The index is copied, if there is one, and read again.
ReadIndex ==
  /\ pc = "index"
  /\ \/ job.missing = {} /\ UNCHANGED backups /\ GoTo("prune", job)
     \/ /\ job.missing # {}
        /\ \/ MayWriteInto("append", [job EXCEPT !.seen = index])
           \/ MayWriteInto("prune", Warned(job))
  /\ UNCHANGED <<codexFiles, legacy, audit, codexState>>

AppendIndex ==
  /\ pc = "append"
  /\ \/ /\ index' = job.seen \cup job.missing
        /\ GoTo("prune", job) \/ GoTo("prune", Warned(job))
     \/ UNCHANGED index /\ GoTo("prune", Warned(job))
  /\ UNCHANGED <<rollout, row, backups, legacy, audit, codexState>>

\* Mutant of Kept: the oldest directories are the ones that stay.
KeptOldest(dirs, n) == SubSeq(dirs, Len(dirs) - n + 1, Len(dirs))

\* The n newest directories.
Kept(dirs, n) == SubSeq(dirs, 1, n)

CopiedLines(dirs, s) ==
  UNION {dirs[i][s] : i \in {j \in 1 .. Len(dirs) : dirs[j][s] # Absent}}

\* prune_history_backups_for_profile: at least MinBackups stay, and up to MaxBackups, as
\* many as are young enough, which the running repair's at d and those before it are.
PruneDirs(dirs, d) ==
  \E n \in 0 .. Len(dirs) :
    /\ n = Len(dirs) \/ n >= MinBackups
    /\ n <= MaxBackups
    /\ d <= n \/ n = MaxBackups
    /\ backups' = Kept(dirs, n)
    /\ stray' = [s \in Sessions |->
         stray[s] \cup (CopiedLines(dirs, s) \ CopiedLines(backups', s))]

\* The manifest is written and old directories go, if they can: the warnings of single
\* removals are not the repair's.
Prune ==
  /\ pc = "prune"
  /\ \/ /\ \/ PruneDirs(Renewed(backups, job.dir, Mine), 1)
           \/ backups' = Renewed(backups, job.dir, Mine) /\ UNCHANGED stray
        /\ End(Report(job)) \/ End("warnings")
     \/ /\ PruneDirs(backups, job.dir) \/ UNCHANGED <<backups, stray>>
        /\ End("warnings")
  /\ UNCHANGED <<codexFiles, legacy, audit, writer, written>>

\* codexProfile/pruneHistoryBackups
PruneRequest ==
  /\ pc = "idle"
  /\ PruneDirs(backups, 0)
  /\ UNCHANGED <<codexFiles, legacy, audit, running, writer, written>>

\* ensure_managed_profile_migrated moves an earlier version's directories in, one by one,
\* also for a status request of another thread while a repair runs.  A rename leaves a
\* directory the oldest; where there has to be a copy instead, it is the newest, and the
\* original may be left.
MoveLegacy ==
  /\ legacy \in 1 .. MaxLegacy
  /\ Len(backups) < MaxDirs
  /\ \/ /\ backups' = Append(backups, NoCopies)
        /\ legacy' = legacy - 1
        /\ UNCHANGED job
     \/ /\ backups' = Renewed(backups, 0, NoCopies)
        /\ legacy' \in {legacy - 1, legacy}
        /\ job' = IF job.dir = 0 THEN job
                  ELSE [job EXCEPT !.dir = @ + 1, !.newer = IF @ < MaxBackups THEN @ + 1 ELSE @]
  /\ UNCHANGED <<codexFiles, audit, codexState, pc, result, touched>>

\* When all are moved their old place goes and the backups are pruned, by every call
\* that found it there.
PruneMigrated ==
  /\ legacy = 0
  /\ legacy' \in {0, None}
  /\ PruneDirs(backups, job.dir)
  /\ job' = [job EXCEPT !.dir = IF @ <= Len(backups') THEN @ ELSE 0]
  /\ UNCHANGED <<codexFiles, audit, pc, result, touched, writer, written>>

-----------------------------------------------------------------------------
\* Mutant of StartIndexRepair: a session without a row is not refused.
StartIndexRepairUnread(s) ==
  /\ row[s] \notin {None, OpenAI}
  /\ Start("prepare", [Idle EXCEPT !.cur = s, !.previous = row[s]])
  /\ UNCHANGED <<codexFiles, backups, legacy, codexState>>

\* repair_provider_index: a row that exists and names another provider.
StartIndexRepair(s) ==
  /\ row[s] \notin {Absent, None, OpenAI}
  /\ Start("prepare", [Idle EXCEPT !.cur = s, !.previous = row[s]])
  /\ UNCHANGED <<codexFiles, backups, legacy, codexState>>

\* The database is copied and the audit record written, or a part of it, which is as none.
PrepareRecord ==
  /\ pc = "prepare"
  /\ \/ /\ record' = [session |-> job.cur, status |-> "prepared", previous |-> job.previous]
        /\ GoTo("commit", job) \/ End("err")
     \/ UNCHANGED record /\ End("err")
  /\ UNCHANGED <<codexFiles, backups, legacy, codexState, replaced>>

\* What the statement replaces, as far as Codex has not written the session since.
Overwritten(s) == IF s \in touched THEN Absent ELSE row[s]

\* Mutant of CommitRow: no matter how many rows the statement has updated.
CommitAnyRows ==
  /\ pc = "commit"
  /\ row' = [row EXCEPT ![job.cur] = OpenAI]
  /\ replaced' = IF row[job.cur] = OpenAI THEN replaced ELSE Overwritten(job.cur)
  /\ GoTo("complete", job)
  /\ UNCHANGED <<rollout, index, backups, legacy, record, codexState>>

\* The transaction must update one row, or is given up.
CommitRow ==
  /\ pc = "commit"
  /\ \/ /\ row[job.cur] # OpenAI
        /\ row' = [row EXCEPT ![job.cur] = OpenAI]
        /\ replaced' = Overwritten(job.cur)
        /\ GoTo("complete", job)
     \/ UNCHANGED <<row, replaced>> /\ End("err")
  /\ UNCHANGED <<rollout, index, backups, legacy, record, codexState>>

\* The record is written over in place: it can be cut short and lost.
RecordTorn == record' = [record EXCEPT !.status = "torn"]

CompleteRecord ==
  /\ pc = "complete"
  /\ \/ /\ record' = [record EXCEPT !.status = "completed"]
        /\ End("ok") \/ End("err")
     \/ UNCHANGED record /\ End("err")
     \/ RecordTorn /\ End("err")
  /\ UNCHANGED <<codexFiles, backups, legacy, codexState, replaced>>

\* The service dies; a transaction that was not committed is gone.
Crash ==
  /\ pc # "idle"
  /\ End("none")
  /\ UNCHANGED record \/ (pc = "complete" /\ RecordTorn)
  /\ UNCHANGED <<codexFiles, backups, legacy, codexState, replaced>>

-----------------------------------------------------------------------------
\* While a repair runs, the sessions Codex writes are noted.
Touch(s) == touched' = IF pc = "idle" THEN {} ELSE touched \cup {s}

\* External: Codex starts a session ...
CodexStart(s, p) ==
  /\ rollout[s] = Absent
  /\ rollout' = [rollout EXCEPT ![s] = [provider |-> p, lines |-> {}]]
  /\ writer' = [writer EXCEPT ![s] = "open"]
  /\ Touch(s)
  /\ UNCHANGED <<row, index, backups, legacy, audit, pc, job, result, written, stray>>

\* ... or resumes one, ...
CodexResume(s) ==
  /\ rollout[s] # Absent /\ writer[s] # "open"
  /\ writer' = [writer EXCEPT ![s] = "open"]
  /\ UNCHANGED <<codexFiles, backups, legacy, audit, running, written, stray>>

\* ... appends lines through the handle it has, ...
CodexAppend(s) ==
  LET line == Cardinality(UNION {written[t] : t \in Sessions}) + 1
      counted == writer[s] = "stale" \/ (pc = "replace" /\ job.cur = s)
  IN
  /\ writer[s] # "none"
  /\ line <= MaxLines
  /\ written' = [written EXCEPT ![s] = @ \cup {line}]
  /\ stray' = IF counted THEN [stray EXCEPT ![s] = @ \cup {line}] ELSE stray
  /\ rollout' = IF writer[s] = "stale" THEN rollout
                ELSE [rollout EXCEPT ![s].lines = @ \cup {line}]
  /\ UNCHANGED <<row, index, backups, legacy, audit, running, writer>>

\* ... and keeps the session's row and its entry of the index.
CodexRow(s, p) ==
  /\ writer[s] # "none"
  /\ row' = [row EXCEPT ![s] = p]
  /\ Touch(s)
  /\ UNCHANGED <<rollout, index, backups, legacy, audit, pc, job, result, codexState>>

CodexIndex(s) ==
  /\ writer[s] # "none" /\ s \notin index
  /\ index' = index \cup {s}
  /\ Touch(s)
  /\ UNCHANGED <<rollout, row, backups, legacy, audit, pc, job, result, codexState>>

History ==
  \/ \E p \in Providers : StartHistory(p)
  \/ \E s \in Sessions : ReadRollout(s) \/ CopyRollout(s)
  \/ CollectFails \/ Plan \/ MakeDir \/ ReplaceRollout \/ BackupRows \/ UpdateRows
  \/ ReadIndex \/ AppendIndex \/ Prune \/ PruneRequest
  \/ MoveLegacy \/ PruneMigrated

IndexRepair ==
  \/ \E s \in Sessions : StartIndexRepair(s)
  \/ PrepareRecord \/ CommitRow \/ CompleteRecord

Codex ==
  \E s \in Sessions :
    \/ CodexResume(s) \/ CodexAppend(s) \/ CodexIndex(s)
    \/ \E p \in Providers : CodexStart(s, p) \/ CodexRow(s, p)

Next == History \/ IndexRepair \/ Codex \/ Crash

Spec == Init /\ [][Next]_vars

-----------------------------------------------------------------------------
TypeOK ==
  /\ rollout \in [Sessions -> {Absent} \cup Rollout]
  /\ row \in [Sessions -> Provider \cup {Absent}]
  /\ index \subseteq Sessions
  /\ backups \in Seq(Copies)
  /\ legacy \in {None} \cup 0 .. MaxLegacy
  /\ record \in Record \cup {Absent}
  /\ pc \in Steps
  /\ job \in Job
  /\ result \in {"none", "ok", "warnings", "err"}
  /\ writer \in [Sessions -> {"none", "open", "stale"}]
  /\ written \in [Sessions -> SUBSET Lines]
  /\ stray \in [Sessions -> SUBSET Lines]
  /\ touched \subseteq Sessions
  /\ replaced \in Provider \cup {Absent}

\* A line of a conversation that is in no rollout any more is in a backup directory, or
\* was until retention removed it: a repair, also one whose steps fail or that dies half
\* way, loses only lines Codex writes after the rollout was copied, before it is
\* replaced or through a handle that the replacement made stale.
LinesKept ==
  \A s \in Sessions : rollout[s] # Absent =>
    written[s] \subseteq
      rollout[s].lines \cup stray[s] \cup CopiedLines(backups, s)

\* Retention, also that of another thread, takes no copy from the directory of a running
\* repair, and none when the repair ends, unless MaxBackups directories of an earlier
\* version have been copied in before it since the repair last wrote into it.
RunningBackupKept ==
  [][\A s \in Sessions :
       pc \in HistorySteps /\ job.dir # 0 /\ job.newer < MaxBackups =>
         CopiedLines(<<Mine>>, s) \subseteq CopiedLines(backups', s)]_vars

\* A history repair that reports no warning has aligned rollout, row and index entry of
\* every session that Codex has not written meanwhile.
RepairAligns ==
  [][\A s \in Sessions :
       pc \in HistorySteps /\ result' = "ok" /\ s \notin touched =>
         /\ rollout[s] # Absent => rollout[s].provider = job.target
         /\ row[s] # Absent => row[s] = job.target /\ s \in index]_vars

\* An audit record says the truth: a completed one stands for a row that was changed, a
\* repair that succeeds has completed its record, and every row an index repair changed has
\* a record that names the provider it had, unless Codex changed it between the reading and
\* the update or the record was torn when it was completed.
RecordIsTrue ==
  /\ record # Absent =>
       /\ record.status # "prepared" => replaced # None
       /\ result = "ok" => record.status = "completed"
  /\ replaced \notin {None, Absent} =>
       /\ record # Absent /\ replaced # OpenAI
       /\ record.status # "torn" => record.previous = replaced
=============================================================================
