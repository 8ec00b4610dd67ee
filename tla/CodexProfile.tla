---------------------------- MODULE CodexProfile ----------------------------
(***************************************************************************)
(* What codexProfile/applyDirectAccount, codexProfile/applyGateway and     *)
(* codexProfile/restore do to a Codex home directory                       *)
(* (crates/service/src/codex_profile.rs).                                  *)
(*                                                                         *)
(* The service's HTTP loop serves one RPC at a time, so one operation runs *)
(* at once, write after write; any write may fail, before or after it took *)
(* effect, the service may die between two writes, and the Codex CLI or    *)
(* the user may rewrite auth.json and config.toml at any moment.           *)
(*                                                                         *)
(* A file's content is abstracted to whom it identifies (auth.json,        *)
(* marker), to the user's own text and whether it selects the managed      *)
(* provider (config.toml), and to who wrote it, which the code never reads.*)
(***************************************************************************)
EXTENDS Naturals, FiniteSets

CONSTANTS
  Dirs,           \* Codex home directories
  Managed,        \* managed account ids
  ApiKeys,        \* platform API keys
  Actual,         \* account ids that occur in auth.json
  Texts,          \* what the user wrote in config.toml
  BrokenTexts,    \* those that cannot be patched: not TOML
  EmptyText,      \* config.toml missing or empty
  ChatgptId,      \* build_direct_auth_json: the id written for an account
  Matches,        \* account_ids_match: pairs <<managed id, actual id>>
  NoFile, NoId, NoOp,
  Kinds,          \* which of "direct", "gateway", "restore" are asked for
  Inherited,      \* a directory may have been set up by a version with legacy markers
  Faults          \* which of "write", "undo", "crash", "user" can happen

ASSUME IdAssumption == ChatgptId \in [Managed -> Actual] /\ Matches \subseteq Managed \X Actual
ASSUME TextAssumption == EmptyText \in Texts \ BrokenTexts

VARIABLES
  auth, config, marker, legacy,   \* files of each directory (legacy: the old marker)
  state,       \* app setting: the managed state, of one directory
  backups,     \* app setting: first-touch copies of auth.json and config.toml
  home,        \* app setting: the persisted Codex home
  op,          \* the operation being served: [kind, dir, who]
  pc,          \* its next step
  prev,        \* previous_auth, previous_config, previous_marker, previous_state
  text,        \* config.toml as patched for the operation
  result       \* how the last operation ended, or how its rollback goes

files == <<auth, config, marker, legacy>>
settings == <<state, backups, home>>
vars == <<auth, config, marker, legacy, state, backups, home, op, pc, prev, text, result>>

UserAuth == [mode: {"tokens"}, id: Actual, by: {"user"}]
Auth == UserAuth
          \cup [mode: {"tokens"}, id: Actual, by: {"manager"}]
          \cup [mode: {"apikey"}, id: ApiKeys, by: {"manager"}]
Config == [user: Texts, managed: BOOLEAN]
Marker == [mode: {"direct"}, id: Managed] \cup [mode: {"gateway"}, id: ApiKeys]
State == [dir: Dirs, mark: Marker]
Backup == [auth: Auth \cup {NoFile}, config: Config \cup {NoFile}]
Op == [kind: {"direct"}, dir: Dirs, who: Managed]
        \cup [kind: {"gateway"}, dir: Dirs, who: ApiKeys]
        \cup [kind: {"restore"}, dir: Dirs, who: {NoId}]

ASSUME NullAssumption ==
  /\ NoId \notin Managed \cup ApiKeys \cup Actual
  /\ NoFile \notin Auth \cup Config \cup Marker \cup State \cup Backup
  /\ NoFile \notin Dirs
  /\ NoOp \notin Op

Writes == {"auth", "config", "marker", "state", "home"}
Rollback == {"undoAuth", "undoConfig", "undoMarker", "undoState"}
Restoring == {"backAuth", "backConfig", "dropMarker", "dropLegacy", "dropBackup", "dropState"}
Steps == {"idle", "backup", "patch", "verify"} \cup Writes \cup Rollback \cup Restoring
Results == {"none", "ok", "err", "undoing", "undoFailed", "rolledBack"}

-----------------------------------------------------------------------------
\* The record an operation writes in the marker and in the managed state.
MarkOf(o) == [mode |-> o.kind, id |-> o.who]

AuthFor(o) ==
  IF o.kind = "direct" THEN [mode |-> "tokens", id |-> ChatgptId[o.who], by |-> "manager"]
                       ELSE [mode |-> "apikey", id |-> o.who, by |-> "manager"]

\* patch_config_for_direct and patch_config_for_gateway take the managed provider out
\* of config.toml or put it in.  (A model_provider of the user's own, which the second
\* replaces, is not told apart.)
Patched(content, o) ==
  [user |-> IF content = NoFile THEN EmptyText ELSE content.user, managed |-> o.kind = "gateway"]

\* status_for_profile: the marker wins over the persisted state.
Selected(d) ==
  IF marker[d] # NoFile THEN marker[d]
  ELSE IF state # NoFile /\ state.dir = d THEN state.mark
  ELSE NoFile

SelectedAccount(d) ==
  IF Selected(d) # NoFile /\ Selected(d).mode = "direct" THEN Selected(d).id ELSE NoId

ActualAccount(d) ==
  IF auth[d] # NoFile /\ auth[d].mode = "tokens" THEN auth[d].id ELSE NoId

IdentityConsistent(d) ==
  \/ <<SelectedAccount(d), ActualAccount(d)>> \in Matches
  \/ SelectedAccount(d) = NoId /\ ActualAccount(d) = NoId

\* ensure_managed_profile_migrated, run by every operation but restore before it
\* starts, and by every status request.  Its errors are warnings.
Migrate(d) ==
  LET migrated == [marker EXCEPT ![d] = IF @ = NoFile THEN legacy[d] ELSE @] IN
  \/ marker' = migrated /\ legacy' = [legacy EXCEPT ![d] = NoFile]
  \/ "write" \in Faults /\ marker' \in {marker, migrated} /\ UNCHANGED legacy

-----------------------------------------------------------------------------
NothingRead ==
  [auth |-> NoFile, config |-> NoFile, marker |-> NoFile, state |-> NoFile]
Blank == [user |-> EmptyText, managed |-> FALSE]

\* A directory nothing has touched yet.
Fresh(d) ==
  /\ auth[d] \in {NoFile} \cup UserAuth
  /\ config[d] \in {NoFile} \cup [user: Texts, managed: {FALSE}]
  /\ legacy[d] = NoFile
  /\ backups[d] = NoFile

\* A directory an earlier version switched: its marker is beside the files.
SwitchedBefore(d) ==
  /\ Inherited
  /\ legacy[d] # NoFile
  /\ auth[d] = AuthFor([kind |-> legacy[d].mode, who |-> legacy[d].id])
  /\ config[d] = [user |-> EmptyText, managed |-> legacy[d].mode = "gateway"]
  /\ backups[d] = [auth |-> NoFile, config |-> NoFile]

Init ==
  /\ auth \in [Dirs -> Auth \cup {NoFile}]
  /\ config \in [Dirs -> Config \cup {NoFile}]
  /\ marker = [d \in Dirs |-> NoFile]
  /\ legacy \in [Dirs -> Marker \cup {NoFile}]
  /\ backups \in [Dirs -> {NoFile, [auth |-> NoFile, config |-> NoFile]}]
  /\ \A d \in Dirs : Fresh(d) \/ SwitchedBefore(d)
  /\ \/ state = NoFile
     \/ \E d \in Dirs : legacy[d] # NoFile /\ state = [dir |-> d, mark |-> legacy[d]]
  /\ home = NoFile
  /\ op = NoOp
  /\ pc = "idle"
  /\ prev = NothingRead
  /\ text = Blank
  /\ result = "none"

GoTo(step) == pc' = step /\ UNCHANGED <<op, prev, text, result>>

\* The operation returns; its local variables go with it.
End(outcome) ==
  /\ pc' = "idle" /\ op' = NoOp /\ result' = outcome
  /\ prev' = NothingRead /\ text' = Blank

\* A failed write of a direct switch is rolled back; the gateway switch and
\* restore return the error and leave what they have written.
Abort ==
  IF op.kind = "direct"
    THEN pc' = "undoAuth" /\ result' = "undoing" /\ UNCHANGED <<op, prev, text>>
    ELSE End("err")

\* One write of the operation: it succeeds and the operation goes on, or it fails
\* without effect.
Attempt(effect, none, next) ==
  \/ effect /\ GoTo(next)
  \/ "write" \in Faults /\ none /\ Abort

\* write_atomic may also fail after its rename, when it hardens the file's mode.
AttemptFile(effect, none, next) ==
  \/ Attempt(effect, none, next)
  \/ "write" \in Faults /\ effect /\ Abort

\* The account is active and its token usable and refreshed, the key is active:
\* otherwise the call returns before it reads or writes the profile.
StartSwitch(o) ==
  /\ pc = "idle"
  /\ o.kind \in Kinds \ {"restore"}
  /\ Migrate(o.dir)
  /\ prev' = [auth |-> auth[o.dir], config |-> config[o.dir], marker |-> marker'[o.dir],
              state |-> state]
  /\ op' = o /\ pc' = "backup" /\ result' = "none"
  /\ UNCHANGED <<auth, config, settings, text>>

StartRestore(d) ==
  /\ pc = "idle"
  /\ "restore" \in Kinds
  /\ backups[d] # NoFile
  /\ op' = [kind |-> "restore", dir |-> d, who |-> NoId]
  /\ pc' = "backAuth" /\ result' = "none"
  /\ UNCHANGED <<files, settings, prev, text>>

\* Mutant of MakeBackup: a directory without auth.json is not backed up.
MakeBackupOfAuth ==
  LET d == op.dir IN
  /\ pc = "backup"
  /\ backups' = IF backups[d] # NoFile \/ auth[d] = NoFile THEN backups
                ELSE [backups EXCEPT ![d] = [auth |-> auth[d], config |-> config[d]]]
  /\ GoTo("patch")
  /\ UNCHANGED <<files, state, home>>

\* Mutant of MakeBackup: every switch makes a backup.
MakeBackupEveryTime ==
  LET d == op.dir IN
  /\ pc = "backup"
  /\ backups' = [backups EXCEPT ![d] = [auth |-> auth[d], config |-> config[d]]]
  /\ GoTo("patch")
  /\ UNCHANGED <<files, state, home>>

\* ensure_backup: only the first switch of a directory copies its files.
MakeBackup ==
  LET d == op.dir IN
  /\ pc = "backup"
  /\ \/ /\ backups' = IF backups[d] # NoFile THEN backups
                      ELSE [backups EXCEPT ![d] = [auth |-> auth[d], config |-> config[d]]]
        /\ GoTo("patch")
     \/ "write" \in Faults /\ UNCHANGED backups /\ End("err")
  /\ UNCHANGED <<files, state, home>>

\* config.toml is read again and patched; nothing of the profile is written yet.
PatchConfig ==
  LET content == config[op.dir] IN
  /\ pc = "patch"
  /\ IF content # NoFile /\ content.user \in BrokenTexts
       THEN End("err")
       ELSE /\ text' = Patched(content, op)
            /\ pc' = "auth" /\ UNCHANGED <<op, prev, result>>
  /\ UNCHANGED <<files, settings>>

WriteAuth ==
  /\ pc = "auth"
  /\ AttemptFile(auth' = [auth EXCEPT ![op.dir] = AuthFor(op)], UNCHANGED auth, "config")
  /\ UNCHANGED <<config, marker, legacy, settings>>

WriteConfig ==
  /\ pc = "config"
  /\ AttemptFile(config' = [config EXCEPT ![op.dir] = text], UNCHANGED config, "marker")
  /\ UNCHANGED <<auth, marker, legacy, settings>>

\* The old marker is removed when the new one is in place, if it can be.
WriteMarker ==
  /\ pc = "marker"
  /\ \/ /\ marker' = [marker EXCEPT ![op.dir] = MarkOf(op)]
        /\ \/ legacy' = [legacy EXCEPT ![op.dir] = NoFile]
           \/ "write" \in Faults /\ UNCHANGED legacy
        /\ GoTo("state")
     \/ /\ "write" \in Faults
        /\ marker' \in {marker, [marker EXCEPT ![op.dir] = MarkOf(op)]}
        /\ UNCHANGED legacy
        /\ Abort
  /\ UNCHANGED <<auth, config, settings>>

SaveState ==
  /\ pc = "state"
  /\ Attempt(state' = [dir |-> op.dir, mark |-> MarkOf(op)], UNCHANGED state, "home")
  /\ UNCHANGED <<files, backups, home>>

PersistCodexHome ==
  /\ pc = "home"
  /\ Attempt(home' = op.dir, UNCHANGED home, "verify")
  /\ UNCHANGED <<files, state, backups>>

\* Mutant of Verify: the profile is not read back.
VerifyNothing ==
  /\ pc = "verify"
  /\ UNCHANGED <<auth, config, settings>>
  /\ \E d \in Dirs : d = op.dir /\ Migrate(d)
  /\ End("ok")

\* A direct switch reads the profile back and compares the selected account with
\* the one in auth.json; the gateway switch repairs the history index instead
\* (outside the files modelled here) and reports the status.
Verify ==
  /\ pc = "verify"
  /\ UNCHANGED <<auth, config, settings>>
  /\ \E d \in Dirs :
       /\ d = op.dir
       /\ Migrate(d)
       /\ IF op.kind = "gateway" \/ IdentityConsistent(d)' THEN End("ok") ELSE Abort

\* restore_switch_snapshot tries all four writes, whatever fails.
Undo(effect, none, next) ==
  /\ \/ effect /\ UNCHANGED result
     \/ "undo" \in Faults /\ (effect \/ none) /\ result' = "undoFailed"
  /\ pc' = next /\ UNCHANGED <<op, prev, text>>

\* Mutant of UndoAuth: config.toml's snapshot goes to auth.json.
UndoAuthSwapped ==
  /\ pc = "undoAuth"
  /\ Undo(auth' = [auth EXCEPT ![op.dir] = prev.config], UNCHANGED auth, "undoConfig")
  /\ UNCHANGED <<config, marker, legacy, settings>>

UndoAuth ==
  /\ pc = "undoAuth"
  /\ Undo(auth' = [auth EXCEPT ![op.dir] = prev.auth], UNCHANGED auth, "undoConfig")
  /\ UNCHANGED <<config, marker, legacy, settings>>

\* Mutant of UndoConfig: a config.toml that was missing before is left in place.
UndoConfigIfPresent ==
  /\ pc = "undoConfig"
  /\ Undo(config' = IF prev.config = NoFile THEN config
                    ELSE [config EXCEPT ![op.dir] = prev.config],
          UNCHANGED config, "undoMarker")
  /\ UNCHANGED <<auth, marker, legacy, settings>>

UndoConfig ==
  /\ pc = "undoConfig"
  /\ Undo(config' = [config EXCEPT ![op.dir] = prev.config], UNCHANGED config, "undoMarker")
  /\ UNCHANGED <<auth, marker, legacy, settings>>

UndoMarker ==
  /\ pc = "undoMarker"
  /\ Undo(marker' = [marker EXCEPT ![op.dir] = prev.marker], UNCHANGED marker, "undoState")
  /\ UNCHANGED <<auth, config, legacy, settings>>

UndoState ==
  /\ pc = "undoState"
  /\ \/ /\ state' = prev.state
        /\ End(IF result = "undoing" THEN "rolledBack" ELSE "undoFailed")
     \/ "undo" \in Faults /\ UNCHANGED state /\ End("undoFailed")
  /\ UNCHANGED <<files, backups, home>>

-----------------------------------------------------------------------------
\* restore: the copies go back, the markers go, and the backup is given up last.
RestoreAuth ==
  /\ pc = "backAuth"
  /\ AttemptFile(auth' = [auth EXCEPT ![op.dir] = backups[op.dir].auth],
                 UNCHANGED auth, "backConfig")
  /\ UNCHANGED <<config, marker, legacy, settings>>

RestoreConfig ==
  /\ pc = "backConfig"
  /\ AttemptFile(config' = [config EXCEPT ![op.dir] = backups[op.dir].config],
                 UNCHANGED config, "dropMarker")
  /\ UNCHANGED <<auth, marker, legacy, settings>>

RemoveMarker ==
  /\ pc = "dropMarker"
  /\ Attempt(marker' = [marker EXCEPT ![op.dir] = NoFile], UNCHANGED marker, "dropLegacy")
  /\ UNCHANGED <<auth, config, legacy, settings>>

RemoveLegacyMarker ==
  /\ pc = "dropLegacy"
  /\ Attempt(legacy' = [legacy EXCEPT ![op.dir] = NoFile], UNCHANGED legacy, "dropBackup")
  /\ UNCHANGED <<auth, config, marker, settings>>

RemoveBackup ==
  /\ pc = "dropBackup"
  /\ Attempt(backups' = [backups EXCEPT ![op.dir] = NoFile], UNCHANGED backups, "dropState")
  /\ UNCHANGED <<files, state, home>>

\* Mutant of ClearState: the state is compared with the persisted home instead of
\* the directory that was restored.
ClearStateOfHome ==
  LET stale == state # NoFile /\ state.dir = home IN
  /\ pc = "dropState"
  /\ state' = (IF stale THEN NoFile ELSE state) /\ End("ok")
  /\ UNCHANGED <<files, backups, home>>

ClearState ==
  LET stale == state # NoFile /\ state.dir = op.dir IN
  /\ pc = "dropState"
  /\ \/ state' = (IF stale THEN NoFile ELSE state) /\ End("ok")
     \/ stale /\ "write" \in Faults /\ UNCHANGED state /\ End("err")
  /\ UNCHANGED <<files, backups, home>>

-----------------------------------------------------------------------------
\* codexProfile/setConfig persists another Codex home and reports its status.
SetConfig(d) ==
  /\ pc = "idle"
  /\ home' = d
  /\ Migrate(d)
  /\ UNCHANGED <<auth, config, state, backups, op, pc, prev, text, result>>

\* Any status request, also those of the pollers' threads while an operation runs.
StatusRequest(d) ==
  /\ legacy[d] # NoFile
  /\ Migrate(d)
  /\ UNCHANGED <<auth, config, settings, op, pc, prev, text, result>>

\* External: `codex login` or logout rewrites auth.json.
CodexLogin(d) ==
  /\ "user" \in Faults
  /\ \E new \in {NoFile} \cup UserAuth :
       auth' = [auth EXCEPT ![d] = new]
  /\ UNCHANGED <<config, marker, legacy, settings, op, pc, prev, text, result>>

\* External: the user edits config.toml.
EditConfig(d) ==
  /\ "user" \in Faults
  /\ \E t \in Texts, managed \in BOOLEAN :
       /\ managed => config[d] # NoFile /\ config[d].managed
       /\ config' = [config EXCEPT ![d] = [user |-> t, managed |-> managed]]
  /\ UNCHANGED <<auth, marker, legacy, settings, op, pc, prev, text, result>>

Crash ==
  /\ "crash" \in Faults
  /\ pc # "idle"
  /\ End("none")
  /\ UNCHANGED <<files, settings>>

Step ==
  \/ MakeBackup \/ PatchConfig \/ WriteAuth \/ WriteConfig \/ WriteMarker
  \/ SaveState \/ PersistCodexHome \/ Verify
  \/ UndoAuth \/ UndoConfig \/ UndoMarker \/ UndoState
  \/ RestoreAuth \/ RestoreConfig \/ RemoveMarker \/ RemoveLegacyMarker
  \/ RemoveBackup \/ ClearState

Request ==
  \/ \E o \in Op : StartSwitch(o)
  \/ \E d \in Dirs : StartRestore(d) \/ SetConfig(d)

Environment ==
  \/ \E d \in Dirs : StatusRequest(d) \/ CodexLogin(d) \/ EditConfig(d)
  \/ Crash

Next == Step \/ Request \/ Environment

Spec == Init /\ [][Next]_vars

-----------------------------------------------------------------------------
TypeOK ==
  /\ auth \in [Dirs -> Auth \cup {NoFile}]
  /\ config \in [Dirs -> Config \cup {NoFile}]
  /\ marker \in [Dirs -> Marker \cup {NoFile}]
  /\ legacy \in [Dirs -> Marker \cup {NoFile}]
  /\ state \in State \cup {NoFile}
  /\ backups \in [Dirs -> Backup \cup {NoFile}]
  /\ home \in Dirs \cup {NoFile}
  /\ op \in Op \cup {NoOp}
  /\ pc \in Steps
  /\ prev \in [auth: Auth \cup {NoFile}, config: Config \cup {NoFile},
               marker: Marker \cup {NoFile}, state: State \cup {NoFile}]
  /\ text \in Config
  /\ result \in Results

\* What the manager wrote into a file.
ManagedAuth(a) == a # NoFile /\ a.by = "manager"
ManagedConfig(c) == c # NoFile /\ c.managed

\* As long as a directory holds credentials or a provider the manager wrote, the
\* user's own files can be restored: failed writes, rollbacks, crashes between
\* any two writes and half-done restores never leave it without its backup.
ManagedHasBackup ==
  \A d \in Dirs : ManagedAuth(auth[d]) \/ ManagedConfig(config[d]) => backups[d] # NoFile

\* A backup never holds what the manager wrote: no sequence of failed, repeated
\* and interrupted switches makes a managed file pass for the user's original.
BackupIsUsers ==
  \A d \in Dirs : backups[d] # NoFile =>
    ~ManagedAuth(backups[d].auth) /\ ~ManagedConfig(backups[d].config)

\* A direct switch that reports success has changed everything it stands for, and
\* auth.json identifies the selected account although Codex may have written it since.
SwitchVerified ==
  [][\A d \in Dirs :
       pc = "verify" /\ op.kind = "direct" /\ op.dir = d /\ result' = "ok" =>
         /\ <<op.who, ActualAccount(d)>> \in Matches
         /\ ~ManagedConfig(config[d])
         /\ SelectedAccount(d)' = op.who
         /\ state' = [dir |-> d, mark |-> MarkOf(op)]
         /\ home' = d]_vars
=============================================================================
