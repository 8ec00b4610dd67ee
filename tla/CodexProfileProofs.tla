------------------------- MODULE CodexProfileProofs -------------------------
(***************************************************************************)
(* Proofs of the safety properties of CodexProfile, for every set of       *)
(* directories, accounts, keys and file contents and every set of faults;  *)
(* and, last, that an undisturbed switch implements AtomicSwitch.  That    *)
(* argument needs to know, step by step, which files are the switch's and  *)
(* which are still, or again, what the switch found (Unfinished).          *)
(***************************************************************************)
EXTENDS CodexProfileAtomic, TLAPS

Switching == {"backup", "patch", "verify"} \cup Writes

\* Which operation can be at which step.
OpAtStep ==
  /\ pc = "idle" <=> op = NoOp
  /\ pc \in Switching => op.kind \in {"direct", "gateway"} /\ result = "none"
  /\ pc \in Rollback => op.kind = "direct"
  /\ pc \in Restoring => op.kind = "restore" /\ result = "none"

\* Between its copy and the end of a restore, the directory has a backup.
BackupKept ==
  pc \in (Switching \ {"backup"}) \cup Rollback \cup (Restoring \ {"dropState"})
    => backups[op.dir] # NoFile

\* A restore gives the backup up only when the files are the user's again.
Reverted ==
  /\ pc \in Restoring \ {"backAuth"} => ~ManagedAuth(auth[op.dir])
  /\ pc \in Restoring \ {"backAuth", "backConfig"} => ~ManagedConfig(config[op.dir])

\* What a switch has done so far stays done until it is rolled back.
Progress ==
  /\ pc \in Writes \cup {"verify"} => text.managed = (op.kind = "gateway")
  /\ pc \in {"marker", "state", "home", "verify"} /\ op.kind = "direct"
       => ~ManagedConfig(config[op.dir])
  /\ pc \in {"state", "home", "verify"} => marker[op.dir] = MarkOf(op)
  /\ pc \in {"home", "verify"} => state = [dir |-> op.dir, mark |-> MarkOf(op)]
  /\ pc = "verify" => home = op.dir

IInv ==
  /\ TypeOK
  /\ OpAtStep
  /\ BackupKept
  /\ Reverted
  /\ Progress
  /\ ManagedHasBackup
  /\ BackupIsUsers

-----------------------------------------------------------------------------
\* An operation writes a mark, credentials and a configuration of the right kind.
LEMMA SwitchWrites ==
  ASSUME NEW o \in Op, o.kind \in {"direct", "gateway"}
  PROVE  /\ MarkOf(o) \in Marker
         /\ AuthFor(o) \in Auth
         /\ MarkOf(o).mode = o.kind
         /\ MarkOf(o).id = o.who
<1>1. CASE o.kind = "direct"
  BY <1>1, IdAssumption DEF Op, MarkOf, AuthFor, Marker, Auth
<1>2. CASE o.kind = "gateway"
  BY <1>2 DEF Op, MarkOf, AuthFor, Marker, Auth
<1> QED
  BY <1>1, <1>2

LEMMA PatchedType ==
  ASSUME NEW content \in Config \cup {NoFile}, NEW o
  PROVE  Patched(content, o) \in Config
  BY TextAssumption DEF Patched, Config

LEMMA InitType == Init => TypeOK
<1> SUFFICES ASSUME Init PROVE TypeOK
  OBVIOUS
<1>1. backups \in [Dirs -> Backup \cup {NoFile}]
  BY DEF Init, Backup
<1>2. state \in State \cup {NoFile}
  BY DEF Init, State
<1>3. text \in Config
  BY TextAssumption DEF Init, Blank, Config
<1> QED
  BY <1>1, <1>2, <1>3 DEF Init, TypeOK, NothingRead, Steps, Results

\* Every variable keeps its type: what is written was read before or is built for
\* the operation.
LEMMA NextType == TypeOK /\ OpAtStep /\ BackupKept /\ [Next]_vars => TypeOK'
<1> SUFFICES ASSUME TypeOK, OpAtStep, BackupKept, [Next]_vars PROVE TypeOK'
  OBVIOUS
<1> USE DEF TypeOK, GoTo, Results, files, settings
<1>a. NothingRead \in [auth: Auth \cup {NoFile}, config: Config \cup {NoFile},
                       marker: Marker \cup {NoFile}, state: State \cup {NoFile}]
  BY DEF NothingRead
<1>b. Blank \in Config
  BY TextAssumption DEF Blank, Config
<1>c. ASSUME NEW outcome \in Results, End(outcome)
      PROVE  op' \in Op \cup {NoOp} /\ pc' \in Steps /\ result' \in Results
             /\ text' \in Config
             /\ prev' \in [auth: Auth \cup {NoFile}, config: Config \cup {NoFile},
                          marker: Marker \cup {NoFile}, state: State \cup {NoFile}]
  BY <1>a, <1>b, <1>c DEF End, Steps
<1>d. ASSUME Abort
      PROVE  op' \in Op \cup {NoOp} /\ pc' \in Steps /\ result' \in Results
             /\ text' \in Config
             /\ prev' \in [auth: Auth \cup {NoFile}, config: Config \cup {NoFile},
                          marker: Marker \cup {NoFile}, state: State \cup {NoFile}]
  BY <1>c, <1>d DEF Abort, Steps, Rollback
<1>e. ASSUME NEW d \in Dirs, Migrate(d)
      PROVE  /\ marker' \in [Dirs -> Marker \cup {NoFile}]
             /\ legacy' \in [Dirs -> Marker \cup {NoFile}]
  BY <1>e DEF Migrate
<1>f. pc # "idle" => op \in Op /\ op.dir \in Dirs
  BY DEF OpAtStep, Op
<1>1. CASE MakeBackup
  <2>1. backups' \in [Dirs -> Backup \cup {NoFile}]
    BY <1>1, <1>f DEF MakeBackup, Backup
  <2> QED
    BY <1>1, <1>c, <2>1 DEF MakeBackup, Steps
<1>2. CASE PatchConfig
  <2>1. Patched(config[op.dir], op) \in Config
    BY <1>2, <1>f, PatchedType DEF PatchConfig
  <2> QED
    BY <1>2, <1>c, <2>1 DEF PatchConfig, Steps, Writes
<1>3. CASE WriteAuth
  <2>1. AuthFor(op) \in Auth
    BY <1>3, <1>f, SwitchWrites DEF WriteAuth, OpAtStep, Switching, Writes
  <2> QED
    BY <1>3, <1>d, <2>1 DEF WriteAuth, AttemptFile, Attempt, Steps, Writes
<1>4. CASE WriteConfig
  BY <1>4, <1>d DEF WriteConfig, AttemptFile, Attempt, Steps, Writes
<1>5. CASE WriteMarker
  <2>1. MarkOf(op) \in Marker
    BY <1>5, <1>f, SwitchWrites DEF WriteMarker, OpAtStep, Switching, Writes
  <2> QED
    BY <1>5, <1>d, <2>1 DEF WriteMarker, AttemptFile, Attempt, Steps, Writes
<1>6. CASE SaveState
  <2>1. [dir |-> op.dir, mark |-> MarkOf(op)] \in State
    BY <1>6, <1>f, SwitchWrites DEF SaveState, OpAtStep, Switching, Writes, State
  <2> QED
    BY <1>6, <1>d, <2>1 DEF SaveState, Attempt, Steps, Writes
<1>7. CASE PersistCodexHome
  BY <1>7, <1>d, <1>f DEF PersistCodexHome, Attempt, Steps, Writes
<1>8. CASE Verify
  BY <1>8, <1>c, <1>d, <1>e DEF Verify
<1>9. CASE UndoAuth
  BY <1>9 DEF UndoAuth, Undo, Steps, Rollback
<1>10. CASE UndoConfig
  BY <1>10 DEF UndoConfig, Undo, Steps, Rollback
<1>11. CASE UndoMarker
  BY <1>11 DEF UndoMarker, Undo, Steps, Rollback
<1>12. CASE UndoState
  BY <1>12, <1>c DEF UndoState
<1>13. CASE RestoreAuth
  <2>1. backups[op.dir].auth \in Auth \cup {NoFile}
    BY <1>13, <1>f DEF RestoreAuth, BackupKept, Restoring, Backup
  <2> QED
    BY <1>13, <1>d, <2>1 DEF RestoreAuth, AttemptFile, Attempt, Steps, Restoring
<1>14. CASE RestoreConfig
  <2>1. backups[op.dir].config \in Config \cup {NoFile}
    BY <1>14, <1>f DEF RestoreConfig, BackupKept, Restoring, Backup
  <2> QED
    BY <1>14, <1>d, <2>1 DEF RestoreConfig, AttemptFile, Attempt, Steps, Restoring
<1>15. CASE RemoveMarker
  BY <1>15, <1>d DEF RemoveMarker, Attempt, Steps, Restoring
<1>16. CASE RemoveLegacyMarker
  BY <1>16, <1>d DEF RemoveLegacyMarker, Attempt, Steps, Restoring
<1>17. CASE RemoveBackup
  BY <1>17, <1>d DEF RemoveBackup, Attempt, Steps, Restoring
<1>18. CASE ClearState
  BY <1>18, <1>c DEF ClearState
<1>19. ASSUME NEW o \in Op, StartSwitch(o) PROVE TypeOK'
  <2>1. o.dir \in Dirs
    BY DEF Op
  <2> QED
    BY <1>19, <1>e, <2>1 DEF StartSwitch, Steps
<1>20. ASSUME NEW d \in Dirs, StartRestore(d) PROVE TypeOK'
  BY <1>20 DEF StartRestore, Op, Steps, Restoring
<1>21. ASSUME NEW d \in Dirs, SetConfig(d) PROVE TypeOK'
  BY <1>21, <1>e DEF SetConfig
<1>22. ASSUME NEW d \in Dirs, StatusRequest(d) PROVE TypeOK'
  BY <1>22, <1>e DEF StatusRequest
<1>23. ASSUME NEW d \in Dirs, CodexLogin(d) PROVE TypeOK'
  BY <1>23 DEF CodexLogin, Auth
<1>24. ASSUME NEW d \in Dirs, EditConfig(d) PROVE TypeOK'
  BY <1>24 DEF EditConfig, Config
<1>25. CASE Crash
  BY <1>25, <1>c DEF Crash
<1>26. CASE UNCHANGED vars
  BY <1>26 DEF vars
<1> QED
  BY <1>1, <1>2, <1>3, <1>4, <1>5, <1>6, <1>7, <1>8, <1>9, <1>10, <1>11, <1>12, <1>13,
     <1>14, <1>15, <1>16, <1>17, <1>18, <1>19, <1>20, <1>21, <1>22, <1>23, <1>24, <1>25,
     <1>26 DEF Next, Step, Request, Environment

LEMMA InitInv == Init => IInv
<1> SUFFICES ASSUME Init PROVE IInv
  OBVIOUS
<1>1. TypeOK
  BY InitType
<1>2. OpAtStep /\ BackupKept /\ Reverted /\ Progress
  BY DEF Init, OpAtStep, BackupKept, Reverted, Progress, Switching, Writes, Rollback, Restoring
<1>3. ManagedHasBackup /\ BackupIsUsers
  <2> SUFFICES ASSUME NEW d \in Dirs
               PROVE  /\ ManagedAuth(auth[d]) \/ ManagedConfig(config[d]) => backups[d] # NoFile
                      /\ backups[d] # NoFile => ~ManagedAuth(backups[d].auth)
                                                /\ ~ManagedConfig(backups[d].config)
    BY DEF ManagedHasBackup, BackupIsUsers
  <2>1. CASE Fresh(d)
    BY <2>1 DEF Fresh, UserAuth, ManagedAuth, ManagedConfig
  <2>2. CASE SwitchedBefore(d)
    <3>1. [auth |-> NoFile, config |-> NoFile] # NoFile
      BY NullAssumption DEF Backup
    <3> QED
      BY <2>2, <3>1 DEF SwitchedBefore, ManagedAuth, ManagedConfig
  <2> QED
    BY <2>1, <2>2 DEF Init
<1> QED
  BY <1>1, <1>2, <1>3 DEF IInv

\* A step of the operation may change the files of op.dir alone; what it leaves
\* there is covered by the backup.
LEMMA NextInv == IInv /\ [Next]_vars => IInv'
<1> SUFFICES ASSUME IInv, [Next]_vars PROVE IInv'
  OBVIOUS
<1> USE DEF GoTo, files, settings, Switching, Writes, Rollback, Restoring
<1>t. TypeOK'
  BY NextType DEF IInv
<1>f. pc # "idle" => op \in Op /\ op.dir \in Dirs
  BY DEF IInv, TypeOK, OpAtStep, Op
<1> DEFINE Rest == OpAtStep /\ BackupKept /\ Reverted /\ Progress
           Files == ManagedHasBackup /\ BackupIsUsers
<1>e. ASSUME pc' = "idle", op' = NoOp PROVE Rest'
  BY <1>e DEF OpAtStep, BackupKept, Reverted, Progress
<1>a. ASSUME Abort, pc \in {"auth", "config", "marker", "state", "home", "verify"} \cup Restoring,
             backups' = backups
      PROVE  Rest'
  <2>1. CASE op.kind = "direct"
    <3>1. pc' = "undoAuth" /\ op' = op /\ op # NoOp
      BY <1>a, <2>1 DEF Abort, IInv, OpAtStep
    <3>2. backups[op.dir] # NoFile
      BY <1>a, <2>1 DEF IInv, BackupKept, OpAtStep
    <3> QED
      BY <1>a, <2>1, <3>1, <3>2 DEF OpAtStep, BackupKept, Reverted, Progress
  <2>2. CASE op.kind # "direct"
    BY <1>a, <1>e, <2>2 DEF Abort, End
  <2> QED
    BY <2>1, <2>2
<1>s. ASSUME UNCHANGED <<auth, config, backups>> PROVE Files'
  BY <1>s DEF IInv, ManagedHasBackup, BackupIsUsers
<1>w. ASSUME backups' = backups, backups[op.dir] # NoFile, op.dir \in Dirs,
             \A d \in Dirs \ {op.dir} : auth'[d] = auth[d] /\ config'[d] = config[d]
      PROVE  Files'
  BY <1>w DEF IInv, ManagedHasBackup, BackupIsUsers
<1>1. CASE MakeBackup
  <2> DEFINE d == op.dir
             copy == [auth |-> auth[d], config |-> config[d]]
  <2>0. d \in Dirs /\ copy # NoFile
    BY <1>1, <1>f, NullAssumption DEF MakeBackup, IInv, TypeOK, Backup
  <2>1. Rest'
    <3>1. CASE pc' = "idle" /\ op' = NoOp
      BY <1>e, <3>1
    <3>2. CASE GoTo("patch")
      BY <1>1, <2>0, <3>2 DEF MakeBackup, End, IInv, TypeOK,
         OpAtStep, BackupKept, Reverted, Progress
    <3> QED
      BY <1>1, <3>1, <3>2 DEF MakeBackup, End
  <2>2. Files'
    BY <1>1, <2>0 DEF MakeBackup, IInv, TypeOK, ManagedHasBackup, BackupIsUsers
  <2> QED
    BY <1>t, <2>1, <2>2 DEF IInv
<1>2. CASE PatchConfig
  <2>1. Rest'
    <3>1. CASE pc' = "idle" /\ op' = NoOp
      BY <1>e, <3>1
    <3>2. CASE pc' = "auth" /\ op' = op /\ result' = result
               /\ text' = Patched(config[op.dir], op)
      BY <1>2, <3>2 DEF PatchConfig, Patched, IInv, OpAtStep, BackupKept, Reverted, Progress
    <3> QED
      BY <1>2, <3>1, <3>2 DEF PatchConfig, End
  <2>2. Files'
    BY <1>2, <1>s DEF PatchConfig
  <2> QED
    BY <1>t, <2>1, <2>2 DEF IInv
<1>3. CASE WriteAuth
  <2>1. Rest'
    <3>1. CASE Abort
      BY <1>a, <1>3, <3>1 DEF WriteAuth
    <3>2. CASE ~Abort
      BY <1>3, <1>f, <3>2 DEF WriteAuth, AttemptFile, Attempt, IInv, TypeOK,
         OpAtStep, BackupKept, Reverted, Progress
    <3> QED
      BY <3>1, <3>2
  <2>2. Files'
    BY <1>3, <1>f, <1>w DEF WriteAuth, AttemptFile, Attempt, IInv, TypeOK, BackupKept
  <2> QED
    BY <1>t, <2>1, <2>2 DEF IInv
<1>4. CASE WriteConfig
  <2>1. Rest'
    <3>1. CASE Abort
      BY <1>a, <1>4, <3>1 DEF WriteConfig
    <3>2. CASE ~Abort
      <4>1. op.kind = "direct" => ~ManagedConfig(text)
        BY <1>4, <1>f, NullAssumption DEF WriteConfig, IInv, Progress, ManagedConfig
      <4> QED
        BY <1>4, <1>f, <3>2, <4>1 DEF WriteConfig, AttemptFile, Attempt, IInv, TypeOK,
           OpAtStep, BackupKept, Reverted, Progress
    <3> QED
      BY <3>1, <3>2
  <2>2. Files'
    BY <1>4, <1>f, <1>w DEF WriteConfig, AttemptFile, Attempt, IInv, TypeOK, BackupKept
  <2> QED
    BY <1>t, <2>1, <2>2 DEF IInv
<1>5. CASE WriteMarker
  <2>1. Rest'
    <3>1. CASE Abort
      BY <1>a, <1>5, <3>1 DEF WriteMarker
    <3>2. CASE ~Abort
      BY <1>5, <1>f, <3>2 DEF WriteMarker, AttemptFile, Attempt, IInv, TypeOK,
         OpAtStep, BackupKept, Reverted, Progress
    <3> QED
      BY <3>1, <3>2
  <2>2. Files'
    BY <1>5, <1>s DEF WriteMarker
  <2> QED
    BY <1>t, <2>1, <2>2 DEF IInv
<1>6. CASE SaveState
  <2>1. Rest'
    <3>1. CASE Abort
      BY <1>a, <1>6, <3>1 DEF SaveState
    <3>2. CASE ~Abort
      BY <1>6, <1>f, <3>2 DEF SaveState, Attempt, IInv, TypeOK,
         OpAtStep, BackupKept, Reverted, Progress
    <3> QED
      BY <3>1, <3>2
  <2>2. Files'
    BY <1>6, <1>s DEF SaveState
  <2> QED
    BY <1>t, <2>1, <2>2 DEF IInv
<1>7. CASE PersistCodexHome
  <2>1. Rest'
    <3>1. CASE Abort
      BY <1>a, <1>7, <3>1 DEF PersistCodexHome
    <3>2. CASE ~Abort
      BY <1>7, <1>f, <3>2 DEF PersistCodexHome, Attempt, IInv, TypeOK,
         OpAtStep, BackupKept, Reverted, Progress
    <3> QED
      BY <3>1, <3>2
  <2>2. Files'
    BY <1>7, <1>s DEF PersistCodexHome
  <2> QED
    BY <1>t, <2>1, <2>2 DEF IInv
<1>8. CASE Verify
  <2>1. Rest'
    BY <1>8, <1>a, <1>e DEF Verify, End
  <2>2. Files'
    BY <1>8, <1>s DEF Verify
  <2> QED
    BY <1>t, <2>1, <2>2 DEF IInv
<1>9. CASE UndoAuth
  <2>1. Rest'
    BY <1>9 DEF UndoAuth, Undo, IInv, OpAtStep, BackupKept, Reverted, Progress
  <2>2. Files'
    BY <1>9, <1>f, <1>w DEF UndoAuth, Undo, IInv, TypeOK, BackupKept
  <2> QED
    BY <1>t, <2>1, <2>2 DEF IInv
<1>10. CASE UndoConfig
  <2>1. Rest'
    BY <1>10 DEF UndoConfig, Undo, IInv, OpAtStep, BackupKept, Reverted, Progress
  <2>2. Files'
    BY <1>10, <1>f, <1>w DEF UndoConfig, Undo, IInv, TypeOK, BackupKept
  <2> QED
    BY <1>t, <2>1, <2>2 DEF IInv
<1>11. CASE UndoMarker
  <2>1. Rest'
    BY <1>11 DEF UndoMarker, Undo, IInv, OpAtStep, BackupKept, Reverted, Progress
  <2>2. Files'
    BY <1>11, <1>s DEF UndoMarker, Undo
  <2> QED
    BY <1>t, <2>1, <2>2 DEF IInv
<1>12. CASE UndoState
  <2>1. Rest'
    BY <1>12, <1>e DEF UndoState, End
  <2>2. Files'
    BY <1>12, <1>s DEF UndoState
  <2> QED
    BY <1>t, <2>1, <2>2 DEF IInv
<1>13. CASE RestoreAuth
  <2>1. Rest'
    <3>1. CASE Abort
      BY <1>a, <1>13, <3>1 DEF RestoreAuth
    <3>2. CASE ~Abort
      <4>1. ~ManagedAuth(backups[op.dir].auth)
        BY <1>13, <1>f DEF RestoreAuth, IInv, BackupKept, BackupIsUsers
      <4> QED
        BY <1>13, <1>f, <3>2, <4>1 DEF RestoreAuth, AttemptFile, Attempt, IInv, TypeOK,
           OpAtStep, BackupKept, Reverted, Progress
    <3> QED
      BY <3>1, <3>2
  <2>2. Files'
    BY <1>13, <1>f, <1>w DEF RestoreAuth, AttemptFile, Attempt, IInv, TypeOK, BackupKept
  <2> QED
    BY <1>t, <2>1, <2>2 DEF IInv
<1>14. CASE RestoreConfig
  <2>1. Rest'
    <3>1. CASE Abort
      BY <1>a, <1>14, <3>1 DEF RestoreConfig
    <3>2. CASE ~Abort
      <4>1. ~ManagedConfig(backups[op.dir].config)
        BY <1>14, <1>f DEF RestoreConfig, IInv, BackupKept, BackupIsUsers
      <4> QED
        BY <1>14, <1>f, <3>2, <4>1 DEF RestoreConfig, AttemptFile, Attempt, IInv, TypeOK,
           OpAtStep, BackupKept, Reverted, Progress
    <3> QED
      BY <3>1, <3>2
  <2>2. Files'
    BY <1>14, <1>f, <1>w DEF RestoreConfig, AttemptFile, Attempt, IInv, TypeOK, BackupKept
  <2> QED
    BY <1>t, <2>1, <2>2 DEF IInv
<1>15. CASE RemoveMarker
  <2>1. Rest'
    <3>1. CASE Abort
      BY <1>a, <1>15, <3>1 DEF RemoveMarker
    <3>2. CASE ~Abort
      BY <1>15, <1>f, <3>2 DEF RemoveMarker, Attempt, IInv, TypeOK,
         OpAtStep, BackupKept, Reverted, Progress
    <3> QED
      BY <3>1, <3>2
  <2>2. Files'
    BY <1>15, <1>s DEF RemoveMarker
  <2> QED
    BY <1>t, <2>1, <2>2 DEF IInv
<1>16. CASE RemoveLegacyMarker
  <2>1. Rest'
    <3>1. CASE Abort
      BY <1>a, <1>16, <3>1 DEF RemoveLegacyMarker
    <3>2. CASE ~Abort
      BY <1>16, <1>f, <3>2 DEF RemoveLegacyMarker, Attempt, IInv, TypeOK,
         OpAtStep, BackupKept, Reverted, Progress
    <3> QED
      BY <3>1, <3>2
  <2>2. Files'
    BY <1>16, <1>s DEF RemoveLegacyMarker
  <2> QED
    BY <1>t, <2>1, <2>2 DEF IInv
<1>17. CASE RemoveBackup
  <2>1. Rest'
    <3>1. CASE Abort /\ backups' = backups
      BY <1>a, <1>17, <3>1 DEF RemoveBackup
    <3>2. CASE GoTo("dropState")
      BY <1>17, <1>f, <3>2 DEF RemoveBackup, IInv, TypeOK,
         OpAtStep, BackupKept, Reverted, Progress
    <3> QED
      BY <1>17, <3>1, <3>2 DEF RemoveBackup, Attempt
  <2>2. Files'
    BY <1>17, <1>f DEF RemoveBackup, Attempt, IInv, TypeOK, Reverted, ManagedHasBackup, BackupIsUsers
  <2> QED
    BY <1>t, <2>1, <2>2 DEF IInv
<1>18. CASE ClearState
  <2>1. Rest'
    BY <1>18, <1>e DEF ClearState, End
  <2>2. Files'
    BY <1>18, <1>s DEF ClearState
  <2> QED
    BY <1>t, <2>1, <2>2 DEF IInv
<1>19. ASSUME NEW o \in Op, StartSwitch(o) PROVE Rest' /\ Files'
  <2>1. Rest'
    BY <1>19, NullAssumption DEF StartSwitch, Op, OpAtStep, BackupKept, Reverted, Progress
  <2>2. Files'
    BY <1>19, <1>s DEF StartSwitch
  <2> QED
    BY <2>1, <2>2
<1>20. ASSUME NEW d \in Dirs, StartRestore(d) PROVE Rest' /\ Files'
  <2>1. Rest'
    <3>1. op' \in Op
      BY <1>20 DEF StartRestore, Op
    <3> QED
      BY <1>20, <3>1, NullAssumption DEF StartRestore, OpAtStep, BackupKept, Reverted, Progress
  <2>2. Files'
    BY <1>20, <1>s DEF StartRestore
  <2> QED
    BY <2>1, <2>2
<1>21. ASSUME NEW d \in Dirs, SetConfig(d) PROVE Rest' /\ Files'
  <2>1. Rest'
    BY <1>21 DEF SetConfig, IInv, OpAtStep, BackupKept, Reverted, Progress
  <2>2. Files'
    BY <1>21, <1>s DEF SetConfig
  <2> QED
    BY <2>1, <2>2
<1>22. ASSUME NEW d \in Dirs, StatusRequest(d) PROVE Rest' /\ Files'
  <2>1. Rest'
    <3>1. marker[op.dir] # NoFile /\ pc # "idle" => marker'[op.dir] = marker[op.dir]
      BY <1>22, <1>f DEF StatusRequest, Migrate, IInv, TypeOK
    <3>2. pc \in {"state", "home", "verify"} => marker[op.dir] # NoFile
      BY <1>f, SwitchWrites, NullAssumption DEF IInv, Progress, OpAtStep
    <3> QED
      BY <1>22, <3>1, <3>2 DEF StatusRequest, IInv, OpAtStep, BackupKept, Reverted, Progress
  <2>2. Files'
    BY <1>22, <1>s DEF StatusRequest
  <2> QED
    BY <2>1, <2>2
<1>23. ASSUME NEW d \in Dirs, CodexLogin(d) PROVE Rest' /\ Files'
  <2>0. \A e \in Dirs : ManagedAuth(auth'[e]) => ManagedAuth(auth[e])
    BY <1>23 DEF CodexLogin, UserAuth, ManagedAuth, ManagedConfig, IInv, TypeOK, Config
  <2>1. Rest'
    BY <1>23, <1>f, <2>0 DEF CodexLogin, IInv, OpAtStep, BackupKept, Reverted, Progress
  <2>2. Files'
    BY <1>23, <2>0 DEF CodexLogin, IInv, ManagedHasBackup, BackupIsUsers
  <2> QED
    BY <2>1, <2>2
<1>24. ASSUME NEW d \in Dirs, EditConfig(d) PROVE Rest' /\ Files'
  <2>0. \A e \in Dirs : ManagedConfig(config'[e]) => ManagedConfig(config[e])
    BY <1>24 DEF EditConfig, UserAuth, ManagedAuth, ManagedConfig, IInv, TypeOK, Config
  <2>1. Rest'
    BY <1>24, <1>f, <2>0 DEF EditConfig, IInv, OpAtStep, BackupKept, Reverted, Progress
  <2>2. Files'
    BY <1>24, <2>0 DEF EditConfig, IInv, ManagedHasBackup, BackupIsUsers
  <2> QED
    BY <2>1, <2>2
<1>25. CASE Crash
  <2>1. Rest'
    BY <1>25, <1>e DEF Crash, End
  <2>2. Files'
    BY <1>25, <1>s DEF Crash
  <2> QED
    BY <1>t, <2>1, <2>2 DEF IInv
<1>26. CASE UNCHANGED vars
  BY <1>t, <1>s, <1>26 DEF vars, IInv, OpAtStep, BackupKept, Reverted, Progress
<1> QED
  BY <1>t, <1>1, <1>2, <1>3, <1>4, <1>5, <1>6, <1>7, <1>8, <1>9, <1>10, <1>11, <1>12, <1>13,
     <1>14, <1>15, <1>16, <1>17, <1>18, <1>19, <1>20, <1>21, <1>22, <1>23, <1>24, <1>25,
     <1>26 DEF IInv, Next, Step, Request, Environment

LEMMA SpecInv == Spec => []IInv
<1>1. Init => IInv
  BY InitInv
<1>2. IInv /\ [Next]_vars => IInv'
  BY NextInv
<1> QED
  BY <1>1, <1>2, PTL DEF Spec

-----------------------------------------------------------------------------
(***************************************************************************)
(* The theorems.                                                           *)
(***************************************************************************)

\* Every variable keeps its type, whatever fails and whoever edits the files.
THEOREM TypeCorrect == Spec => []TypeOK
<1>1. IInv => TypeOK
  BY DEF IInv
<1> QED
  BY <1>1, SpecInv, PTL

\* ensure_backup before the first write, and restore's order (files first, backup
\* last), keep a managed directory restorable through every failure and crash.
THEOREM ManagedIsRestorable == Spec => []ManagedHasBackup
<1>1. IInv => ManagedHasBackup
  BY DEF IInv
<1> QED
  BY <1>1, SpecInv, PTL

\* ensure_backup never copies what the manager wrote.
THEOREM BackupIsOriginal == Spec => []BackupIsUsers
<1>1. IInv => BackupIsUsers
  BY DEF IInv
<1> QED
  BY <1>1, SpecInv, PTL

\* apply_direct_account returns Ok only when all it stands for is in place and
\* auth.json identifies the selected account.
THEOREM OkSwitchIsVerified == Spec => SwitchVerified
<1>1. ASSUME IInv, [Next]_vars, NEW d \in Dirs,
             pc = "verify", op.kind = "direct", op.dir = d, result' = "ok"
      PROVE  /\ <<op.who, ActualAccount(d)>> \in Matches
             /\ ~ManagedConfig(config[d])
             /\ SelectedAccount(d)' = op.who
             /\ state' = [dir |-> d, mark |-> MarkOf(op)]
             /\ home' = d
  <2>1. op \in Op /\ op # NoOp
    BY <1>1 DEF IInv, TypeOK, OpAtStep
  <2>2. ~ManagedConfig(config[d]) /\ marker[d] = MarkOf(op) /\ home = d
        /\ state = [dir |-> d, mark |-> MarkOf(op)]
    BY <1>1 DEF IInv, Progress
  <2>3. MarkOf(op) # NoFile /\ MarkOf(op).mode = "direct" /\ MarkOf(op).id = op.who
        /\ op.who # NoId
    BY <1>1, <2>1, SwitchWrites, NullAssumption DEF Op
  <2>4. CASE Verify
    <3>1. Migrate(d) /\ IdentityConsistent(d)' /\ UNCHANGED <<auth, state, home>>
      BY <1>1, <2>4 DEF Verify, Abort, settings
    <3>2. marker'[d] = MarkOf(op)
      <4>1. marker' \in {marker, [marker EXCEPT ![d] = IF @ = NoFile THEN legacy[d] ELSE @]}
        BY <3>1 DEF Migrate
      <4>2. marker \in [Dirs -> Marker \cup {NoFile}] /\ marker[d] # NoFile
        BY <1>1, <2>2, <2>3 DEF IInv, TypeOK
      <4>3. CASE marker' = marker
        BY <2>2, <4>3
      <4>4. CASE marker' = [marker EXCEPT ![d] = IF @ = NoFile THEN legacy[d] ELSE @]
        BY <2>2, <4>2, <4>4
      <4> QED
        BY <4>1, <4>3, <4>4
    <3>3. SelectedAccount(d)' = op.who
      BY <2>3, <3>2 DEF SelectedAccount, Selected
    <3>4. ActualAccount(d)' = ActualAccount(d)
      BY <3>1 DEF ActualAccount
    <3> QED
      BY <2>2, <2>3, <3>1, <3>3, <3>4 DEF IdentityConsistent
  <2>5. CASE ~Verify
    <3>1. result' \in {"none", result}
      BY <1>1, <2>5 DEF Next, Step, Request, Environment, vars, End, MakeBackup, PatchConfig,
         WriteAuth, WriteConfig, WriteMarker, SaveState, PersistCodexHome, UndoAuth,
         UndoConfig, UndoMarker, UndoState, RestoreAuth, RestoreConfig, RemoveMarker,
         RemoveLegacyMarker, RemoveBackup, ClearState, StartSwitch, StartRestore,
         SetConfig, StatusRequest, CodexLogin, EditConfig, Crash
    <3> QED
      BY <1>1, <3>1 DEF IInv, OpAtStep, Switching
  <2> QED
    BY <2>4, <2>5
<1>2. IInv /\ [Next]_vars =>
        [\A d \in Dirs :
           pc = "verify" /\ op.kind = "direct" /\ op.dir = d /\ result' = "ok" =>
             /\ <<op.who, ActualAccount(d)>> \in Matches
             /\ ~ManagedConfig(config[d])
             /\ SelectedAccount(d)' = op.who
             /\ state' = [dir |-> d, mark |-> MarkOf(op)]
             /\ home' = d]_vars
  BY <1>1
<1> QED
  BY <1>2, SpecInv, PTL DEF Spec, SwitchVerified

-----------------------------------------------------------------------------
\* In a directory that never had a legacy marker nothing can bring a marker back
\* while a restore removes it.
NoLegacy ==
  /\ \A d \in Dirs : legacy[d] = NoFile
  /\ pc \in {"dropLegacy", "dropBackup", "dropState"} => marker[op.dir] = NoFile

LEMMA NoLegacyInv == ASSUME ~Inherited PROVE Spec => []NoLegacy
<1>1. Init => NoLegacy
  BY DEF Init, Fresh, SwitchedBefore, NoLegacy
<1>2. ASSUME IInv, NoLegacy, [Next]_vars PROVE NoLegacy'
  <2> USE DEF GoTo, files, settings
  <2> DEFINE Dropping == {"dropLegacy", "dropBackup", "dropState"}
  <2>m. ASSUME NEW d \in Dirs, Migrate(d)
        PROVE  marker' = marker /\ \A e \in Dirs : legacy'[e] = NoFile
    BY <1>2, <2>m DEF Migrate, NoLegacy, IInv, TypeOK
  <2>f. pc # "idle" => op.dir \in Dirs
    BY <1>2 DEF IInv, TypeOK, OpAtStep, Op
  <2>e. ASSUME NEW outcome, End(outcome) PROVE pc' \notin Dropping
    BY <2>e DEF End
  <2>a. ASSUME Abort PROVE pc' \notin Dropping
    BY <2>a, <2>e DEF Abort
  <2>1. CASE MakeBackup
    BY <1>2, <2>1, <2>e DEF MakeBackup, NoLegacy
  <2>2. CASE PatchConfig
    BY <1>2, <2>2, <2>e DEF PatchConfig, NoLegacy
  <2>3. CASE WriteAuth
    BY <1>2, <2>3, <2>a DEF WriteAuth, AttemptFile, Attempt, NoLegacy
  <2>4. CASE WriteConfig
    BY <1>2, <2>4, <2>a DEF WriteConfig, AttemptFile, Attempt, NoLegacy
  <2>5. CASE WriteMarker
    BY <1>2, <2>5, <2>a, <2>f DEF WriteMarker, IInv, TypeOK, NoLegacy
  <2>6. CASE SaveState
    BY <1>2, <2>6, <2>a, <2>f DEF SaveState, Attempt, IInv, TypeOK, NoLegacy
  <2>7. CASE PersistCodexHome
    BY <1>2, <2>7, <2>a, <2>f DEF PersistCodexHome, Attempt, IInv, TypeOK, NoLegacy
  <2>8. CASE Verify
    BY <1>2, <2>8, <2>a, <2>e, <2>m DEF Verify, NoLegacy
  <2>9. CASE UndoAuth
    BY <1>2, <2>9 DEF UndoAuth, Undo, NoLegacy
  <2>10. CASE UndoConfig
    BY <1>2, <2>10 DEF UndoConfig, Undo, NoLegacy
  <2>11. CASE UndoMarker
    BY <1>2, <2>11 DEF UndoMarker, Undo, NoLegacy
  <2>12. CASE UndoState
    BY <1>2, <2>12, <2>e DEF UndoState, NoLegacy
  <2>13. CASE RestoreAuth
    BY <1>2, <2>13, <2>a DEF RestoreAuth, AttemptFile, Attempt, NoLegacy
  <2>14. CASE RestoreConfig
    BY <1>2, <2>14, <2>a DEF RestoreConfig, AttemptFile, Attempt, NoLegacy
  <2>15. CASE RemoveMarker
    BY <1>2, <2>15, <2>a, <2>f DEF RemoveMarker, Attempt, IInv, TypeOK, NoLegacy
  <2>16. CASE RemoveLegacyMarker
    BY <1>2, <2>16, <2>a, <2>f DEF RemoveLegacyMarker, Attempt, IInv, TypeOK, NoLegacy
  <2>17. CASE RemoveBackup
    BY <1>2, <2>17, <2>a, <2>f DEF RemoveBackup, Attempt, IInv, TypeOK, NoLegacy
  <2>18. CASE ClearState
    BY <1>2, <2>18, <2>e DEF ClearState, NoLegacy
  <2>19. ASSUME NEW o \in Op, StartSwitch(o) PROVE NoLegacy'
    <3>1. o.dir \in Dirs
      BY DEF Op
    <3> QED
      BY <2>19, <2>m, <3>1 DEF StartSwitch, NoLegacy
  <2>20. ASSUME NEW d \in Dirs, StartRestore(d) PROVE NoLegacy'
    BY <1>2, <2>20 DEF StartRestore, NoLegacy
  <2>21. ASSUME NEW d \in Dirs, SetConfig(d) PROVE NoLegacy'
    BY <1>2, <2>21, <2>m DEF SetConfig, NoLegacy
  <2>22. ASSUME NEW d \in Dirs, StatusRequest(d) PROVE NoLegacy'
    BY <1>2, <2>22 DEF StatusRequest, NoLegacy
  <2>23. ASSUME NEW d \in Dirs, CodexLogin(d) PROVE NoLegacy'
    BY <1>2, <2>23 DEF CodexLogin, NoLegacy
  <2>24. ASSUME NEW d \in Dirs, EditConfig(d) PROVE NoLegacy'
    BY <1>2, <2>24 DEF EditConfig, NoLegacy
  <2>25. CASE Crash
    BY <1>2, <2>25, <2>e DEF Crash, NoLegacy
  <2>26. CASE UNCHANGED vars
    BY <1>2, <2>26 DEF vars, NoLegacy
  <2> QED
    BY <1>2, <2>1, <2>2, <2>3, <2>4, <2>5, <2>6, <2>7, <2>8, <2>9, <2>10, <2>11, <2>12,
       <2>13, <2>14, <2>15, <2>16, <2>17, <2>18, <2>19, <2>20, <2>21, <2>22, <2>23,
       <2>24, <2>25, <2>26 DEF Next, Step, Request, Environment
<1> QED
  BY <1>1, <1>2, SpecInv, PTL DEF Spec

\* A restore that reports success leaves nothing by which the directory still counts as
\* managed (RestoreLeavesNoTrace says it of directories with a legacy marker too).
RestoreUnmanages ==
  [][\A d \in Dirs :
       pc = "dropState" /\ op.dir = d /\ result' = "ok" =>
         Selected(d)' = NoFile /\ legacy'[d] = NoFile]_vars

\* restore that returns Ok leaves no record by which status_for_profile still takes
\* the directory for a managed one, provided it never had a legacy marker.
THEOREM RestoreIsComplete == ASSUME ~Inherited PROVE Spec => RestoreUnmanages
<1>1. ASSUME IInv, NoLegacy, NoLegacy', [Next]_vars, NEW d \in Dirs,
             pc = "dropState", op.dir = d, result' = "ok"
      PROVE  Selected(d)' = NoFile /\ legacy'[d] = NoFile
  <2>1. CASE ClearState
    <3>1. marker'[d] = NoFile
      BY <1>1, <2>1 DEF ClearState, files, NoLegacy
    <3>2. state' = NoFile \/ state'.dir # d
      BY <1>1, <2>1 DEF ClearState, End
    <3> QED
      BY <1>1, <3>1, <3>2 DEF Selected, NoLegacy
  <2>2. CASE ~ClearState
    <3>1. result' \in {"none", result}
      BY <1>1, <2>2 DEF Next, Step, Request, Environment, vars, End, GoTo, MakeBackup,
         PatchConfig, WriteAuth, WriteConfig, WriteMarker, SaveState, PersistCodexHome,
         Verify, UndoAuth, UndoConfig, UndoMarker, UndoState, RestoreAuth, RestoreConfig,
         RemoveMarker, RemoveLegacyMarker, RemoveBackup, StartSwitch, StartRestore,
         SetConfig, StatusRequest, CodexLogin, EditConfig, Crash
    <3> QED
      BY <1>1, <3>1 DEF IInv, OpAtStep, Restoring
  <2> QED
    BY <2>1, <2>2
<1>2. IInv /\ NoLegacy /\ NoLegacy' /\ [Next]_vars =>
        [\A d \in Dirs :
           pc = "dropState" /\ op.dir = d /\ result' = "ok" =>
             Selected(d)' = NoFile /\ legacy'[d] = NoFile]_vars
  BY <1>1
<1> QED
  BY <1>2, SpecInv, NoLegacyInv, PTL DEF Spec, RestoreUnmanages

-----------------------------------------------------------------------------
(***************************************************************************)
(* A restore is a round trip, if nobody else edits the files meanwhile.    *)
(***************************************************************************)
\* What the restore has written back so far.
Returned ==
  /\ pc \in Restoring \ {"backAuth", "dropState"} => auth[op.dir] = backups[op.dir].auth
  /\ pc \in {"dropMarker", "dropLegacy", "dropBackup"}
       => config[op.dir] = backups[op.dir].config

\* The copies a directory's first switch made are never replaced, however many switches,
\* rollbacks, crashes and failed restores follow, and they go only when a restore of that
\* directory has put both of them back in place.
CopiesReturn ==
  [][\A d \in Dirs :
       backups[d] # NoFile /\ backups'[d] # backups[d] =>
         /\ backups'[d] = NoFile
         /\ op.kind = "restore" /\ op.dir = d
         /\ auth'[d] = backups[d].auth /\ config'[d] = backups[d].config]_vars

\* Only the writes of a restore itself lead on through it.
LEMMA RestoreGoesOn ==
  ASSUME IInv, [Next]_vars, "user" \notin Faults,
         pc' \in Restoring \ {"backAuth", "dropState"}
  PROVE  \/ RestoreAuth \/ RestoreConfig \/ RemoveMarker \/ RemoveLegacyMarker
         \/ UNCHANGED <<auth, config, backups, op, pc>>
<1> USE DEF GoTo, End, files, settings, Writes, Rollback, Restoring
<1>1. ~Abort
  BY DEF Abort
<1>2. CASE \/ MakeBackup \/ PatchConfig \/ WriteAuth \/ WriteConfig \/ WriteMarker
           \/ SaveState \/ PersistCodexHome \/ Verify \/ UndoAuth \/ UndoConfig
           \/ UndoMarker \/ UndoState \/ RemoveBackup \/ ClearState
  BY <1>1, <1>2 DEF MakeBackup, PatchConfig, WriteAuth, WriteConfig, WriteMarker, SaveState,
     PersistCodexHome, Verify, UndoAuth, UndoConfig, UndoMarker, UndoState, Undo,
     RemoveBackup, ClearState, AttemptFile, Attempt
<1>3. CASE \/ \E o \in Op : StartSwitch(o)
           \/ \E d \in Dirs : StartRestore(d) \/ SetConfig(d)
           \/ Crash
  BY <1>3 DEF StartSwitch, StartRestore, SetConfig, Crash
<1>4. CASE \E d \in Dirs : StatusRequest(d) \/ CodexLogin(d) \/ EditConfig(d)
  BY <1>4 DEF StatusRequest, CodexLogin, EditConfig
<1>5. CASE UNCHANGED vars
  BY <1>5 DEF vars
<1> QED
  BY <1>2, <1>3, <1>4, <1>5 DEF Next, Step, Request, Environment

LEMMA NextReturned ==
  ASSUME IInv, Returned, [Next]_vars, "user" \notin Faults
  PROVE  Returned'
<1> SUFFICES ASSUME pc' \in Restoring \ {"backAuth", "dropState"} PROVE Returned'
  BY DEF Returned, Restoring
<1> USE DEF GoTo, files, settings, Returned, Restoring
<1>1. ~Abort
  BY DEF Abort, End
<1>2. pc # "idle" => op.dir \in Dirs
  BY DEF IInv, TypeOK, OpAtStep, Op
<1>3. CASE RestoreAuth
  BY <1>1, <1>2, <1>3 DEF RestoreAuth, AttemptFile, Attempt, IInv, TypeOK
<1>4. CASE RestoreConfig
  BY <1>1, <1>2, <1>4 DEF RestoreConfig, AttemptFile, Attempt, IInv, TypeOK
<1>5. CASE RemoveMarker \/ RemoveLegacyMarker
  BY <1>1, <1>5 DEF RemoveMarker, RemoveLegacyMarker, Attempt
<1>6. CASE UNCHANGED <<auth, config, backups, op, pc>>
  BY <1>6
<1> QED
  BY <1>3, <1>4, <1>5, <1>6, RestoreGoesOn

\* ensure_backup and restore together: what restore leaves in auth.json and config.toml
\* is what the first switch found there, whatever happened in between.
THEOREM RestoreIsRoundTrip == ASSUME "user" \notin Faults PROVE Spec => CopiesReturn
<1>1. Init => Returned
  BY DEF Init, Returned, Restoring
<1>2. IInv /\ Returned /\ [Next]_vars => Returned'
  BY NextReturned
<1>3. ASSUME IInv, Returned, [Next]_vars, NEW d \in Dirs,
             backups[d] # NoFile, backups'[d] # backups[d]
      PROVE  /\ backups'[d] = NoFile
             /\ op.kind = "restore" /\ op.dir = d
             /\ auth'[d] = backups[d].auth /\ config'[d] = backups[d].config
  <2>1. MakeBackup \/ RemoveBackup
    BY <1>3 DEF Next, Step, Request, Environment, vars, files, settings, PatchConfig,
       WriteAuth, WriteConfig, WriteMarker, SaveState, PersistCodexHome, Verify, UndoAuth,
       UndoConfig, UndoMarker, UndoState, RestoreAuth, RestoreConfig, RemoveMarker,
       RemoveLegacyMarker, ClearState, StartSwitch, StartRestore, SetConfig,
       StatusRequest, CodexLogin, EditConfig, Crash
  <2>2. ~MakeBackup
    BY <1>3 DEF MakeBackup, IInv, TypeOK
  <2>3. RemoveBackup
    BY <2>1, <2>2
  <2>4. backups' = [backups EXCEPT ![op.dir] = NoFile] /\ UNCHANGED <<auth, config>>
    BY <1>3, <2>3 DEF RemoveBackup, Attempt, files
  <2>5. op.dir = d /\ backups'[d] = NoFile
    BY <1>3, <2>4 DEF IInv, TypeOK
  <2> QED
    BY <1>3, <2>3, <2>4, <2>5 DEF RemoveBackup, Returned, IInv, OpAtStep, Restoring
<1>4. IInv /\ Returned /\ [Next]_vars =>
        [\A d \in Dirs :
           backups[d] # NoFile /\ backups'[d] # backups[d] =>
             /\ backups'[d] = NoFile
             /\ op.kind = "restore" /\ op.dir = d
             /\ auth'[d] = backups[d].auth /\ config'[d] = backups[d].config]_vars
  BY <1>3
<1> QED
  BY <1>1, <1>2, <1>4, SpecInv, PTL DEF Spec, CopiesReturn

-----------------------------------------------------------------------------
\* Only switches run, every rollback can write, and nobody else interferes.
Undisturbed == Kinds = {"direct"} /\ Faults \subseteq {"write"} /\ ~Inherited

Written == {"config", "marker", "state", "home", "verify"}

Unfinished ==
  /\ \A d \in Dirs : legacy[d] = NoFile
  /\ op # NoOp => op.kind = "direct"
  /\ pc \in {"backup", "patch", "auth", "undoConfig", "undoMarker", "undoState"}
       => auth[op.dir] = prev.auth
  /\ pc \in {"backup", "patch", "auth", "config", "undoMarker", "undoState"}
       => config[op.dir] = prev.config
  /\ pc \in {"backup", "patch", "auth", "config", "marker", "undoState"}
       => marker[op.dir] = prev.marker
  /\ pc \in {"backup", "patch", "auth", "config", "marker", "state"} => state = prev.state
  /\ pc \in Writes \cup {"verify"} => text = Patched(prev.config, op)
  /\ pc \in Written => auth[op.dir] = AuthFor(op)
  /\ pc \in Written \ {"config"} => config[op.dir] = text

\* The mapping, by the names of the abstract specification.
Seen_profile == [d \in Dirs |-> Seen(d)]
Seen_selected == IF op = NoOp THEN state ELSE prev.state

LEMMA InitUnfinished == Undisturbed /\ Init => Unfinished
  BY DEF Undisturbed, Init, Fresh, SwitchedBefore, Unfinished, Writes, Written

\* Only the steps of a switch can be taken.
LEMMA SwitchStep ==
  ASSUME Undisturbed, IInv, Unfinished, Next
  PROVE  \/ /\ \/ MakeBackup \/ PatchConfig \/ WriteAuth \/ WriteConfig \/ WriteMarker
            \/ SaveState \/ PersistCodexHome \/ Verify
            \/ UndoAuth \/ UndoConfig \/ UndoMarker \/ UndoState
         \/ \E o \in Op : StartSwitch(o)
         \/ \E d \in Dirs : SetConfig(d)
<1>1. pc \notin Restoring
  BY DEF IInv, OpAtStep, Unfinished, Restoring
<1>2. ~RestoreAuth /\ ~RestoreConfig /\ ~RemoveMarker /\ ~RemoveLegacyMarker
      /\ ~RemoveBackup /\ ~ClearState
  BY <1>1 DEF RestoreAuth, RestoreConfig, RemoveMarker, RemoveLegacyMarker, RemoveBackup,
     ClearState, Restoring
<1>3. ~Crash /\ \A d \in Dirs : ~StartRestore(d) /\ ~CodexLogin(d) /\ ~EditConfig(d)
  BY DEF Undisturbed, Crash, StartRestore, CodexLogin, EditConfig
<1>4. \A d \in Dirs : ~StatusRequest(d)
  BY DEF Unfinished, StatusRequest
<1> QED
  BY <1>2, <1>3, <1>4 DEF Next, Step, Request, Environment

LEMMA MigrateNothing ==
  ASSUME IInv, Unfinished, NEW d \in Dirs, Migrate(d)
  PROVE  marker' = marker /\ legacy' = legacy
  BY DEF IInv, TypeOK, Unfinished, Migrate

LEMMA NextUnfinished ==
  ASSUME Undisturbed, IInv, Unfinished, [Next]_vars
  PROVE  Unfinished'
<1> USE DEF GoTo, files, settings, Writes, Written
<1>f. pc # "idle" => op \in Op /\ op.dir \in Dirs /\ op # NoOp
  BY DEF IInv, TypeOK, OpAtStep, Op
<1>e. ASSUME NEW outcome, End(outcome), legacy' = legacy PROVE Unfinished'
  BY <1>e DEF End, Unfinished
<1>a. ASSUME Abort, pc # "idle", legacy' = legacy PROVE Unfinished'
  BY <1>a, <1>f DEF Abort, Unfinished
<1>1. CASE MakeBackup
  BY <1>1, <1>e DEF MakeBackup, IInv, TypeOK, Unfinished
<1>2. CASE PatchConfig
  BY <1>2, <1>e, <1>f DEF PatchConfig, IInv, TypeOK, Unfinished
<1>3. CASE WriteAuth
  BY <1>3, <1>a, <1>f DEF WriteAuth, AttemptFile, Attempt, IInv, TypeOK, Unfinished
<1>4. CASE WriteConfig
  BY <1>4, <1>a, <1>f DEF WriteConfig, AttemptFile, Attempt, IInv, TypeOK, Unfinished
<1>5. CASE WriteMarker
  BY <1>5, <1>a, <1>f DEF WriteMarker, AttemptFile, Attempt, IInv, TypeOK, Unfinished
<1>6. CASE SaveState
  BY <1>6, <1>a DEF SaveState, Attempt, IInv, TypeOK, Unfinished
<1>7. CASE PersistCodexHome
  BY <1>7, <1>a DEF PersistCodexHome, Attempt, IInv, TypeOK, Unfinished
<1>8. CASE UndoAuth
  BY <1>8, <1>f DEF UndoAuth, Undo, Undisturbed, IInv, TypeOK, Unfinished
<1>9. CASE UndoConfig
  BY <1>9, <1>f DEF UndoConfig, Undo, Undisturbed, IInv, TypeOK, Unfinished
<1>10. CASE UndoMarker
  BY <1>10, <1>f DEF UndoMarker, Undo, Undisturbed, IInv, TypeOK, Unfinished
<1>11. CASE UndoState
  BY <1>11, <1>e DEF UndoState, IInv, TypeOK, Unfinished
<1>12. CASE Verify
  <2>1. op.dir \in Dirs /\ Migrate(op.dir) /\ pc = "verify"
    BY <1>12, <1>f DEF Verify
  <2>2. marker' = marker /\ legacy' = legacy
    BY <2>1, MigrateNothing
  <2>3. Abort \/ End("ok")
    BY <1>12 DEF Verify
  <2> QED
    BY <1>a, <1>e, <2>1, <2>2, <2>3
<1>13. ASSUME NEW o \in Op, StartSwitch(o) PROVE Unfinished'
  <2>1. o.dir \in Dirs
    BY DEF Op
  <2>2. marker' = marker /\ legacy' = legacy
    BY <1>13, <2>1, MigrateNothing DEF StartSwitch
  <2> QED
    BY <1>13, <2>1, <2>2 DEF StartSwitch, Unfinished, Undisturbed
<1>14. ASSUME NEW d \in Dirs, SetConfig(d) PROVE Unfinished'
  <2>1. marker' = marker /\ legacy' = legacy
    BY <1>14, MigrateNothing DEF SetConfig
  <2> QED
    BY <1>14, <2>1 DEF SetConfig, Unfinished
<1>15. CASE UNCHANGED vars
  BY <1>15 DEF vars, Unfinished
<1> QED
  BY <1>1, <1>2, <1>3, <1>4, <1>5, <1>6, <1>7, <1>8, <1>9, <1>10, <1>11, <1>12, <1>13,
     <1>14, <1>15, SwitchStep

-----------------------------------------------------------------------------
\* A step of a switch that does not end it changes nothing that is seen, nor does
\* the end of a switch that has put everything back.
LEMMA Invisible ==
  ASSUME IInv, op # NoOp, op.dir \in Dirs,
         \A d \in Dirs \ {op.dir} :
           auth'[d] = auth[d] /\ config'[d] = config[d] /\ marker'[d] = marker[d],
         \/ op' = op /\ prev' = prev
         \/ /\ op' = NoOp
            /\ auth'[op.dir] = prev.auth /\ config'[op.dir] = prev.config
            /\ marker'[op.dir] = prev.marker /\ state' = prev.state
  PROVE  UNCHANGED <<Seen_profile, Seen_selected>>
<1>1. \A d \in Dirs : Seen(d)' = Seen(d)
  BY DEF Seen, InFlight
<1> QED
  BY <1>1 DEF Seen_profile, Seen_selected

\* The end of a switch that passes verification is the abstract switch.
LEMMA Visible ==
  ASSUME Undisturbed, IInv, Unfinished, Verify, ~Abort
  PROVE  \E d \in Dirs, m \in {n \in Managed : <<n, ChatgptId[n]>> \in Matches} :
           /\ Seen(d).config \in Config \cup {NoFile}
           /\ Seen(d)' = [auth |-> AuthFor(DirectOf(m)),
                          config |-> Patched(Seen(d).config, [kind |-> "direct"]),
                          marker |-> MarkOf(DirectOf(m))]
           /\ \A e \in Dirs \ {d} : Seen(e)' = Seen(e)
           /\ Seen_selected' = [dir |-> d, mark |-> MarkOf(DirectOf(m))]
<1>0. op \in Op /\ op # NoOp /\ op.kind = "direct" /\ op.dir \in Dirs /\ op.who \in Managed
  BY DEF Verify, IInv, TypeOK, OpAtStep, Unfinished, Op
<1> PICK d \in Dirs : d = op.dir
  BY <1>0
<1> PICK m \in Managed : m = op.who
  BY <1>0
<1>2. Migrate(d) /\ IdentityConsistent(d)' /\ End("ok")
  BY <1>0 DEF Verify, Abort
<1>3. UNCHANGED <<auth, config, marker, state>> /\ op' = NoOp
  BY <1>2, MigrateNothing DEF Verify, End, settings
<1>4. /\ auth[d] = AuthFor(op) /\ config[d] = Patched(prev.config, op)
      /\ marker[d] = MarkOf(op) /\ state = [dir |-> d, mark |-> MarkOf(op)]
  BY DEF Verify, Unfinished, Written, Writes, IInv, Progress
<1>5. <<m, ChatgptId[m]>> \in Matches
  <2>1. MarkOf(op) # NoFile /\ MarkOf(op).mode = "direct" /\ MarkOf(op).id = m /\ m # NoId
    BY <1>0, SwitchWrites, NullAssumption
  <2>2. AuthFor(op) # NoFile /\ AuthFor(op).mode = "tokens" /\ AuthFor(op).id = ChatgptId[m]
    BY <1>0, SwitchWrites, NullAssumption DEF AuthFor
  <2>3. SelectedAccount(d)' = m
    BY <1>3, <1>4, <2>1 DEF SelectedAccount, Selected
  <2>4. ActualAccount(d)' = ChatgptId[m]
    BY <1>3, <1>4, <2>2 DEF ActualAccount
  <2> QED
    BY <1>2, <2>1, <2>3, <2>4 DEF IdentityConsistent
<1>6. /\ AuthFor(op) = AuthFor(DirectOf(m)) /\ MarkOf(op) = MarkOf(DirectOf(m))
      /\ Patched(prev.config, op) = Patched(prev.config, [kind |-> "direct"])
  BY <1>0 DEF AuthFor, MarkOf, Patched, DirectOf
<1>7. Seen(d)' = [auth |-> auth[d], config |-> config[d], marker |-> marker[d]]
  BY <1>3 DEF Seen, InFlight
<1>8. Seen(d).config = prev.config
  BY <1>0 DEF Seen, InFlight
<1>9. prev.config \in Config \cup {NoFile}
  BY DEF IInv, TypeOK
<1>10. \A e \in Dirs \ {d} : Seen(e)' = Seen(e)
  BY <1>0, <1>3 DEF Seen, InFlight
<1>11. Seen_selected' = [dir |-> d, mark |-> MarkOf(DirectOf(m))]
  BY <1>3, <1>4, <1>6 DEF Seen_selected
<1> QED
  BY <1>4, <1>5, <1>6, <1>7, <1>8, <1>9, <1>10, <1>11

\* Every step is an abstract switch or invisible.
LEMMA StepSeen ==
  ASSUME Undisturbed, IInv, IInv', Unfinished, [Next]_vars
  PROVE  \/ UNCHANGED <<Seen_profile, Seen_selected>>
         \/ Verify /\ ~Abort
<1> USE DEF GoTo, files, settings
<1> DEFINE Same == UNCHANGED <<Seen_profile, Seen_selected>>
<1>f. pc # "idle" => op \in Op /\ op.dir \in Dirs /\ op # NoOp
  BY DEF IInv, TypeOK, OpAtStep, Op
<1>a. Abort => (op' = op /\ prev' = prev) \/ op.kind # "direct"
  BY DEF Abort
<1>k. pc # "idle" => op.kind = "direct"
  BY <1>f DEF Unfinished
<1>1. CASE MakeBackup
  BY <1>1, <1>f, <1>a, <1>k, Invisible DEF MakeBackup, End, Unfinished, IInv, TypeOK
<1>2. CASE PatchConfig
  BY <1>2, <1>f, <1>a, <1>k, Invisible DEF PatchConfig, End, Unfinished, IInv, TypeOK
<1>3. CASE WriteAuth
  BY <1>3, <1>f, <1>a, <1>k, Invisible DEF WriteAuth, AttemptFile, Attempt, IInv, TypeOK
<1>4. CASE WriteConfig
  BY <1>4, <1>f, <1>a, <1>k, Invisible DEF WriteConfig, AttemptFile, Attempt, IInv, TypeOK
<1>5. CASE WriteMarker
  BY <1>5, <1>f, <1>a, <1>k, Invisible DEF WriteMarker, AttemptFile, Attempt, IInv, TypeOK
<1>6. CASE SaveState
  BY <1>6, <1>f, <1>a, <1>k, Invisible DEF SaveState, Attempt, IInv, TypeOK
<1>7. CASE PersistCodexHome
  BY <1>7, <1>f, <1>a, <1>k, Invisible DEF PersistCodexHome, Attempt, IInv, TypeOK
<1>8. CASE UndoAuth
  BY <1>8, <1>f, <1>a, <1>k, Invisible DEF UndoAuth, Undo, IInv, TypeOK
<1>9. CASE UndoConfig
  BY <1>9, <1>f, <1>a, <1>k, Invisible DEF UndoConfig, Undo, IInv, TypeOK
<1>10. CASE UndoMarker
  BY <1>10, <1>f, <1>a, <1>k, Invisible DEF UndoMarker, Undo, IInv, TypeOK
<1>11. CASE UndoState
  BY <1>11, <1>f, <1>a, <1>k, Invisible DEF UndoState, End, Unfinished, Undisturbed, IInv, TypeOK
<1>12. CASE Verify /\ Abort
  <2>1. marker' = marker
    BY <1>12, <1>f, MigrateNothing DEF Verify
  <2> QED
    BY <1>12, <1>f, <1>a, <1>k, <2>1, Invisible DEF Verify
<1>13. ASSUME NEW o \in Op, StartSwitch(o) PROVE Same
  <2>1. o.dir \in Dirs /\ op = NoOp /\ op' = o /\ o # NoOp
    BY <1>13, NullAssumption DEF StartSwitch, Op, IInv, OpAtStep
  <2>2. marker' = marker
    BY <1>13, <2>1, MigrateNothing DEF StartSwitch
  <2>3. /\ prev'.auth = auth[o.dir] /\ prev'.config = config[o.dir]
        /\ prev'.marker = marker[o.dir] /\ prev'.state = state
    BY <1>13, <2>2 DEF StartSwitch
  <2>4. \A d \in Dirs : Seen(d)' = Seen(d)
    BY <1>13, <2>1, <2>2, <2>3 DEF StartSwitch, Seen, InFlight
  <2> QED
    BY <2>1, <2>3, <2>4 DEF Seen_profile, Seen_selected
<1>14. ASSUME NEW d \in Dirs, SetConfig(d) PROVE Same
  <2>1. marker' = marker
    BY <1>14, MigrateNothing DEF SetConfig
  <2> QED
    BY <1>14, <2>1 DEF SetConfig, Seen_profile, Seen_selected, Seen, InFlight
<1>15. CASE UNCHANGED vars
  BY <1>15 DEF vars, Seen_profile, Seen_selected, Seen, InFlight
<1> QED
  BY <1>1, <1>2, <1>3, <1>4, <1>5, <1>6, <1>7, <1>8, <1>9, <1>10, <1>11, <1>12, <1>13,
     <1>14, <1>15, SwitchStep

\* With only switches asked for, no crash, no foreign edit and a rollback that can
\* write, apply_direct_account is all or nothing for credentials, configuration,
\* marker and settings, and takes effect only for an account auth.json will confirm.
THEOREM SwitchImplementsAtomic == ASSUME Undisturbed PROVE Spec => SwitchIsAtomic
<1>1. Init => Atomic!Init
  <2>1. Init => state = NoFile
    BY DEF Undisturbed, Init, Fresh, SwitchedBefore
  <2> QED
    BY <2>1 DEF Init, Atomic!Init, Seen, InFlight
<1>2. ASSUME IInv, IInv', Unfinished, [Next]_vars
      PROVE  [Atomic!Next]_(Atomic!vars)
  <2>1. CASE UNCHANGED <<Seen_profile, Seen_selected>>
    BY <2>1 DEF Atomic!vars, Seen_profile, Seen_selected
  <2>2. CASE Verify /\ ~Abort
    <3>1. PICK d \in Dirs, m \in {n \in Managed : <<n, ChatgptId[n]>> \in Matches} :
            /\ Seen(d).config \in Config \cup {NoFile}
            /\ Seen(d)' = [auth |-> AuthFor(DirectOf(m)),
                           config |-> Patched(Seen(d).config, [kind |-> "direct"]),
                           marker |-> MarkOf(DirectOf(m))]
            /\ \A e \in Dirs \ {d} : Seen(e)' = Seen(e)
            /\ Seen_selected' = [dir |-> d, mark |-> MarkOf(DirectOf(m))]
      BY <1>2, <2>2, Visible
    <3>2. Atomic!Switch(d, m)
      BY <3>1 DEF Atomic!Switch, Seen_selected
    <3> QED
      BY <3>2 DEF Atomic!Next
  <2> QED
    BY <1>2, <2>1, <2>2, StepSeen
<1>3. Init => Unfinished
  BY InitUnfinished
<1>4. IInv /\ Unfinished /\ [Next]_vars => Unfinished'
  BY NextUnfinished
<1> QED
  BY <1>1, <1>2, <1>3, <1>4, SpecInv, PTL DEF Spec, SwitchIsAtomic, Atomic!Spec
=============================================================================
