--------------------------- MODULE MCCodexProfile ---------------------------
(***************************************************************************)
(* Model-checking instances of CodexProfile, with a history variable to    *)
(* say of the end of an operation what it found at its beginning and       *)
(* whether it was alone.  acc1's ChatGPT id is part of its managed id;     *)
(* acc2's was learnt from its token later and is not, so a switch to acc2  *)
(* never passes verification.                                              *)
(***************************************************************************)
EXTENDS CodexProfileAtomic, TLC

CONSTANTS d1, d2, acc1, acc2, k1, x1, x2, t1, bad

VARIABLE before  \* the home and legacy markers an operation found, and whether it is alone

MCChatgptId == acc1 :> x1 @@ acc2 :> x2
MCMatches == {<<acc1, x1>>}

MCInit == Init /\ before = NoOp

MCNext ==
  /\ Next
  /\ before' = IF pc' = "idle" THEN NoOp
               ELSE IF pc = "idle" THEN [home |-> home, legacy |-> legacy, alone |-> TRUE]
               ELSE [before EXCEPT !.alone = @ /\ pc' # pc]

MCSpec == MCInit /\ [][MCNext]_<<vars, before>>

\* ARCHITECTURE.md, "success or rollback": a switch that comes to its end, whatever was
\* done to the directory before and whichever of its writes failed, has done AtomicSwitch's
\* one step or nothing -- provided the rollback could write and neither Codex nor the user
\* nor a migration of the marker touched the profile meanwhile.
SwitchAllOrNothing ==
  [][pc # "idle" /\ pc' = "idle" /\ op.kind = "direct"
       /\ before.alone /\ result' \in {"ok", "err", "rolledBack"}
     => [Atomic!Next]_(Atomic!vars)]_<<vars, before>>

\* codexProfile/restore: a restore that reports success leaves no legacy marker and no
\* managed state of its directory, nor, if the directory came without a legacy marker
\* for a status request to migrate meanwhile, any account selected in it.
RestoreLeavesNoTrace ==
  [][\A d \in Dirs :
       pc = "dropState" /\ op.dir = d /\ result' = "ok" =>
         /\ legacy'[d] = NoFile
         /\ state' = NoFile \/ state'.dir # d
         /\ before.legacy[d] = NoFile => Selected(d)' = NoFile]_<<vars, before>>

\* ARCHITECTURE.md has a switch end in "success or rollback" after it has persisted the
\* Codex home and compared the accounts: when the switch reports that it was rolled back,
\* the persisted home is the one it found.  Without it the next request that names no
\* directory looks at that of the failed switch.
RollbackRestoresHome ==
  [][pc # "idle" /\ pc' = "idle" /\ result' = "rolledBack" => home' = before.home]_<<vars, before>>
=============================================================================
