------------------------- MODULE CodexProfileAtomic -------------------------
(***************************************************************************)
(* apply_direct_account implements AtomicSwitch: while a switch is under   *)
(* way, and while it is rolled back, the profile counts as what the switch *)
(* found.  The promise is about switches alone (Kinds = {"direct"}), in a  *)
(* directory without a legacy marker, whose rollback can write, which no   *)
(* crash cuts short and during which nobody else edits the files.          *)
(***************************************************************************)
EXTENDS CodexProfile

InFlight(d) == op # NoOp /\ op.dir = d

Seen(d) ==
  IF InFlight(d) THEN [auth |-> prev.auth, config |-> prev.config, marker |-> prev.marker]
                  ELSE [auth |-> auth[d], config |-> config[d], marker |-> marker[d]]

DirectOf(m) == [kind |-> "direct", dir |-> CHOOSE d \in Dirs : TRUE, who |-> m]

Atomic == INSTANCE AtomicSwitch WITH
  Verifiable <- {m \in Managed : <<m, ChatgptId[m]>> \in Matches},
  Credentials <- [m \in Managed |-> AuthFor(DirectOf(m))],
  Record <- [m \in Managed |-> MarkOf(DirectOf(m))],
  Unmanaged <- [c \in Config \cup {NoFile} |-> Patched(c, [kind |-> "direct"])],
  NoMark <- NoFile,
  profile <- [d \in Dirs |-> Seen(d)],
  selected <- IF op = NoOp THEN state ELSE prev.state

\* Whatever write fails, before or after its effect, and whichever account fails
\* the verification, a switch changes credentials, configuration, marker and
\* settings together or changes none of them.
SwitchIsAtomic == Atomic!Spec
=============================================================================
