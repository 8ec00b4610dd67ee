---------------------------- MODULE AtomicSwitch ----------------------------
(***************************************************************************)
(* What an account switch promises (ARCHITECTURE.md, "account switch":     *)
(* stage auth, config and marker, verify, "success or rollback"): seen     *)
(* from outside, the profile of a Codex home changes to the selected       *)
(* account in one step or not at all, and only to an account that          *)
(* auth.json will identify.                                                *)
(***************************************************************************)
CONSTANTS
  Dirs,
  Verifiable,  \* managed accounts whose id auth.json will confirm
  Credentials, \* account -> its credentials
  Record,      \* account -> the record that it is selected
  Unmanaged,   \* config.toml -> the same without the managed provider
  NoMark       \* nothing is selected

VARIABLES
  profile,   \* directory -> its auth.json, config.toml and marker
  selected   \* the settings' record of the managed profile

vars == <<profile, selected>>

Init ==
  /\ \A d \in Dirs : profile[d].marker = NoMark
  /\ selected = NoMark

Switch(d, m) ==
  /\ profile' = [profile EXCEPT ![d] =
       [auth |-> Credentials[m], config |-> Unmanaged[@.config], marker |-> Record[m]]]
  /\ selected' = [dir |-> d, mark |-> Record[m]]

Next == \E d \in Dirs, m \in Verifiable : Switch(d, m)

Spec == Init /\ [][Next]_vars
=============================================================================
