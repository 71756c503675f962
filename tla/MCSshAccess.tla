----------------------------- MODULE MCSshAccess -----------------------------
(* Instances of SshAccess for TLC: the policies the panel offers, and two   *)
(* that validateSshAccessPolicy refuses for some accounts.                  *)
EXTENDS SshAccess, TLC

KeyOnly     == [pubkey |-> TRUE, password |-> FALSE, root |-> "no"]
KeyPassword == [pubkey |-> TRUE, password |-> TRUE, root |-> "keys"]
RootKeys    == [pubkey |-> TRUE, password |-> FALSE, root |-> "keys"]
NoKeys      == [pubkey |-> FALSE, password |-> TRUE, root |-> "no"]

MCDesired == {KeyOnly, KeyPassword, RootKeys, NoKeys}
MCBases == {[pubkey |-> TRUE, password |-> TRUE, root |-> "yes"], KeyOnly}

RequestSymmetry == Permutations(Requests)
=============================================================================
