----------------------------- MODULE MCGovernance -----------------------------
(***************************************************************************)
(* A small instance of Governance for TLC.                                 *)
(***************************************************************************)
EXTENDS Governance, TLC

CONSTANTS alice, bob, ms, tl, ac, up, none, no_info

V(major, minor, patch) == [major |-> major, minor |-> minor, patch |-> patch]

\* A minor and a major step forward, and a jump of two.
SomeVersions == {V(1, 1, 0), V(2, 0, 0), V(4, 0, 0)}

OneConfig ==
  {[signers |-> {alice}, threshold |-> 1, min_delay |-> 1, max_delay |-> 1, grace |-> 1]}

Do(kind) == [kind |-> kind]

EveryAction ==
  {Do(kind) : kind \in {"PauseMain", "UnpauseMain", "SetMainMultisig", "CompleteUpgrade",
                        "FailUpgrade", "EmergencyPause", "EmergencyUnpause"}}
    \union {[kind |-> "InitiateUpgrade", version |-> V(2, 0, 0)]}

==============================================================================
