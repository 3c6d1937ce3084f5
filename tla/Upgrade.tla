------------------------------- MODULE Upgrade -------------------------------
(***************************************************************************)
(* The upgrade contract (upgrade.rs) beside the main contract it pauses in *)
(* an emergency.  It has no initialization entry point: its admin and its  *)
(* main contract are in its storage when it is deployed, as in the tests.  *)
(***************************************************************************)
EXTENDS MainControl

CONSTANTS
  VersionChoices,  \* versions that callers propose
  UpgradeAddr,     \* the upgrade contract
  NoInfo           \* DataKey::UpgradeInfo is absent

Version == [major : Nat, minor : Nat, patch : Nat]

ASSUME UpgradeAssumption ==
  /\ VersionChoices \subseteq Version
  /\ UpgradeAddr \notin Account \union {MultiSigAddr, TimelockAddr, AdminAddr, NoOne}
  /\ NoInfo \notin Version

VARIABLES
  upgrade_roles,    \* DataKey::Admin, MultiSigContract, TimelockContract
  version,          \* DataKey::ContractVersion
  upgrade_status,   \* DataKey::UpgradeStatus
  upgrade_info,     \* DataKey::UpgradeInfo: the version to upgrade to
  emergency_paused  \* DataKey::EmergencyPause

upgrade_vars ==
  <<upgrade_roles, version, upgrade_status, upgrade_info, emergency_paused>>

FirstVersion == [major |-> 1, minor |-> 0, patch |-> 0]

UpgradeStatus == {"NotStarted", "InProgress", "Completed", "Failed"}

------------------------------------------------------------------------------

ValidVersionUpgrade(old, new) ==
  /\ new.major >= old.major
  /\ new.major = old.major => new.minor >= old.minor
  /\ new.major = old.major /\ new.minor = old.minor => new.patch > old.patch
  /\ new.major <= old.major + 1

UpgradeSetRole(caller, frame, role) ==
  /\ RequireAdmin(upgrade_roles, caller, frame)
  /\ upgrade_roles' =
       IF role = "multisig" THEN [upgrade_roles EXCEPT !.multisig = MultiSigAddr]
                            ELSE [upgrade_roles EXCEPT !.timelock = TimelockAddr]
  /\ UNCHANGED <<version, upgrade_status, upgrade_info, emergency_paused, main>>

InitiateUpgrade(caller, frame, new) ==
  /\ RequireAdmin(upgrade_roles, caller, frame)
  /\ ~emergency_paused
  /\ ValidVersionUpgrade(version, new)
  /\ upgrade_status # "InProgress"
  /\ upgrade_status' = "InProgress"
  /\ upgrade_info' = new
  /\ UNCHANGED <<upgrade_roles, version, emergency_paused, main>>

MayFinish == upgrade_status = "InProgress"

\* The emergency flag is not consulted.
CompleteUpgrade(caller, frame) ==
  /\ RequireAdmin(upgrade_roles, caller, frame)
  /\ MayFinish
  /\ upgrade_info # NoInfo
  /\ version' = upgrade_info
  /\ upgrade_status' = "Completed"
  /\ UNCHANGED <<upgrade_roles, upgrade_info, emergency_paused, main>>

FailUpgrade(caller, frame) ==
  /\ RequireAdmin(upgrade_roles, caller, frame)
  /\ MayFinish
  /\ upgrade_status' = "Failed"
  /\ UNCHANGED <<upgrade_roles, version, upgrade_info, emergency_paused, main>>

MayReset == upgrade_status # "InProgress"

ResetUpgradeStatus(caller, frame) ==
  /\ RequireAdmin(upgrade_roles, caller, frame)
  /\ MayReset
  /\ upgrade_info' = NoInfo
  /\ upgrade_status' = "NotStarted"
  /\ UNCHANGED <<upgrade_roles, version, emergency_paused, main>>

\* emergency_pause and emergency_unpause: the flag changes, and the main
\* contract is asked to follow in a call whose failure is ignored.
SetEmergencyPause(caller, frame, paused) ==
  /\ RequireAdmin(upgrade_roles, caller, frame)
  /\ emergency_paused # paused
  /\ emergency_paused' = paused
  /\ TrySetPaused(caller, CallFrom(UpgradeAddr, frame), paused)
  /\ UNCHANGED <<upgrade_roles, version, upgrade_status, upgrade_info>>

------------------------------------------------------------------------------

\* Deployed: the storage holds an admin, and nothing else is set.
UpgradeInit ==
  /\ \E admin \in Account : upgrade_roles = [NoRoles EXCEPT !.admin = admin]
  /\ version = FirstVersion
  /\ upgrade_status = "NotStarted"
  /\ upgrade_info = NoInfo
  /\ emergency_paused = FALSE

\* The upgrade calls a proposal of the multi-signature contract can name.
ProposableCall(caller, frame) ==
  \/ \E new \in VersionChoices : InitiateUpgrade(caller, frame, new)
  \/ CompleteUpgrade(caller, frame)
  \/ FailUpgrade(caller, frame)

UpgradeCall(frame) ==
  \E caller \in frame :
    \/ ProposableCall(caller, frame)
    \/ \E role \in {"multisig", "timelock"} : UpgradeSetRole(caller, frame, role)
    \/ ResetUpgradeStatus(caller, frame)
    \/ \E paused \in BOOLEAN : SetEmergencyPause(caller, frame, paused)

\* Transactions signed by some accounts that call an administrative entry point.
SignedCall ==
  \E signatures \in SUBSET Account \ {{}} :
    \/ ControlCall(signatures) /\ UNCHANGED upgrade_vars
    \/ UpgradeCall(signatures) /\ UNCHANGED contract_admin

\* The multi-signature contract executes a proposal: execute_proposal makes the
\* call itself; only the proposable kinds exist.
MultiSigCall ==
  \E signatures \in SUBSET Account :
    LET frame == CallFrom(MultiSigAddr, signatures) IN
    \/ /\ \/ \E paused \in BOOLEAN : MainSetPaused(MultiSigAddr, frame, paused)
          \/ \E new \in signatures : MainTransferAdmin(MultiSigAddr, new, frame)
       /\ UNCHANGED <<contract_admin, upgrade_vars>>
    \/ ProposableCall(MultiSigAddr, frame) /\ UNCHANGED contract_admin

------------------------------------------------------------------------------

\* A transfer through the AdminContract never leaves the two contracts with
\* different admins: it changes both or neither (transfer_admin in admin.rs).
AdminsMoveTogether ==
  [][contract_admin' # contract_admin /\ contract_admin # NoOne =>
       main'.admin = contract_admin']_<<control_vars, upgrade_vars>>

==============================================================================
