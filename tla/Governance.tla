------------------------------ MODULE Governance ------------------------------
(***************************************************************************)
(* The timelock composed with the contracts it governs: execute_action     *)
(* runs perform_action on the main and the upgrade contract in the same    *)
(* transaction, while accounts and the multi-signature contract keep       *)
(* calling those contracts directly.  The two oracle actions call a        *)
(* contract outside this composition and are left to Oracle.               *)
(***************************************************************************)
EXTENDS Timelock, Upgrade

\* ContractVersion of an InitiateUpgrade.
ASSUME GovernanceAssumption ==
  \A action \in Action : action.kind = "InitiateUpgrade" => action.version \in Version

governance_vars == <<tl_vars, control_vars, upgrade_vars>>

\* The frame in which the timelock makes a call: authorize_as_current_contract
\* names the call itself and no call below it.
TimelockFrame == {TimelockAddr}

\* Mutant: a call the main contract refuses counts as performed.
PerformPauseAnyway(paused) ==
  /\ TrySetPaused(TimelockAddr, TimelockFrame, paused)
  /\ UNCHANGED upgrade_vars

PerformPause(paused) ==
  /\ MainSetPaused(TimelockAddr, TimelockFrame, paused)
  /\ UNCHANGED upgrade_vars

\* perform_action, in a transaction in which no call traps.
PerformAction(action) ==
  /\ \/ action.kind = "PauseMain" /\ PerformPause(TRUE)
     \/ action.kind = "UnpauseMain" /\ PerformPause(FALSE)
     \/ action.kind = "SetMainMultisig" /\ MainSetMultisig(TimelockAddr, TimelockFrame)
          /\ UNCHANGED upgrade_vars
     \/ action.kind = "InitiateUpgrade"
          /\ InitiateUpgrade(TimelockAddr, TimelockFrame, action.version)
     \/ action.kind = "CompleteUpgrade" /\ CompleteUpgrade(TimelockAddr, TimelockFrame)
     \/ action.kind = "FailUpgrade" /\ FailUpgrade(TimelockAddr, TimelockFrame)
     \/ action.kind = "EmergencyPause" /\ SetEmergencyPause(TimelockAddr, TimelockFrame, TRUE)
     \/ action.kind = "EmergencyUnpause" /\ SetEmergencyPause(TimelockAddr, TimelockFrame, FALSE)
  /\ UNCHANGED contract_admin

\* execute_action as a whole: a target that refuses undoes it.
ExecuteAndPerform(executor, id) ==
  /\ ExecuteAction(executor, id)
  /\ PerformAction(operations[id].action)

GovernanceInit == TimelockInit /\ ControlInit /\ UpgradeInit

GovernanceNext ==
  \/ /\ \/ \E c \in ConfigChoices : TimelockConfigure(c)
        \/ \E a \in Address, action \in Action, delay \in DelayChoices :
             ProposeAction(a, action, delay)
        \/ \E a \in Address, id \in OperationIds : ApproveAction(a, id) \/ CancelAction(a, id)
        \/ TimelockTick
     /\ UNCHANGED <<control_vars, upgrade_vars>>
  \/ \E a \in Address, id \in OperationIds : ExecuteAndPerform(a, id)
  \/ SignedCall /\ UNCHANGED tl_vars
  \/ MultiSigCall /\ UNCHANGED tl_vars

GovernanceSpec == GovernanceInit /\ [][GovernanceNext]_governance_vars

------------------------------------------------------------------------------

Performed(id) == operations[id].status # "Executed" /\ operations'[id].status = "Executed"

\* An operation becomes Executed only in a step that has its effect: a pause
\* pauses a running contract, an upgrade step moves the upgrade, also when the
\* target's state changed between the proposal and the execution
\* (execute_action marks the operation after perform_action).
ExecutedMeansPerformed ==
  [][\A id \in OperationIds : Performed(id) =>
       LET kind == operations[id].action.kind IN
       /\ kind = "PauseMain" => ~main.paused /\ main'.paused
       /\ kind = "UnpauseMain" => main.paused /\ ~main'.paused
       /\ kind = "InitiateUpgrade" => upgrade_info' = operations[id].action.version
       /\ kind = "CompleteUpgrade" => version' # version
       /\ kind = "EmergencyPause" => ~emergency_paused /\ emergency_paused'
       /\ kind = "EmergencyUnpause" => emergency_paused /\ ~emergency_paused']_governance_vars

\* An emergency pause pauses the main contract too when there is one that obeys
\* the same admin and the same timelock (the comment in emergency_pause: "Also
\* pause the main contract if available").
EmergencyPausesMain ==
  [][(/\ ~emergency_paused /\ emergency_paused'
      /\ main.admin = upgrade_roles.admin
      /\ main.timelock = upgrade_roles.timelock) => main'.paused]_governance_vars

==============================================================================
