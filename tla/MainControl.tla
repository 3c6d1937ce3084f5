----------------------------- MODULE MainControl -----------------------------
(***************************************************************************)
(* Who may do what to the main contract: the administrative entry points   *)
(* of ChainLogisticsContract (contract.rs) and of the AdminContract in     *)
(* front of it (admin.rs).  A call runs in a frame: the set of addresses   *)
(* whose require_auth succeeds in it, that is the accounts that signed the *)
(* transaction and the contract that made the call.                        *)
(***************************************************************************)
EXTENDS Integers, FiniteSets

CONSTANTS
  Account,        \* accounts that sign transactions
  MultiSigAddr,   \* the multi-signature contract
  TimelockAddr,   \* the timelock contract
  AdminAddr,      \* the admin contract
  NoOne           \* an address that is not set

ASSUME MainControlAssumption ==
  /\ Account \intersect {MultiSigAddr, TimelockAddr, AdminAddr, NoOne} = {}
  /\ NoOne \notin {MultiSigAddr, TimelockAddr, AdminAddr}

VARIABLES
  main,           \* the main contract's roles and pause flag
  contract_admin  \* the AdminContract's own DataKey::Admin

control_vars == <<main, contract_admin>>

Roles == [admin    : Account \union {MultiSigAddr, TimelockAddr, NoOne},
          multisig : {MultiSigAddr, NoOne},
          timelock : {TimelockAddr, NoOne},
          paused   : BOOLEAN]

NoRoles == [admin |-> NoOne, multisig |-> NoOne, timelock |-> NoOne, paused |-> FALSE]

\* The frame of a call that a contract makes: signatures reach down the tree of
\* calls, the authority of a contract only to the calls it makes itself.
CallFrom(contract, frame) == (frame \intersect Account) \union {contract}

\* The admin, or else the configured multi-signature or timelock contract.
RequireAdmin(roles, caller, frame) ==
  /\ roles.admin # NoOne
  /\ caller \in {roles.admin, roles.multisig, roles.timelock} \ {NoOne}
  /\ caller \in frame

------------------------------------------------------------------------------

\* init of the main contract, signed by its first admin.
MainInit(admin, frame) ==
  /\ main.admin = NoOne
  /\ admin \in frame
  /\ main' = [main EXCEPT !.admin = admin, !.paused = FALSE]

\* pause and unpause: refused when they would change nothing.
MaySetPaused(caller, frame, paused) ==
  /\ RequireAdmin(main, caller, frame)
  /\ main.paused # paused

MainSetPaused(caller, frame, paused) ==
  /\ MaySetPaused(caller, frame, paused)
  /\ main' = [main EXCEPT !.paused = paused]

\* try_pause and try_unpause whose result nobody looks at.
TrySetPaused(caller, frame, paused) ==
  IF MaySetPaused(caller, frame, paused)
  THEN MainSetPaused(caller, frame, paused)
  ELSE UNCHANGED main

MainTransferAdmin(current, new, frame) ==
  /\ RequireAdmin(main, current, frame)
  /\ current # new
  /\ new \in frame
  /\ main' = [main EXCEPT !.admin = new]

MainSetMultisig(caller, frame) ==
  /\ RequireAdmin(main, caller, frame)
  /\ main' = [main EXCEPT !.multisig = MultiSigAddr]

MainSetTimelock(caller, frame) ==
  /\ RequireAdmin(main, caller, frame)
  /\ main' = [main EXCEPT !.timelock = TimelockAddr]

------------------------------------------------------------------------------

ContractInit(admin, frame) ==
  /\ contract_admin = NoOne
  /\ admin \in frame
  /\ contract_admin' = admin
  /\ UNCHANGED main

RequireContractAdmin(caller, frame) ==
  contract_admin # NoOne /\ caller \in frame /\ caller = contract_admin

\* pause and unpause through the AdminContract: an error of the main contract
\* is handed on, so the call as a whole fails with it.
ContractSetPaused(caller, frame, paused) ==
  /\ RequireContractAdmin(caller, frame)
  /\ MainSetPaused(caller, CallFrom(AdminAddr, frame), paused)
  /\ UNCHANGED contract_admin

\* Mutant: the main contract's answer is ignored, as emergency_pause does.
ContractTransferAlone(current, new, frame) ==
  /\ RequireContractAdmin(current, frame)
  /\ new \in frame
  /\ contract_admin' = new
  /\ \/ MainTransferAdmin(current, new, CallFrom(AdminAddr, frame))
     \/ UNCHANGED main

\* The admin contract's transfer changes the main contract's admin with it.
ContractTransferAdmin(current, new, frame) ==
  /\ RequireContractAdmin(current, frame)
  /\ new \in frame
  /\ contract_admin' = new
  /\ MainTransferAdmin(current, new, CallFrom(AdminAddr, frame))

------------------------------------------------------------------------------

ControlInit == main = NoRoles /\ contract_admin = NoOne

\* Every administrative call on the two contracts that can be made in a frame.
ControlCall(frame) ==
  \E caller \in frame :
    \/ MainInit(caller, frame) /\ caller \in Account /\ UNCHANGED contract_admin
    \/ /\ \/ \E paused \in BOOLEAN : MainSetPaused(caller, frame, paused)
          \/ \E new \in frame \intersect Account : MainTransferAdmin(caller, new, frame)
          \/ MainSetMultisig(caller, frame)
          \/ MainSetTimelock(caller, frame)
       /\ UNCHANGED contract_admin
    \/ ContractInit(caller, frame) /\ caller \in Account
    \/ \E paused \in BOOLEAN : ContractSetPaused(caller, frame, paused)
    \/ \E new \in frame : ContractTransferAdmin(caller, new, frame)

==============================================================================
