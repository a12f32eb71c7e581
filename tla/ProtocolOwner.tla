------------------------------ MODULE ProtocolOwner ------------------------------
(***************************************************************************)
(* access/ProtocolOwner.sol over the AccessManager it was built with: the   *)
(* protocol's addresses, its pause flag and the recovery of stuck funds,    *)
(* for whoever holds OWNER_ROLE at the moment of the call.                  *)
(***************************************************************************)
EXTENDS AccessManager

CONSTANTS
    Addresses,          \* arguments of the address setters and of the constructor
    FirstAddress,       \* the constructor's address in each slot
    Slots,              \* the address fields of this instance
    MaxFunds            \* bound: units of Ether, and of a token, stuck here

ASSUME AddressesAssumption ==
    /\ FirstAddress \in Addresses /\ NoAddress \notin Addresses
    /\ Slots \subseteq {"treasury", "insuranceVault", "feeRecipient"}
ASSUME FundsAssumption == MaxFunds \in Nat

VARIABLES
    addresses,          \* [slot -> address]
    protocolPaused, emergencyWithdrawalEnabled,
    heldETH, heldTokens \* what the contract holds

controlVars == <<addresses, protocolPaused, emergencyWithdrawalEnabled, heldETH, heldTokens>>
ownerVars == <<accessVars, controlVars>>

(* Slip: the account named owner is asked for, not the role.                *)
MutAsksForOwner(c) == c = owner

onlyOwner(c) == hasRole("OWNER", c)

OwnerInit ==
    /\ AccessInit
    /\ addresses = [slot \in Slots |-> FirstAddress]
    /\ protocolPaused = FALSE
    /\ emergencyWithdrawalEnabled = FALSE
    /\ heldETH = MaxFunds
    /\ heldTokens = MaxFunds

(* setTreasury, setInsuranceVault, setFeeRecipient                          *)
setAddress(c, slot, newAddress) ==
    /\ onlyOwner(c)
    /\ newAddress # NoAddress
    /\ addresses' = [addresses EXCEPT ![slot] = newAddress]
    /\ UNCHANGED <<accessVars, protocolPaused, emergencyWithdrawalEnabled, heldETH, heldTokens>>

toggleProtocolPause(c) ==
    /\ onlyOwner(c)
    /\ protocolPaused' = ~protocolPaused
    /\ UNCHANGED <<accessVars, addresses, emergencyWithdrawalEnabled, heldETH, heldTokens>>

(* enableEmergencyWithdrawal, disableEmergencyWithdrawal                    *)
setEmergencyWithdrawal(c, enabled) ==
    /\ onlyOwner(c)
    /\ emergencyWithdrawalEnabled' = enabled
    /\ UNCHANGED <<accessVars, addresses, protocolPaused, heldETH, heldTokens>>

(* The call to the token is judged by its success alone: a token that       *)
(* answers FALSE instead of reverting moves nothing and is not noticed.     *)
recoverFunds(c, to, amount) ==
    /\ onlyOwner(c)
    /\ emergencyWithdrawalEnabled
    /\ to # NoAddress
    /\ \/ amount <= heldTokens /\ heldTokens' = heldTokens - amount
       \/ UNCHANGED heldTokens
    /\ UNCHANGED <<accessVars, addresses, protocolPaused, emergencyWithdrawalEnabled, heldETH>>

recoverETH(c, to, amount) ==
    /\ onlyOwner(c)
    /\ emergencyWithdrawalEnabled
    /\ to # NoAddress
    /\ amount <= heldETH
    /\ heldETH' = heldETH - amount
    /\ UNCHANGED <<accessVars, addresses, protocolPaused, emergencyWithdrawalEnabled, heldTokens>>

OwnerStep ==
    \/ \E c \in Accounts, slot \in Slots, a \in Addresses \cup {NoAddress} : setAddress(c, slot, a)
    \/ \E c \in Accounts : toggleProtocolPause(c)
    \/ \E c \in Accounts, enabled \in BOOLEAN : setEmergencyWithdrawal(c, enabled)
    \/ \E c \in Accounts, to \in Addresses \cup {NoAddress}, amount \in 1..MaxFunds : recoverFunds(c, to, amount)
    \/ \E c \in Accounts, to \in Addresses \cup {NoAddress}, amount \in 1..MaxFunds : recoverETH(c, to, amount)

OwnerNext ==
    \/ AccessStep /\ UNCHANGED controlVars
    \/ OwnerStep

OwnerSpec == OwnerInit /\ [][OwnerNext]_ownerVars

-----------------------------------------------------------------------------
(* PROPERTIES                                                               *)

(* Types of the addresses, switches and funds, over those of AccessManager. *)
OwnerTypeOK ==
    /\ AccessTypeOK
    /\ addresses \in [Slots -> Addresses]
    /\ protocolPaused \in BOOLEAN
    /\ emergencyWithdrawalEnabled \in BOOLEAN
    /\ heldETH \in 0..MaxFunds
    /\ heldTokens \in 0..MaxFunds

(* The three records of membership, the role's set and the two lists kept   *)
(* by swap-and-pop, hold the same pairs after any grants, removals,         *)
(* batches and hand-overs.                                                  *)
RolesConsistent == OwnerTypeOK /\ ListsMatchRoles

(* The two notions of owner part here: ProtocolOwner obeys the role.  Once  *)
(* its last holder renounced or lost it, nothing of ProtocolOwner moves,    *)
(* the account still named owner included, until a hand-over is accepted:   *)
(* a pause stays on and recovery stays as it was.                           *)
OwnerlessIsFrozen == [][ roles["OWNER"] = {} => UNCHANGED controlVars ]_ownerVars

=============================================================================
