------------------------------ MODULE MCProtocolOwner ------------------------------
(* Small instances of ProtocolOwner: two accounts, a chain of three roles,  *)
(* and an owner who may put the last of them under itself.                  *)
EXTENDS ProtocolOwner

CONSTANTS alice, bob

(* No guard reads the pause flag or the addresses.                          *)
WithoutSettings == <<accessVars, emergencyWithdrawalEnabled, heldETH, heldTokens>>

MCAdminChanges == { <<"KEEPER", "KEEPER">> }

=============================================================================
