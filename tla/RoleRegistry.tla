------------------------------ MODULE RoleRegistry ------------------------------
(***************************************************************************)
(* access/RoleRegistry.sol: the protocol's roles, the authority level of    *)
(* each and the rule which role can grant which; and the hierarchy of role  *)
(* admins that AccessManager's constructor sets up beside it.               *)
(***************************************************************************)
EXTENDS Naturals

AdministeredRoles ==
    {"KEEPER", "LIQUIDATOR", "ORACLE_UPDATER", "MARKET_MAKER", "FEE_MANAGER",
     "BASKET_MANAGER", "EVENT_SETTLER", "TRADING_OPERATOR", "VAULT_OPERATOR", "RISK_MANAGER"}

AllRoles == {"OWNER", "ADMIN", "GUARDIAN", "PAUSER", "UPGRADER"} \cup AdministeredRoles

getRoleAuthorityLevel(role) ==
    CASE role = "OWNER" -> 100
      [] role = "ADMIN" -> 80
      [] role = "GUARDIAN" -> 70
      [] role = "UPGRADER" -> 60
      [] role = "RISK_MANAGER" -> 50
      [] role \in {"TRADING_OPERATOR", "VAULT_OPERATOR", "FEE_MANAGER"} -> 40
      [] role \in {"BASKET_MANAGER", "MARKET_MAKER", "EVENT_SETTLER"} -> 30
      [] role = "PAUSER" -> 25
      [] role = "ORACLE_UPDATER" -> 20
      [] role = "KEEPER" -> 15
      [] role = "LIQUIDATOR" -> 10
      [] OTHER -> 0

canGrantRole(grantor, grantee) ==
    IF grantee = "OWNER" THEN grantor = "OWNER"
    ELSE getRoleAuthorityLevel(grantor) > getRoleAuthorityLevel(grantee)

(* The role admins after the constructor.                                   *)
InitialRoleAdmin(role) ==
    IF role \in AdministeredRoles THEN "ADMIN"
    ELSE IF role = "PAUSER" THEN "GUARDIAN" ELSE "OWNER"

=============================================================================
