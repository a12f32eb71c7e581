------------------------------ MODULE AccessManager ------------------------------
(***************************************************************************)
(* access/AccessManager.sol: who holds which role, with a list of roles per *)
(* account and a list of members per role kept beside the membership map,   *)
(* an admin role per role, and an owner that is handed over in two steps    *)
(* and is not the same thing as holding OWNER_ROLE.                         *)
(***************************************************************************)
EXTENDS RoleRegistry, Sequences, FiniteSets, Functions, SequencesExt

CONSTANTS
    Accounts,           \* accounts that call and are granted roles
    NoAddress,          \* address(0)
    FirstOwner,         \* the constructor's _owner
    Roles,              \* the roles of this instance
    AdminChanges,       \* arguments of setRoleAdmin, as <<role, newAdminRole>>
    MaxBatch            \* bound: elements of a batch call

ASSUME OwnerAssumption ==
    /\ FirstOwner \in Accounts /\ NoAddress \notin Accounts
    /\ IsFiniteSet(Accounts)
ASSUME RolesAssumption ==
    /\ Roles \subseteq AllRoles /\ "OWNER" \in Roles
    /\ \A role \in Roles : InitialRoleAdmin(role) \in Roles
    /\ AdminChanges \subseteq Roles \X Roles
ASSUME BatchAssumption == MaxBatch \in Nat

VARIABLES
    roles,              \* [role -> its holders]
    accountRoles,       \* [account -> list of its roles]
    roleMembers,        \* [role -> list of its holders]
    roleAdmins,         \* [role -> the role that grants and revokes it]
    owner, pendingOwner

membershipVars == <<roles, accountRoles, roleMembers>>
accessVars == <<membershipVars, roleAdmins, owner, pendingOwner>>

hasRole(role, account) == account \in roles[role]

-----------------------------------------------------------------------------
(* What a call works on; ok turns FALSE when it reverts.                    *)
Membership == [roles |-> roles, accountRoles |-> accountRoles,
               roleMembers |-> roleMembers, ok |-> TRUE]

Reverted(b) == [b EXCEPT !.ok = FALSE]

Commit(b) ==
    /\ b.ok
    /\ roles' = b.roles
    /\ accountRoles' = b.accountRoles
    /\ roleMembers' = b.roleMembers

(* _grantRole *)
Granting(b, role, account) ==
    IF account \in b.roles[role] THEN Reverted(b)
    ELSE [b EXCEPT !.roles[role] = @ \cup {account},
                   !.accountRoles[account] = Append(@, role),
                   !.roleMembers[role] = Append(@, account)]

(* Slip: the last entry is copied over the match and stays where it was.    *)
MutKeepsLast(list, e) == [i \in DOMAIN list |-> IF list[i] = e THEN Last(list) ELSE list[i]]

(* Swap with the last entry and pop, at the first match.                    *)
SwappedOut(list, e) ==
    LET matches == { i \in DOMAIN list : list[i] = e }
        first   == CHOOSE i \in matches : \A j \in matches : i <= j
    IN  IF matches = {} THEN list ELSE Front([list EXCEPT ![first] = Last(list)])

(* Slip: revoking what is not held reverts, as granting what is held does.  *)
MutRevokeReverts(b, role, account) ==
    IF account \notin b.roles[role] THEN Reverted(b)
    ELSE [b EXCEPT !.roles[role] = @ \ {account},
                   !.accountRoles[account] = SwappedOut(@, role),
                   !.roleMembers[role] = SwappedOut(@, account)]

(* _revokeRole: nothing for an account without the role.                    *)
Revoking(b, role, account) ==
    IF account \notin b.roles[role] THEN b
    ELSE [b EXCEPT !.roles[role] = @ \ {account},
                   !.accountRoles[account] = SwappedOut(@, role),
                   !.roleMembers[role] = SwappedOut(@, account)]

(* Slip: any account with a role may manage roles.                          *)
MutAnyRole(b, c, role) == \E held \in Roles : c \in b.roles[held]

Administers(b, c, role) == c \in b.roles[roleAdmins[role]]

-----------------------------------------------------------------------------
AccessInit ==
    /\ roles = [role \in Roles |-> IF role = "OWNER" THEN {FirstOwner} ELSE {}]
    /\ accountRoles = [a \in Accounts |-> IF a = FirstOwner THEN <<"OWNER">> ELSE << >>]
    /\ roleMembers = [role \in Roles |-> IF role = "OWNER" THEN <<FirstOwner>> ELSE << >>]
    /\ roleAdmins = [role \in Roles |-> InitialRoleAdmin(role)]
    /\ owner = FirstOwner
    /\ pendingOwner = NoAddress

grantRole(c, role, account) ==
    /\ Administers(Membership, c, role)
    /\ Commit(Granting(Membership, role, account))
    /\ UNCHANGED <<roleAdmins, owner, pendingOwner>>

revokeRole(c, role, account) ==
    /\ Administers(Membership, c, role)
    /\ c # account
    /\ Commit(Revoking(Membership, role, account))
    /\ UNCHANGED <<roleAdmins, owner, pendingOwner>>

renounceRole(c, role) ==
    /\ Commit(Revoking(Membership, role, c))
    /\ UNCHANGED <<roleAdmins, owner, pendingOwner>>

(* The loop of a batch call: each element works on what those before left.  *)
InTurn(Turn(_, _), entries) ==
    LET after[k \in 0..Len(entries)] ==
            IF k = 0 THEN Membership ELSE Turn(after[k - 1], entries[k])
    IN  after[Len(entries)]

(* The caller's authority is looked up again for every element of a batch,  *)
(* after the elements before it; one refusal takes the whole call back.     *)
batchGrantRoles(c, entries) ==
    LET Turn(b, e) == IF b.ok /\ Administers(b, c, e[1])
                      THEN Granting(b, e[1], e[2]) ELSE Reverted(b)
    IN  /\ Commit(InTurn(Turn, entries))
        /\ UNCHANGED <<roleAdmins, owner, pendingOwner>>

batchRevokeRoles(c, entries) ==
    LET Turn(b, e) == IF b.ok /\ Administers(b, c, e[1]) /\ c # e[2]
                      THEN Revoking(b, e[1], e[2]) ELSE Reverted(b)
    IN  /\ Commit(InTurn(Turn, entries))
        /\ UNCHANGED <<roleAdmins, owner, pendingOwner>>

setRoleAdmin(c, role, newAdminRole) ==
    /\ c = owner
    /\ roleAdmins' = [roleAdmins EXCEPT ![role] = newAdminRole]
    /\ UNCHANGED <<membershipVars, owner, pendingOwner>>

(* A second proposal replaces the first.                                    *)
transferOwnership(c, newOwner) ==
    /\ c = owner
    /\ newOwner # NoAddress
    /\ pendingOwner' = newOwner
    /\ UNCHANGED <<membershipVars, roleAdmins, owner>>

(* Slip: the new owner is granted the role before the old one loses it.     *)
MutGrantsFirst(oldOwner, newOwner) ==
    Revoking(Granting(Membership, "OWNER", newOwner), "OWNER", oldOwner)

(* Revoke, then grant: for an account that transfers to itself the order    *)
(* matters.  A new owner that holds OWNER_ROLE already makes it revert.     *)
HandedOver(oldOwner, newOwner) ==
    Granting(Revoking(Membership, "OWNER", oldOwner), "OWNER", newOwner)

acceptOwnership(c) ==
    /\ c = pendingOwner
    /\ pendingOwner # NoAddress
    /\ Commit(HandedOver(owner, pendingOwner))
    /\ owner' = pendingOwner
    /\ pendingOwner' = NoAddress
    /\ UNCHANGED roleAdmins

Batches == UNION { [1..n -> Roles \X Accounts] : n \in 2..MaxBatch }

AccessStep ==
    \/ \E c, a \in Accounts, role \in Roles : grantRole(c, role, a)
    \/ \E c, a \in Accounts, role \in Roles : revokeRole(c, role, a)
    \/ \E c \in Accounts, role \in Roles : renounceRole(c, role)
    \/ \E c \in Accounts, entries \in Batches : batchGrantRoles(c, entries)
    \/ \E c \in Accounts, entries \in Batches : batchRevokeRoles(c, entries)
    \/ \E c \in Accounts, change \in AdminChanges : setRoleAdmin(c, change[1], change[2])
    \/ \E c \in Accounts, a \in Accounts \cup {NoAddress} : transferOwnership(c, a)
    \/ \E c \in Accounts : acceptOwnership(c)

-----------------------------------------------------------------------------
(* PROPERTIES                                                               *)

(* The lists never outgrow the roles and the accounts they are made of.     *)
AccessTypeOK ==
    /\ roles \in [Roles -> SUBSET Accounts]
    /\ accountRoles \in [Accounts -> BoundedSeq(Roles, Cardinality(Roles))]
    /\ roleMembers \in [Roles -> BoundedSeq(Accounts, Cardinality(Accounts))]
    /\ roleAdmins \in [Roles -> Roles]
    /\ owner \in Accounts
    /\ pendingOwner \in Accounts \cup {NoAddress}

(* The three records of membership tell the same story: each account's list *)
(* and each role's list name exactly the pairs of the map, once each, after *)
(* any mix of grants, swap-and-pop removals, batches and hand-overs.        *)
ListsMatchRoles ==
    /\ \A a \in Accounts :
          /\ IsInjective(accountRoles[a])
          /\ ToSet(accountRoles[a]) = { role \in Roles : hasRole(role, a) }
    /\ \A role \in Roles :
          /\ IsInjective(roleMembers[role])
          /\ ToSet(roleMembers[role]) = roles[role]

(* The admin of a role, that role's admin, and so on.                       *)
AdminChain(role) ==
    { r \in Roles : \A S \in SUBSET Roles :
        roleAdmins[role] \in S /\ (\A s \in S : roleAdmins[s] \in S) => r \in S }

(* Nobody gains a role from nowhere: where an account gains one, somebody   *)
(* held a role of its admin chain before the call (in a batch the nearer    *)
(* ones may be granted on the way), or the account accepted ownership.      *)
(* A chain that lost its last holder comes back through the owner only.     *)
GrantsFollowTheChain ==
    [][ \A role \in Roles, a \in Accounts :
          a \in roles'[role] \ roles[role] =>
            \/ role = "OWNER" /\ a = pendingOwner /\ owner' = a
            \/ \E r \in AdminChain(role) : roles[r] # {} ]_accessVars

(* A hand-over moves the role with the owner: the new owner holds           *)
(* OWNER_ROLE after it and the old one, if another account, does not,       *)
(* whichever of them held, renounced or lost the role before.               *)
HandoverMovesRole ==
    [][ pendingOwner # NoAddress /\ pendingOwner' = NoAddress =>
          /\ owner' = pendingOwner
          /\ owner' \in roles'["OWNER"]
          /\ owner # owner' => owner \notin roles'["OWNER"] ]_accessVars

(* Nobody can be locked out for good: with OWNER_ROLE held by nobody, the   *)
(* owner's next proposal can be accepted, and the role is back.             *)
OwnershipRecovers ==
    roles["OWNER"] = {} /\ pendingOwner # NoAddress => HandedOver(owner, pendingOwner).ok

=============================================================================
