SPECIFICATION OwnerSpec
CONSTANTS
    alice = alice
    bob = bob
    Accounts = {alice, bob}
    NoAddress = NoAddress
    FirstOwner = alice
    Roles = {"OWNER", "ADMIN", "KEEPER"}
    AdminChanges <- MCAdminChanges
    MaxBatch = 2
    Addresses = {vault0, vault1}
    FirstAddress = vault0
    Slots = {"treasury"}
    MaxFunds = 1
VIEW WithoutSettings
INVARIANTS
    RolesConsistent
    OwnershipRecovers
PROPERTIES
    GrantsFollowTheChain
    HandoverMovesRole
    OwnerlessIsFrozen
CHECK_DEADLOCK FALSE
