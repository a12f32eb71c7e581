SPECIFICATION Spec
CONSTANTS
    admin = admin
    safe = safe
    Accounts = {admin, safe}
    Admin = admin
    Multisig = safe
    ModuleIds = {"POSITION_MANAGER", "ADL_ENGINE"}
    InitialDelay = 2
    Delays = {0, 1}
    MaxTime = 4
    RePausable = {"ADL_ENGINE"}
INVARIANTS
    ScheduledWhilePaused
    
PROPERTIES
    
    ImplementsGates
CHECK_DEADLOCK FALSE
