---------------------------- MODULE EmergencyPauser ----------------------------
(***************************************************************************)
(* security/EmergencyPauser.sol: protocol-wide and per-module pauses, with  *)
(* three levels of authority and a timelock on the ordinary way out of a    *)
(* module pause.  A call is made by some account at the current block time; *)
(* time passes between calls.                                               *)
(***************************************************************************)
EXTENDS Integers, FiniteSets

CONSTANTS
    Accounts, Admin, Multisig,  \* callers; the constructor's two addresses
    ModuleIds,                  \* modules somebody pauses
    InitialDelay,               \* unpauseDelay set by the constructor (24 hours)
    Delays,                     \* arguments of setUnpauseDelay
    MaxTime,                    \* bound on block.timestamp
    RePausable                  \* modules that guardians pause again while paused

ASSUME CallersAssumption == Admin \in Accounts /\ Multisig \in Accounts
ASSUME TimesAssumption ==
    InitialDelay \in Nat /\ Delays \subseteq Nat /\ MaxTime \in Nat
ASSUME RePausableAssumption == RePausable \subseteq ModuleIds

VARIABLES
    now, protocolPaused, modulePauseStates, authorities,
    unpauseDelay, scheduledUnpauses

pauserVars == <<now, protocolPaused, modulePauseStates, authorities,
                unpauseDelay, scheduledUnpauses>>

(* AuthorityLevel, in the order onlyAuthority compares.                     *)
NONE == 0
GUARDIAN == 1
ADMIN == 2
MULTISIG == 3
AuthorityLevels == NONE..MULTISIG

(* PauseState without the fields that are only kept for display.            *)
PauseState == [isPaused : BOOLEAN, pausedAt : Nat, canUnpause : BOOLEAN]

NeverPaused == [isPaused |-> FALSE, pausedAt |-> 0, canUnpause |-> FALSE]

TypeOK ==
    /\ now \in Nat \ {0}
    /\ protocolPaused \in BOOLEAN
    /\ modulePauseStates \in [ModuleIds -> PauseState]
    /\ authorities \in [Accounts -> AuthorityLevels]
    /\ unpauseDelay \in Nat
    /\ scheduledUnpauses \in [ModuleIds -> Nat]

IsPaused(m) == modulePauseStates[m].isPaused
CanUnpause(m) == modulePauseStates[m].canUnpause

onlyAuthority(c, level) == authorities[c] >= level

-----------------------------------------------------------------------------
Init ==
    /\ now = 1
    /\ protocolPaused = FALSE
    /\ modulePauseStates = [m \in ModuleIds |-> NeverPaused]
    /\ authorities = [a \in Accounts |->
          IF a = Multisig THEN MULTISIG ELSE IF a = Admin THEN ADMIN ELSE NONE]
    /\ unpauseDelay = InitialDelay
    /\ scheduledUnpauses = [m \in ModuleIds |-> 0]

(* Slip: the protocol-wide pause also marks every module paused.            *)
MutPausesModulesToo(c) ==
    /\ onlyAuthority(c, MULTISIG)
    /\ protocolPaused' = TRUE
    /\ modulePauseStates' = [m \in ModuleIds |-> [modulePauseStates[m] EXCEPT !.isPaused = TRUE]]
    /\ UNCHANGED <<now, authorities, unpauseDelay, scheduledUnpauses>>

pauseProtocol(c) ==
    /\ onlyAuthority(c, MULTISIG)
    /\ protocolPaused' = TRUE
    /\ UNCHANGED <<now, modulePauseStates, authorities, unpauseDelay, scheduledUnpauses>>

(* unpauseProtocol and emergencyUnpauseProtocol have the same body.         *)
unpauseProtocol(c) ==
    /\ onlyAuthority(c, MULTISIG)
    /\ protocolPaused' = FALSE
    /\ UNCHANGED <<now, modulePauseStates, authorities, unpauseDelay, scheduledUnpauses>>

(* A pending scheduledUnpauses entry is not touched.                        *)
pauseModule(c, m, canUnpause) ==
    /\ onlyAuthority(c, GUARDIAN)
    /\ m \in RePausable \/ ~IsPaused(m)
    /\ modulePauseStates' = [modulePauseStates EXCEPT ![m] =
          [isPaused |-> TRUE, pausedAt |-> now, canUnpause |-> canUnpause]]
    /\ UNCHANGED <<now, protocolPaused, authorities, unpauseDelay, scheduledUnpauses>>

(* Slip: canUnpause is not asked.                                           *)
MutSchedulesForbidden(c, m) ==
    /\ onlyAuthority(c, ADMIN)
    /\ IsPaused(m)
    /\ scheduledUnpauses' = [scheduledUnpauses EXCEPT ![m] = now + unpauseDelay]
    /\ UNCHANGED <<now, protocolPaused, modulePauseStates, authorities, unpauseDelay>>

scheduleUnpause(c, m) ==
    /\ onlyAuthority(c, ADMIN)
    /\ IsPaused(m)
    /\ CanUnpause(m)
    /\ scheduledUnpauses' = [scheduledUnpauses EXCEPT ![m] = now + unpauseDelay]
    /\ UNCHANGED <<now, protocolPaused, modulePauseStates, authorities, unpauseDelay>>

(* Slip: the schedule survives the pause it was made for.                   *)
MutKeepsSchedule(m) ==
    /\ modulePauseStates' = [modulePauseStates EXCEPT ![m].isPaused = FALSE]
    /\ UNCHANGED <<now, protocolPaused, authorities, unpauseDelay, scheduledUnpauses>>

(* Lifting a module pause drops its schedule; canUnpause stays as it was.   *)
LiftPause(m) ==
    /\ modulePauseStates' = [modulePauseStates EXCEPT ![m].isPaused = FALSE]
    /\ scheduledUnpauses' = [scheduledUnpauses EXCEPT ![m] = 0]
    /\ UNCHANGED <<now, protocolPaused, authorities, unpauseDelay>>

TimelockElapsed(m) == scheduledUnpauses[m] # 0 /\ now >= scheduledUnpauses[m]

(* canUnpause is not looked at here.                                        *)
executeUnpause(c, m) ==
    /\ onlyAuthority(c, ADMIN)
    /\ TimelockElapsed(m)
    /\ LiftPause(m)

(* Slip: canUnpause is not asked here either.                               *)
MutUnpausesForbidden(c, m) == onlyAuthority(c, MULTISIG) /\ LiftPause(m)

emergencyUnpause(c, m) ==
    /\ onlyAuthority(c, MULTISIG)
    /\ CanUnpause(m)
    /\ LiftPause(m)

(* grantAuthority; revokeAuthority is the grant of NONE.                    *)
grantAuthority(c, account, level) ==
    /\ onlyAuthority(c, MULTISIG)
    /\ authorities' = [authorities EXCEPT ![account] = level]
    /\ UNCHANGED <<now, protocolPaused, modulePauseStates, unpauseDelay, scheduledUnpauses>>

setUnpauseDelay(c, newDelay) ==
    /\ onlyAuthority(c, MULTISIG)
    /\ unpauseDelay' = newDelay
    /\ UNCHANGED <<now, protocolPaused, modulePauseStates, authorities, scheduledUnpauses>>

(* The next block.                                                          *)
Tick ==
    /\ now < MaxTime
    /\ now' = now + 1
    /\ UNCHANGED <<protocolPaused, modulePauseStates, authorities, unpauseDelay,
                   scheduledUnpauses>>

Next ==
    \/ Tick
    \/ \E c \in Accounts : pauseProtocol(c) \/ unpauseProtocol(c)
    \/ \E c \in Accounts, m \in ModuleIds, can \in BOOLEAN : pauseModule(c, m, can)
    \/ \E c \in Accounts, m \in ModuleIds : scheduleUnpause(c, m)
    \/ \E c \in Accounts, m \in ModuleIds : executeUnpause(c, m)
    \/ \E c \in Accounts, m \in ModuleIds : emergencyUnpause(c, m)
    \/ \E c, a \in Accounts, level \in AuthorityLevels : grantAuthority(c, a, level)
    \/ \E c \in Accounts, d \in Delays : setUnpauseDelay(c, d)

Spec == Init /\ [][Next]_pauserVars

-----------------------------------------------------------------------------
(* PROPERTIES                                                               *)

(* A schedule exists only for a module that is paused, so an execution that *)
(* passes its timelock always ends a pause and none is left armed after an  *)
(* emergency lift.                                                          *)
ScheduledWhilePaused ==
    \A m \in ModuleIds : scheduledUnpauses[m] # 0 => IsPaused(m)

(* For a module that nobody pauses twice, every schedule was made for the   *)
(* pause in force and only for one that allows it.                          *)
PausedOnce == ModuleIds \ RePausable

ScheduleIsForThisPause ==
    \A m \in PausedOnce :
        scheduledUnpauses[m] # 0 =>
            /\ CanUnpause(m)
            /\ modulePauseStates[m].pausedAt <= scheduledUnpauses[m]

(* canUnpause: "Whether module can be unpaused (false = requires upgrade)": *)
(* a module paused without that permission stays paused.  It holds for the  *)
(* modules nobody pauses twice, whatever is done to the others, and fails   *)
(* for those that a guardian may.                                           *)
PermanentPauseHolds ==
    [][ \A m \in PausedOnce : IsPaused(m) /\ ~CanUnpause(m) => IsPaused(m)' ]_pauserVars

(* The pauser, seen through its two answers, is the pause half of the gates *)
(* the trading contracts were modelled against.                             *)
Gates == INSTANCE ProtocolGates WITH
            Markets <- {}, FlippableGates <- {"protocol"} \cup ModuleIds,
            pausedModules <- { m \in ModuleIds : IsPaused(m) },
            globalHalt <- FALSE, trippedCircuits <- {}

ImplementsGates == Gates!GatesInit /\ [][Gates!GateStep]_(Gates!gateVars)

=============================================================================
