------------------------- MODULE EmergencyPauserProofs -------------------------
(***************************************************************************)
(* Proofs about EmergencyPauser: for any accounts, modules, delays and      *)
(* block times.                                                             *)
(***************************************************************************)
EXTENDS EmergencyPauser, TLAPS

(* What one call can be, by name.                                           *)
LEMMA StepCases ==
    ASSUME Next
    PROVE  \/ Tick
           \/ \E c \in Accounts : pauseProtocol(c) \/ unpauseProtocol(c)
           \/ \E c \in Accounts, m \in ModuleIds, can \in BOOLEAN : pauseModule(c, m, can)
           \/ \E c \in Accounts, m \in ModuleIds : scheduleUnpause(c, m)
           \/ \E m \in ModuleIds : LiftPause(m) /\ UNCHANGED now
                                   /\ (TimelockElapsed(m) \/ CanUnpause(m))
           \/ \E c, a \in Accounts, level \in AuthorityLevels : grantAuthority(c, a, level)
           \/ \E c \in Accounts, d \in Delays : setUnpauseDelay(c, d)
  BY DEF Next, executeUnpause, emergencyUnpause, LiftPause

(* Every variable keeps its type: schedules and delays never go below zero, *)
(* pause records stay records, authority stays within its four levels.      *)
THEOREM TypeCorrect == Spec => []TypeOK
<1>1. ASSUME Init PROVE TypeOK
  <2>1. NeverPaused \in PauseState
    BY DEF NeverPaused, PauseState
  <2>2. modulePauseStates \in [ModuleIds -> PauseState]
    BY <1>1, <2>1 DEF Init
  <2>3. authorities \in [Accounts -> AuthorityLevels]
    BY <1>1 DEF Init, AuthorityLevels, NONE, ADMIN, MULTISIG
  <2>4. protocolPaused \in BOOLEAN
    BY <1>1, Zenon DEF Init
  <2>5. now \in Nat \ {0} /\ unpauseDelay \in Nat
    BY <1>1, TimesAssumption DEF Init
  <2>6. scheduledUnpauses \in [ModuleIds -> Nat]
    BY <1>1 DEF Init
  <2> QED  BY <2>2, <2>3, <2>4, <2>5, <2>6 DEF TypeOK
<1>2. ASSUME TypeOK, [Next]_pauserVars
      PROVE  TypeOK'
  <2>1. CASE UNCHANGED pauserVars
    BY <2>1, <1>2 DEF pauserVars, TypeOK
  <2>2. CASE Tick
    BY <2>2, <1>2 DEF Tick, TypeOK
  <2>3. CASE \E c \in Accounts : pauseProtocol(c) \/ unpauseProtocol(c)
    BY <2>3, <1>2 DEF pauseProtocol, unpauseProtocol, TypeOK
  <2>4. ASSUME NEW c \in Accounts, NEW m \in ModuleIds, NEW can \in BOOLEAN,
               pauseModule(c, m, can)
        PROVE  TypeOK'
    <3>1. [isPaused |-> TRUE, pausedAt |-> now, canUnpause |-> can] \in PauseState
      BY <1>2 DEF TypeOK, PauseState
    <3> QED  BY <2>4, <3>1, <1>2 DEF pauseModule, TypeOK
  <2>5. ASSUME NEW c \in Accounts, NEW m \in ModuleIds, scheduleUnpause(c, m)
        PROVE  TypeOK'
    BY <2>5, <1>2 DEF scheduleUnpause, TypeOK
  <2>6. ASSUME NEW m \in ModuleIds, LiftPause(m), UNCHANGED now
        PROVE  TypeOK'
    <3>1. [modulePauseStates[m] EXCEPT !.isPaused = FALSE] \in PauseState
      BY <1>2 DEF TypeOK, PauseState
    <3> QED  BY <2>6, <3>1, <1>2 DEF LiftPause, TypeOK
  <2>7. CASE \E c, a \in Accounts, level \in AuthorityLevels : grantAuthority(c, a, level)
    BY <2>7, <1>2 DEF grantAuthority, TypeOK
  <2>8. CASE \E c \in Accounts, d \in Delays : setUnpauseDelay(c, d)
    BY <2>8, <1>2, TimesAssumption DEF setUnpauseDelay, TypeOK
  <2> QED  BY <2>1, <2>2, <2>3, <2>4, <2>5, <2>6, <2>7, <2>8, <1>2, StepCases
<1> QED  BY <1>1, <1>2, PTL DEF Spec

(* One step never leaves a schedule on a module that is not paused.         *)
LEMMA ScheduledStep ==
    ASSUME TypeOK, ScheduledWhilePaused, [Next]_pauserVars
    PROVE  ScheduledWhilePaused'
<1>1. CASE UNCHANGED pauserVars
  BY <1>1 DEF pauserVars, ScheduledWhilePaused, IsPaused
<1>2. CASE Tick \/ \E c \in Accounts : pauseProtocol(c) \/ unpauseProtocol(c)
  BY <1>2 DEF Tick, pauseProtocol, unpauseProtocol, ScheduledWhilePaused, IsPaused
<1>3. CASE \E c \in Accounts, m \in ModuleIds, can \in BOOLEAN : pauseModule(c, m, can)
  BY <1>3 DEF pauseModule, ScheduledWhilePaused, IsPaused, TypeOK, PauseState
<1>4. CASE \E c \in Accounts, m \in ModuleIds : scheduleUnpause(c, m)
  BY <1>4 DEF scheduleUnpause, ScheduledWhilePaused, IsPaused, TypeOK
<1>5. CASE \E m \in ModuleIds : LiftPause(m)
  BY <1>5 DEF LiftPause, ScheduledWhilePaused, IsPaused, TypeOK, PauseState
<1>6. CASE \/ \E c, a \in Accounts, level \in AuthorityLevels : grantAuthority(c, a, level)
           \/ \E c \in Accounts, d \in Delays : setUnpauseDelay(c, d)
  BY <1>6 DEF grantAuthority, setUnpauseDelay, ScheduledWhilePaused, IsPaused
<1> QED  BY <1>1, <1>2, <1>3, <1>4, <1>5, <1>6, StepCases

(* A schedule exists only for a paused module: scheduleUnpause asks for the *)
(* pause, and both ways of lifting one delete the schedule.                 *)
THEOREM SchedulesArePaused == Spec => []ScheduledWhilePaused
<1>1. Init => ScheduledWhilePaused
  BY DEF Init, ScheduledWhilePaused
<1> QED  BY <1>1, ScheduledStep, TypeCorrect, PTL DEF Spec

-----------------------------------------------------------------------------
(* The modules that nobody pauses while they are paused already.            *)

(* A schedule was made for the pause in force, which began before it, and   *)
(* that pause allows to be lifted.                                          *)
PausesBegan == \A m \in ModuleIds : modulePauseStates[m].pausedAt <= now

ScheduleInv ==
    /\ TypeOK
    /\ ScheduledWhilePaused
    /\ ScheduleIsForThisPause
    /\ PausesBegan

LEMMA ScheduleInvInductive == Spec => []ScheduleInv
<1>1. ASSUME Init PROVE ScheduledWhilePaused /\ ScheduleIsForThisPause /\ PausesBegan
  BY <1>1 DEF Init, ScheduledWhilePaused, ScheduleIsForThisPause, PausesBegan, NeverPaused, PausedOnce
<1>2. ASSUME ScheduleInv, TypeOK', ScheduledWhilePaused', [Next]_pauserVars
      PROVE  ScheduleIsForThisPause' /\ PausesBegan'
  <2> USE <1>2 DEF ScheduleInv, ScheduleIsForThisPause, PausesBegan, CanUnpause, PausedOnce
  <2>1. CASE UNCHANGED pauserVars
    BY <2>1 DEF pauserVars
  <2>2. CASE Tick
    BY <2>2 DEF Tick, TypeOK, PauseState
  <2>3. CASE \E c \in Accounts : pauseProtocol(c) \/ unpauseProtocol(c)
    BY <2>3 DEF pauseProtocol, unpauseProtocol
  <2>4. ASSUME NEW c \in Accounts, NEW m \in ModuleIds, NEW can \in BOOLEAN,
               pauseModule(c, m, can)
        PROVE  ScheduleIsForThisPause' /\ PausesBegan'
    <3>1. m \in PausedOnce => scheduledUnpauses[m] = 0
      BY <2>4 DEF pauseModule, ScheduledWhilePaused, PausedOnce
    <3>2. modulePauseStates'[m].pausedAt = now
      BY <2>4 DEF pauseModule, TypeOK
    <3>3. \A n \in ModuleIds \ {m} : modulePauseStates'[n] = modulePauseStates[n]
      BY <2>4 DEF pauseModule, TypeOK
    <3> QED  BY <2>4, <3>1, <3>2, <3>3 DEF pauseModule, TypeOK, PausedOnce
  <2>5. ASSUME NEW c \in Accounts, NEW m \in ModuleIds, scheduleUnpause(c, m)
        PROVE  ScheduleIsForThisPause' /\ PausesBegan'
    BY <2>5 DEF scheduleUnpause, TypeOK, PauseState
  <2>6. ASSUME NEW m \in ModuleIds, LiftPause(m), UNCHANGED now
        PROVE  ScheduleIsForThisPause' /\ PausesBegan'
    <3>1. \A n \in ModuleIds : /\ modulePauseStates'[n].pausedAt = modulePauseStates[n].pausedAt
                               /\ modulePauseStates'[n].canUnpause = modulePauseStates[n].canUnpause
      BY <2>6 DEF LiftPause, TypeOK, PauseState
    <3> QED  BY <2>6, <3>1 DEF LiftPause, TypeOK
  <2>7. CASE \/ \E c, a \in Accounts, level \in AuthorityLevels : grantAuthority(c, a, level)
             \/ \E c \in Accounts, d \in Delays : setUnpauseDelay(c, d)
    BY <2>7 DEF grantAuthority, setUnpauseDelay
  <2> QED  BY <2>1, <2>2, <2>3, <2>4, <2>5, <2>6, <2>7, StepCases
<1> QED  BY <1>1, <1>2, TypeCorrect, SchedulesArePaused, PTL DEF Spec, ScheduleInv

(* For a module nobody pauses twice, what is scheduled is the end of the  *)
(* pause in force, one that canUnpause allows to end.                       *)
THEOREM SchedulesMatchPauses == Spec => []ScheduleIsForThisPause
  BY ScheduleInvInductive, PTL DEF ScheduleInv

(* Under the same discipline a pause made without canUnpause is never       *)
(* lifted: emergencyUnpause asks for the permission, and executeUnpause,    *)
(* which does not, is only ever armed with it.                              *)
THEOREM PermanentPausesHold == Spec => PermanentPauseHolds
<1>1. ASSUME ScheduleInv, [Next]_pauserVars, NEW m \in PausedOnce, IsPaused(m), ~CanUnpause(m)
      PROVE  IsPaused(m)'
  <2>1. ~TimelockElapsed(m)
    BY <1>1 DEF ScheduleInv, ScheduleIsForThisPause, TimelockElapsed, PausedOnce
  <2>2. \A n \in ModuleIds : LiftPause(n) /\ (TimelockElapsed(n) \/ CanUnpause(n)) => n # m
    BY <1>1, <2>1
  <2>3. \A n \in ModuleIds : LiftPause(n) /\ n # m => modulePauseStates'[m] = modulePauseStates[m]
    BY <1>1 DEF LiftPause, ScheduleInv, TypeOK, PausedOnce
  <2>4. \A c \in Accounts, n \in ModuleIds, can \in BOOLEAN : pauseModule(c, n, can) =>
           modulePauseStates'[m].isPaused
    BY <1>1 DEF pauseModule, ScheduleInv, TypeOK, IsPaused, PauseState, PausedOnce
  <2>5. CASE modulePauseStates' = modulePauseStates
    BY <2>5, <1>1 DEF IsPaused
  <2> QED  BY <1>1, <2>2, <2>3, <2>4, <2>5, StepCases
           DEF IsPaused, Tick, pauseProtocol, unpauseProtocol, scheduleUnpause, grantAuthority,
               setUnpauseDelay, pauserVars
<1>2. ScheduleInv /\ [Next]_pauserVars
        => [\A m \in PausedOnce : IsPaused(m) /\ ~CanUnpause(m) => IsPaused(m)']_pauserVars
  BY <1>1
<1> QED  BY <1>2, ScheduleInvInductive, PTL DEF Spec, PermanentPauseHolds

-----------------------------------------------------------------------------
(* Each call flips at most one of the answers the trading contracts get, so *)
(* the pauser implements the pause half of ProtocolGates: what is proved or *)
(* checked against gates that flip at any time holds with the real pauser.  *)
PausedModules == { m \in ModuleIds : IsPaused(m) }

LEMMA FlipOne ==
    ASSUME TypeOK, NEW m \in ModuleIds, m \in Gates!Modules,
           UNCHANGED protocolPaused,
           \A n \in ModuleIds \ {m} : modulePauseStates'[n] = modulePauseStates[n]
    PROVE  Gates!FlipModulePause(m) \/ UNCHANGED Gates!gateVars
<1>1. CASE IsPaused(m) <=> IsPaused(m)'
  <2>1. PausedModules' = PausedModules
    BY <1>1 DEF PausedModules, IsPaused
  <2> QED  BY <2>1 DEF Gates!gateVars, PausedModules
<1>2. CASE ~(IsPaused(m) <=> IsPaused(m)')
  <2>1. PausedModules' = Gates!Toggle(PausedModules, m)
    BY <1>2 DEF PausedModules, IsPaused, Gates!Toggle
  <2> QED  BY <2>1 DEF Gates!FlipModulePause, PausedModules
<1> QED  BY <1>1, <1>2

(* The pauser implements the gates, for modules the trading code asks for.  *)
THEOREM RefinesGates ==
    ASSUME ModuleIds \subseteq Gates!Modules
    PROVE  Spec => ImplementsGates
<1>1. Init => Gates!GatesInit
  BY DEF Init, Gates!GatesInit, IsPaused, NeverPaused
<1>2. ASSUME TypeOK, TypeOK', [Next]_pauserVars
      PROVE  [Gates!GateStep]_(Gates!gateVars)
  <2>1. CASE UNCHANGED <<protocolPaused, modulePauseStates>>
    BY <2>1 DEF Gates!gateVars, IsPaused
  <2>2. CASE \E c \in Accounts : pauseProtocol(c) \/ unpauseProtocol(c)
    <3>1. protocolPaused' = protocolPaused \/ protocolPaused' = ~protocolPaused
      BY <1>2, Zenon DEF TypeOK
    <3>2. UNCHANGED modulePauseStates
      BY <2>2 DEF pauseProtocol, unpauseProtocol
    <3>3. UNCHANGED PausedModules
      BY <3>2 DEF PausedModules, IsPaused
    <3> QED  BY <3>1, <3>3 DEF Gates!GateStep, Gates!FlipProtocolPause, Gates!gateVars, PausedModules
  <2>3. ASSUME NEW m \in ModuleIds, UNCHANGED protocolPaused,
               \A n \in ModuleIds \ {m} : modulePauseStates'[n] = modulePauseStates[n]
        PROVE  [Gates!GateStep]_(Gates!gateVars)
    BY <2>3, <1>2, FlipOne DEF Gates!GateStep
  <2>4. ASSUME NEW c \in Accounts, NEW m \in ModuleIds, NEW can \in BOOLEAN, pauseModule(c, m, can)
        PROVE  [Gates!GateStep]_(Gates!gateVars)
    BY <2>4, <2>3, <1>2 DEF pauseModule, TypeOK
  <2>5. ASSUME NEW m \in ModuleIds, LiftPause(m)
        PROVE  [Gates!GateStep]_(Gates!gateVars)
    BY <2>5, <2>3, <1>2 DEF LiftPause, TypeOK
  <2> QED  BY <1>2, <2>1, <2>2, <2>4, <2>5, StepCases
           DEF Tick, scheduleUnpause, grantAuthority, setUnpauseDelay, pauserVars
<1> QED  BY <1>1, <1>2, TypeCorrect, PTL DEF Spec, ImplementsGates

=============================================================================
