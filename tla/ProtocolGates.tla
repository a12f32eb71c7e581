---------------------------- MODULE ProtocolGates ----------------------------
(***************************************************************************)
(* The two safety switches as the trading contracts see them: every entry   *)
(* point of PositionManager and AutoDeleverageEngine asks EmergencyPauser   *)
(* whether the protocol or the module is paused, and CircuitBreaker whether *)
(* everything or one market is halted.  This module keeps only those        *)
(* answers.  Who may change them, and after which delay, is the business of *)
(* the pauser's and the breaker's own modules; here any switch may flip     *)
(* between any two calls.                                                   *)
(***************************************************************************)
EXTENDS FiniteSets

CONSTANTS
    Markets,            \* market identifiers (bytes32)
    FlippableGates      \* the switches this instance lets the guardians flip

VARIABLES
    protocolPaused,     \* EmergencyPauser.protocolPaused
    pausedModules,      \* the modules whose PauseState.isPaused is set
    globalHalt,         \* CircuitBreaker.globalHalt
    trippedCircuits     \* the markets whose circuit isTripped

gateVars == <<protocolPaused, pausedModules, globalHalt, trippedCircuits>>

Modules == {"POSITION_MANAGER", "ADL_ENGINE"}

GatesTypeOK ==
    /\ protocolPaused \in BOOLEAN
    /\ pausedModules \subseteq Modules
    /\ globalHalt \in BOOLEAN
    /\ trippedCircuits \subseteq Markets

GatesInit ==
    /\ protocolPaused = FALSE
    /\ pausedModules = {}
    /\ globalHalt = FALSE
    /\ trippedCircuits = {}

-----------------------------------------------------------------------------
(* The modifiers of the trading contracts.                                  *)

whenNotEmergencyPaused(module) == ~protocolPaused /\ module \notin pausedModules

whenCircuitActivated(m) == ~globalHalt /\ m \notin trippedCircuits

whenGlobalCircuitActivated == ~globalHalt

-----------------------------------------------------------------------------
(* Guardians and breaker operators flip one switch at a time.               *)

Toggle(S, e) == IF e \in S THEN S \ {e} ELSE S \cup {e}

FlipProtocolPause ==
    /\ "protocol" \in FlippableGates
    /\ protocolPaused' = ~protocolPaused
    /\ UNCHANGED <<pausedModules, globalHalt, trippedCircuits>>

FlipModulePause(module) ==
    /\ module \in FlippableGates
    /\ pausedModules' = Toggle(pausedModules, module)
    /\ UNCHANGED <<protocolPaused, globalHalt, trippedCircuits>>

FlipGlobalHalt ==
    /\ "halt" \in FlippableGates
    /\ globalHalt' = ~globalHalt
    /\ UNCHANGED <<protocolPaused, pausedModules, trippedCircuits>>

FlipCircuit(m) ==
    /\ "circuit" \in FlippableGates
    /\ trippedCircuits' = Toggle(trippedCircuits, m)
    /\ UNCHANGED <<protocolPaused, pausedModules, globalHalt>>

GateStep ==
    \/ FlipProtocolPause
    \/ \E module \in Modules : FlipModulePause(module)
    \/ FlipGlobalHalt
    \/ \E m \in Markets : FlipCircuit(m)

=============================================================================
