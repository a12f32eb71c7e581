--------------------------- MODULE MCEmergencyPauser ---------------------------
(* Small instances of EmergencyPauser; the module ids are the two that the  *)
(* trading contracts ask about.                                             *)
EXTENDS EmergencyPauser

CONSTANTS admin, safe

=============================================================================
