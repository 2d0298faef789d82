--------------------------- MODULE DeviceOutcomes ---------------------------
(***************************************************************************)
(* What transapi_running_changed (src/transapi/transapi.c) promises to     *)
(* ncds_apply_transapi: TransApi is shown to keep to it, and ApplyRpc      *)
(* relies on it.                                                           *)
(***************************************************************************)

\* where the callbacks leave the device, compared with the two configurations
DeviceStates == {"old", "new", "mixed"}

\* The pairs of result and device.
\*   covered: every root of the change has a callback on it or below it
\*   undoes:  every callback can be undone, see RollbackRestores in TransApi
CallbackOutcomes(erropt, covered, undoes) ==
  [ret : {FALSE}, dev : CASE ~covered -> {"old"}
                          [] covered /\ erropt = "continue" -> DeviceStates
                          [] OTHER -> {"new"}]
  \cup
  [ret : {TRUE}, dev : CASE ~covered -> {}
                         [] covered /\ erropt = "rollback" /\ undoes -> {"old"}
                         [] OTHER -> DeviceStates]

=============================================================================
