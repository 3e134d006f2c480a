---------------------------- MODULE MCSatipPidUse ----------------------------
(* SatipPidUse with two PIDs, one of them with a filter disabled in the setup. *)
EXTENDS SatipPidUse

CONSTANTS p, q, t, u, f, g

OneDisabled == {<<p, t>>}
=============================================================================
