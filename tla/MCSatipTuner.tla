--------------------------- MODULE MCSatipTuner ---------------------------
(* Instances of SatipTuner small enough for TLC.  Servers are model values  *)
(* a and b; the quirks are given to b, so that a behaves by the book.       *)
EXTENDS SatipTuner

CONSTANTS a, b

TwoServers == {a, b}
OneServer  == {a}
OnlyB      == {b}
NoServers  == {}
NoIdle     == {FALSE}
AnyIdle    == BOOLEAN
=============================================================================
