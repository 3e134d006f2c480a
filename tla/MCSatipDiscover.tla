--------------------------- MODULE MCSatipDiscover ---------------------------
(* Two hosts, one of which is listed as two servers. *)
EXTENDS SatipDiscover

CONSTANTS host1, host2

TwoHosts == {host1, host2}
OneAndTwo == [x \in TwoHosts |-> IF x = host2 THEN 2 ELSE 1]
=============================================================================
