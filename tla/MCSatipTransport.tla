-------------------------- MODULE MCSatipTransport --------------------------
(* Two devices, ranges of ports, groups that share a port. *)
EXTENDS SatipTransport, TLC

CONSTANTS g1, g2, g3

\* None given; six ports; the wrong way round.
SomeRanges  == {<<0, 0>>, <<2, 7>>, <<10, 4>>}
NoneOrFirst == {{}, {2, 8}}

\* Exactly the ports one device needs.
TwoPorts  == {<<2, 3>>}
OnlyNone  == {{}}
KernelPorts == 7 .. 10
ThreeGroups == [g \in {g1, g2, g3} |-> IF g = g3 THEN 14 ELSE 12]

\* The groups on one port are alike.
SamePort == Permutations({g1, g2})
=============================================================================
