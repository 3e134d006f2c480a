------------------------- MODULE MCSatipFrontends -------------------------
(* Instances of SatipFrontends: devices, servers, lists of frontends, channels. *)
EXTENDS SatipFrontends, TLC

CONSTANTS d1, d2

TwoDevices == {d1, d2}

\* A server with a single satellite frontend.
OneFrontend == <<<<1>>>>
TwoSat == {[tp |-> t, lists |-> <<1>>] : t \in {1, 2}}

\* A server with a DVB-T and a DVB-T2 frontend and one with two for DVB-T2: a
\* DVB-T channel is tried on both lists, a DVB-T2 channel on the second.
Terrestrial == <<<<1, 1>>, <<0, 2>>>>
ThreeTerr == {[tp |-> 1, lists |-> <<1, 2>>], [tp |-> 2, lists |-> <<2>>],
              [tp |-> 3, lists |-> <<1, 2>>]}

Symmetry == Permutations(Devices)
=============================================================================
