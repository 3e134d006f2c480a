----------------------------- MODULE TunerLease -----------------------------
(***************************************************************************)
(* What a tuner promises the SAT>IP servers, in terms of three fields of   *)
(* cSatipTuner: it holds at most one stream, always one of the server it   *)
(* opened last; that is the server its quirks, its TEARDOWN and its        *)
(* frontend marks refer to; and it gives a stream up before it opens       *)
(* another one.  SatipTuner implements this specification.                 *)
(***************************************************************************)
CONSTANTS Servers, None

VARIABLES
  wanted,   \* the server the last SetSource named (streamAddrM)
  server,   \* the server of the last SETUP (currentServerM, lastAddrM)
  stream    \* the server that issued the stream held (streamIdM), or None

lease == <<wanted, server, stream>>

Init == wanted = None /\ server = None /\ stream = None

\* SetSource: a wish, which leaves the stream at hand alone.
Choose(s) == wanted' = s /\ UNCHANGED <<server, stream>>

\* A SETUP taken for successful.  After a 403 it is, without a stream.
Open ==
  /\ wanted # None /\ stream = None
  /\ server' = wanted /\ stream' \in {None, wanted}
  /\ UNCHANGED wanted

\* A TEARDOWN or a failed retuning.
GiveUp == stream # None /\ stream' = None /\ UNCHANGED <<wanted, server>>

Next == (\E s \in Servers : Choose(s)) \/ Open \/ GiveUp

Spec == Init /\ [][Next]_lease
=============================================================================
