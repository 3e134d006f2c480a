------------------------ MODULE SatipTransportProofs ------------------------
(***************************************************************************)
(* Proofs about SatipTransport: its invariants hold for any number of      *)
(* devices, any ranges of ports, ports of other programs and groups.       *)
(***************************************************************************)
EXTENDS SatipTransport, FiniteSetTheorems, TLAPS

\* Ports are natural numbers, and no group has port 0.
RangeOK ==
  /\ range \in Nat \X Nat /\ taken \subseteq Nat
  /\ \A d \in Devices : answer[d] # None =>
       \A k \in Kinds : Target(d, k) = 0 => answer[d].group = None

\* A device not built yet has nothing, and no data wait without a socket.
UnbuiltOK ==
  /\ \A d \in Devices : d > built =>
       answer[d] = None /\ \A k \in Kinds : port[<<d, k>>] = 0
  /\ \A s \in pending : port[s] # 0

\* SetupTransport is between Unregister and Register for a socket.
InWork(d, k) == work[d] \in {<<k, "open">>, <<k, "register">>}

\* A socket that is being opened is not registered, and any other is, unless
\* it has been unregistered for TCP.
WorkDone(d, k) ==
  /\ InWork(d, k) => <<d, k>> \notin registered /\ Target(d, k) > 0
  /\ port[<<d, k>>] # 0 /\ <<d, k>> \notin muted /\ ~InWork(d, k)
     => <<d, k>> \in registered
WorkOK == \A d \in Devices, k \in Kinds : WorkDone(d, k)

\* SetupTransport has not come to a socket yet, or is done with it.
Before(d, k) ==
  \/ work[d] = <<k, "unregister">>
  \/ k = "rtcp" /\ work[d] # None /\ work[d][1] = "rtp"
After(d, k) ==
  \/ work[d] = None
  \/ k = "rtp" /\ work[d][1] = "rtcp"

\* A socket is where the data go once it has been opened.  One left alone is
\* there as well, unless only the group is another one.  A port 0 is the one of
\* a socket that was not bound when it was offered.
Placed(d, k) ==
  /\ /\ Before(d, k) /\ port[<<d, k>>] = Target(d, k)
     /\ answer[d].group # None
     /\ group[<<d, k>>] \notin {None, answer[d].group}
     => d \in strayed
  /\ Before(d, k) /\ Target(d, k) = 0 => port[<<d, k>>] = 0
  /\ work[d] = <<k, "register">> /\ <<d, k>> \notin refused => Reached(d, k)
  /\ After(d, k) /\ Target(d, k) > 0 /\ ~Excused(<<d, k>>)
     => Reached(d, k) /\ <<d, k>> \in registered
PlacedOK ==
  \A d \in Devices, k \in Kinds : answer[d] # None => Placed(d, k)

StopOK ==
  /\ poller = "ended" => stopping
  /\ destroyed # {} => poller = "ended"

Inv == TypeOK /\ RangeOK /\ UnbuiltOK /\ WorkOK /\ PlacedOK /\ NothingWaits /\ StopOK

\* Until the first SETUP every device built has a free pair of the range.
Roomy ==
  /\ range[1] # 0 /\ range[2] >= range[1] + 2
  /\ Cardinality(FreePairs) >= NumDevices
RangeFits == Roomy => Turns = range[2] - range[1] - 1
InTurn ==
  setups = 0 /\ ~stopping =>
    /\ \A d \in Devices : answer[d] = None /\ work[d] = None
    /\ Roomy => \A d \in 1 .. built : HasPair(d, FreePairs)
TurnInv == RangeFits /\ InTurn

\* Ports as TCP and UDP have them are far below the numbers that the signed
\* counter of the loop cannot hold.
PortsFit == \A r \in Ranges : r[2] < Word \div 2

-----------------------------------------------------------------------------
\* At first there is nothing but the range.
LEMMA InitInv == Init => Inv
<1> SUFFICES ASSUME Init PROVE Inv
  OBVIOUS
<1>1. RangeOK
  BY TransportAssumption DEF Init, RangeOK, ParsePortRange, Devices
<1>2. SocketsOK
  BY TransportAssumption DEF Init, SocketsOK, Sockets
<1>3. TunersOK
  BY DEF Init, TunersOK
<1>4. PollingOK /\ HistoryOK
  <2>1. PollingOK
    BY DEF Init, PollingOK
  <2>2. HistoryOK
    BY TransportAssumption DEF Init, HistoryOK
  <2> QED
    BY <2>1, <2>2
<1>5. UnbuiltOK /\ PlacedOK /\ NothingWaits /\ StopOK
  BY DEF Init, UnbuiltOK, PlacedOK, NothingWaits, StopOK, Sockets
<1>6. WorkOK
  BY TransportAssumption DEF Init, WorkOK, WorkDone, InWork, Sockets, Steps, Kinds
<1> QED
  BY <1>1, <1>2, <1>3, <1>4, <1>5, <1>6 DEF Inv, TypeOK

\* The loop of the constructor turns a natural number of times.
LEMMA TurnsNat ==
  ASSUME range \in Nat \X Nat
  PROVE  Turns \in Nat
<1> DEFINE i == (range[2] - range[1] - 1) % Word
<1>1. i \in Nat
  BY TransportAssumption
<1> HIDE DEF i
<1>2. (IF i < Word \div 2 THEN i ELSE 0) \in Nat
  BY <1>1
<1> QED
  BY <1>2 DEF Turns, i

\* It only ever tries ports other than 0.
LEMMA CandidatesNat ==
  ASSUME range \in Nat \X Nat
  PROVE  Candidates \subseteq Nat \ {0}
<1>1. CASE range[1] = 0
  BY <1>1, TransportAssumption DEF Candidates
<1>2. CASE range[1] # 0
  <2>1. \A j \in 0 .. Turns - 1 : range[1] + 2 * j \in Nat \ {0}
    BY <1>2, TurnsNat
  <2> QED
    BY <1>2, <2>1 DEF Candidates
<1> QED
  BY <1>1, <1>2

\* A new device takes two ports nobody has, or none.
LEMMA BuildTakes ==
  ASSUME Inv, Build
  PROVE  /\ built + 1 \in Devices /\ built' = built + 1 /\ ~stopping
         /\ \A k \in Kinds : port[<<built + 1, k>>] = 0
         /\ answer[built + 1] = None /\ work[built + 1] = None
         /\ UNCHANGED <<range, taken, group, answer, work, pending, ready, poller>>
         /\ UNCHANGED <<events, stopping, destroyed, muted, refused, strayed>>
         /\ UNCHANGED <<setups, upsets>>
         /\ \/ UNCHANGED <<port, registered>>
            \/ \E p \in Nat \ {0} :
                 /\ \A t \in Sockets : port[t] # p /\ port[t] # p + 1
                 /\ port' = [port EXCEPT ![<<built + 1, "rtp">>] = p,
                                         ![<<built + 1, "rtcp">>] = p + 1]
                 /\ registered' = registered \cup ({built + 1} \X Kinds)
<1>1. built + 1 \in Devices /\ built' = built + 1 /\ ~stopping
  BY TransportAssumption DEF Inv, TypeOK, SocketsOK, Build, Devices
<1>2. built + 1 > built
  BY DEF Inv, TypeOK, SocketsOK
<1>3. answer[built + 1] = None /\ \A k \in Kinds : port[<<built + 1, k>>] = 0
  BY <1>1, <1>2 DEF Inv, UnbuiltOK
<1>4. work[built + 1] = None
  BY <1>1, <1>3 DEF Inv, TypeOK, TunersOK
<1>5. /\ UNCHANGED <<range, taken, group, answer, work, pending, ready, poller>>
      /\ UNCHANGED <<events, stopping, destroyed, muted, refused, strayed>>
      /\ UNCHANGED <<setups, upsets>>
  BY DEF Build, tuners, polling, history
<1>6. Candidates \subseteq Nat \ {0}
  BY CandidatesNat DEF Inv, RangeOK
<1>7. None \notin Sockets
  BY TransportAssumption
<1>8. \A p : Free(p, None) => \A t \in Sockets : port[t] # p
  BY <1>7 DEF Free
<1>9. \/ UNCHANGED <<port, registered>>
      \/ \E p \in Nat \ {0} :
           /\ \A t \in Sockets : port[t] # p /\ port[t] # p + 1
           /\ port' = [port EXCEPT ![<<built + 1, "rtp">>] = p,
                                   ![<<built + 1, "rtcp">>] = p + 1]
           /\ registered' = registered \cup ({built + 1} \X Kinds)
  <2> DEFINE fit == {p \in Candidates : Free(p, None) /\ Free(p + 1, None)}
  <2>1. CASE UNCHANGED <<port, registered>>
    BY <2>1
  <2>2. ASSUME NEW p \in fit,
               port' = [port EXCEPT ![<<built + 1, "rtp">>] = p,
                                    ![<<built + 1, "rtcp">>] = p + 1],
               registered' = registered \cup ({built + 1} \X Kinds)
        PROVE  \E q \in Nat \ {0} :
                 /\ \A t \in Sockets : port[t] # q /\ port[t] # q + 1
                 /\ port' = [port EXCEPT ![<<built + 1, "rtp">>] = q,
                                         ![<<built + 1, "rtcp">>] = q + 1]
                 /\ registered' = registered \cup ({built + 1} \X Kinds)
    <3>1. p \in Nat \ {0} /\ Free(p, None) /\ Free(p + 1, None)
      BY <1>6
    <3>2. \A t \in Sockets : port[t] # p /\ port[t] # p + 1
      BY <3>1, <1>8
    <3> QED
      BY <2>2, <3>1, <3>2
  <2> QED
    BY <2>1, <2>2 DEF Build
<1> QED
  BY <1>1, <1>3, <1>4, <1>5, <1>9

\* What it has opened is new, so nothing else changes.
LEMMA BuildInv ==
  ASSUME Inv, Build
  PROVE  Inv'
<1> DEFINE e == built + 1
<1>1. /\ e \in Devices /\ built' = e /\ ~stopping
      /\ \A k \in Kinds : port[<<e, k>>] = 0
      /\ answer[e] = None /\ work[e] = None
  BY BuildTakes
<1>2. /\ UNCHANGED <<range, taken, group, answer, work, pending, ready, poller>>
      /\ UNCHANGED <<events, stopping, destroyed, muted, refused, strayed>>
      /\ UNCHANGED <<setups, upsets>>
  BY BuildTakes
<1>3. \/ UNCHANGED <<port, registered>>
      \/ \E p \in Nat \ {0} :
           /\ \A t \in Sockets : port[t] # p /\ port[t] # p + 1
           /\ port' = [port EXCEPT ![<<e, "rtp">>] = p, ![<<e, "rtcp">>] = p + 1]
           /\ registered' = registered \cup ({e} \X Kinds)
  BY BuildTakes
<1>4. /\ port' \in [Sockets -> Nat] /\ registered \subseteq registered'
      /\ registered' \subseteq Sockets
      /\ \A s \in Sockets : s[1] # e \/ port[s] # 0 =>
            port'[s] = port[s] /\ (s \in registered' <=> s \in registered)
      /\ \A s \in Sockets : port'[s] # 0 /\ port[s] = 0 => s \in registered'
      /\ \A s \in Sockets : port'[s] = 0 => port[s] = 0 /\ s \notin registered'
      /\ \A s, t \in Sockets : s # t /\ port'[s] # 0 => port'[s] # port'[t]
  <2>1. CASE UNCHANGED <<port, registered>>
    BY <2>1 DEF Inv, TypeOK, SocketsOK
  <2>2. ASSUME NEW p \in Nat \ {0},
               \A t \in Sockets : port[t] # p /\ port[t] # p + 1,
               port' = [port EXCEPT ![<<e, "rtp">>] = p, ![<<e, "rtcp">>] = p + 1],
               registered' = registered \cup ({e} \X Kinds)
        PROVE  <1>4
    <3>1. \A s \in Sockets : port'[s] = IF s = <<e, "rtp">> THEN p
                                        ELSE IF s = <<e, "rtcp">> THEN p + 1
                                        ELSE port[s]
      BY <2>2 DEF Inv, TypeOK, SocketsOK
    <3>2. \A s \in Sockets : s[1] = e <=> s = <<e, "rtp">> \/ s = <<e, "rtcp">>
      BY <1>1 DEF Sockets, Kinds
    <3>3. \A s \in Sockets : s \in registered' <=> s \in registered \/ s[1] = e
      BY <2>2 DEF Sockets
    <3>4. registered \subseteq registered' /\ registered' \subseteq Sockets
      BY <1>1, <2>2 DEF Inv, TypeOK, SocketsOK, Sockets
    <3>7. port' \in [Sockets -> Nat]
      <4>1. port' = [s \in Sockets |-> port'[s]]
        BY <2>2 DEF Inv, TypeOK, SocketsOK
      <4>2. \A s \in Sockets : port'[s] \in Nat
        BY <2>2, <3>1 DEF Inv, TypeOK, SocketsOK
      <4> QED
        BY <4>1, <4>2
    <3>8. \A s \in Sockets : port[s] # 0 => s[1] # e
      BY <1>1, <3>2 DEF Kinds
    <3>5. \A s \in Sockets : port'[s] = 0 => port[s] = 0 /\ s \notin registered'
      BY <3>1, <3>2, <3>3 DEF Inv, TypeOK, SocketsOK
    <3>6. \A s, t \in Sockets : s # t /\ port'[s] # 0 => port'[s] # port'[t]
      BY <2>2, <3>1 DEF Inv, TypeOK, SocketsOK
    <3> QED
      BY <3>1, <3>2, <3>3, <3>4, <3>5, <3>6, <3>7, <3>8
  <2> QED
    BY <1>3, <2>1, <2>2
<1>5. SocketsOK'
  BY <1>1, <1>2, <1>4 DEF Inv, TypeOK, SocketsOK, Devices
<1>6. TunersOK' /\ HistoryOK'
  BY <1>2 DEF Inv, TypeOK, TunersOK, HistoryOK
<1>7. PollingOK'
  BY <1>2, <1>4 DEF Inv, TypeOK, PollingOK
<1>8. RangeOK'
  BY <1>2 DEF Inv, RangeOK, Target
<1>9. UnbuiltOK'
  <2>1. ASSUME NEW d \in Devices, d > built', NEW k \in Kinds
        PROVE  answer'[d] = None /\ port'[<<d, k>>] = 0
    <3>1. d > built /\ d # e
      BY <1>1, <2>1 DEF Inv, TypeOK, SocketsOK, Devices
    <3>2. <<d, k>> \in Sockets /\ <<d, k>>[1] = d
      BY DEF Sockets
    <3> QED
      BY <1>2, <1>4, <3>1, <3>2 DEF Inv, UnbuiltOK
  <2>2. \A d \in Devices : d > built' => answer'[d] = None
    BY <2>1 DEF Kinds
  <2>3. \A s \in pending' : port'[s] # 0
    BY <1>2, <1>4 DEF Inv, TypeOK, PollingOK, UnbuiltOK
  <2> QED
    BY <2>1, <2>2, <2>3 DEF UnbuiltOK
<1>10. WorkOK'
  <2> SUFFICES ASSUME NEW d \in Devices, NEW k \in Kinds
               PROVE  WorkDone(d, k)'
    BY DEF WorkOK
  <2>1. <<d, k>> \in Sockets /\ <<d, k>>[1] = d
    BY DEF Sockets
  <2>2. (InWork(d, k)' <=> InWork(d, k)) /\ Target(d, k)' = Target(d, k)
    BY <1>2 DEF InWork, Target
  <2>3. d = e => ~InWork(d, k)
    BY <1>1, TransportAssumption DEF InWork, Steps
  <2> QED
    BY <1>2, <1>4, <2>1, <2>2, <2>3 DEF Inv, WorkOK, WorkDone
<1>11. PlacedOK'
  <2> SUFFICES ASSUME NEW d \in Devices, NEW k \in Kinds, answer'[d] # None
               PROVE  Placed(d, k)'
    BY DEF PlacedOK
  <2>1. d # e /\ answer[d] # None /\ Placed(d, k)
    BY <1>1, <1>2 DEF Inv, PlacedOK
  <2>2. <<d, k>> \in Sockets /\ <<d, k>>[1] = d
    BY DEF Sockets
  <2>3. UNCHANGED <<port[<<d, k>>], <<d, k>> \in registered>>
    BY <1>4, <2>1, <2>2
  <2> QED
    BY <1>2, <2>1, <2>3 DEF Placed, Before, After, Reached, Excused, Target
<1>12. NothingWaits' /\ StopOK'
  <2>1. \A s \in registered' \cap pending' : s \in registered
    BY <1>2, <1>4 DEF Inv, TypeOK, PollingOK, UnbuiltOK
  <2> QED
    BY <1>2, <2>1 DEF Inv, NothingWaits, StopOK
<1> QED
  BY <1>5, <1>6, <1>7, <1>8, <1>9, <1>10, <1>11, <1>12 DEF Inv, TypeOK

-----------------------------------------------------------------------------
\* What SetupTransport does next is not None.
LEMMA StepsAre ==
  /\ \A k \in Kinds : /\ <<k, "unregister">> # None /\ <<k, "open">> # None
                      /\ <<k, "register">> # None
  /\ None \notin Transports /\ None \notin Groups
BY TransportAssumption DEF Steps

\* An answer sends SetupTransport to both sockets of the tuner.
LEMMA AnsweredInv ==
  ASSUME Inv, NEW d \in Devices, NEW t \in Transports, Answered(d, t),
         \A k \in Kinds : t.ports[k] = 0 => t.group = None /\ port[<<d, k>>] = 0
  PROVE  Inv'
<1>1. /\ UNCHANGED <<range, taken, built, port, group, registered>>
      /\ UNCHANGED <<pending, ready, poller, events, stopping, destroyed, muted>>
      /\ UNCHANGED upsets
  BY DEF Answered, sockets, polling
<1>2. /\ d =< built /\ answer[d] = None /\ work[d] = None
      /\ answer' = [answer EXCEPT ![d] = t]
      /\ work' = [work EXCEPT ![d] = <<"rtp", "unregister">>]
      /\ refused' = refused \ ({d} \X Kinds)
      /\ strayed' \in {strayed \cup {d}, strayed \ {d}}
      /\ setups < MaxSetups /\ setups' = setups + 1
  BY DEF Answered, Alive
<1>3. /\ answer'[d] = t /\ work'[d] = <<"rtp", "unregister">>
      /\ \A c \in Devices \ {d} : answer'[c] = answer[c] /\ work'[c] = work[c]
  BY <1>2 DEF Inv, TypeOK, TunersOK
<1>4. SocketsOK' /\ PollingOK'
  BY <1>1 DEF Inv, TypeOK, SocketsOK, PollingOK
<1>5. TunersOK'
  BY <1>2, <1>3, StepsAre DEF Inv, TypeOK, TunersOK, Steps, Kinds
<1>6. HistoryOK'
  BY <1>1, <1>2, TransportAssumption DEF Inv, TypeOK, HistoryOK
<1>7. RangeOK'
  BY <1>1, <1>3 DEF Inv, RangeOK, Target
<1>8. UnbuiltOK'
  BY <1>1, <1>2, <1>3 DEF Inv, TypeOK, SocketsOK, UnbuiltOK, Devices
<1>9. WorkOK'
  <2> SUFFICES ASSUME NEW c \in Devices, NEW k \in Kinds
               PROVE  WorkDone(c, k)'
    BY DEF WorkOK
  <2>1. WorkDone(c, k)
    BY DEF Inv, WorkOK
  <2>2. CASE c = d
    <3>1. ~InWork(d, k) /\ ~InWork(d, k)'
      BY <1>2, <1>3, StepsAre DEF InWork
    <3> QED
      BY <1>1, <2>1, <2>2, <3>1 DEF WorkDone
  <2>3. CASE c # d
    BY <1>1, <1>3, <2>1, <2>3 DEF WorkDone, InWork, Target
  <2> QED
    BY <2>2, <2>3
<1>10. PlacedOK'
  <2> SUFFICES ASSUME NEW c \in Devices, NEW k \in Kinds, answer'[c] # None
               PROVE  Placed(c, k)'
    BY DEF PlacedOK
  <2>1. CASE c = d
    <3>1. ~After(d, k)' /\ work'[d] # <<k, "register">>
      BY <1>3, StepsAre DEF After, Kinds
    <3>2. ASSUME port'[<<d, k>>] = Target(d, k)', answer'[d].group # None,
                 group'[<<d, k>>] \notin {None, answer'[d].group}
          PROVE  d \in strayed'
      BY <1>1, <1>3, <3>2 DEF Answered, Target
    <3>3. Target(d, k)' = 0 => port'[<<d, k>>] = 0
      BY <1>1, <1>3 DEF Target
    <3> QED
      BY <2>1, <3>1, <3>2, <3>3 DEF Placed
  <2>2. CASE c # d
    <3>1. answer[c] # None /\ Placed(c, k)
      BY <1>3, <2>2 DEF Inv, PlacedOK
    <3>2. /\ <<c, k>> \in refused' <=> <<c, k>> \in refused
          /\ c \in strayed' <=> c \in strayed
      BY <1>2, <2>2
    <3>3. answer'[c] = answer[c] /\ work'[c] = work[c]
      BY <1>3, <2>2
    <3> QED
      BY <1>1, <3>1, <3>2, <3>3 DEF Placed, Before, After, Reached, Excused, Target
  <2> QED
    BY <2>1, <2>2
<1>11. NothingWaits' /\ StopOK'
  BY <1>1 DEF Inv, NothingWaits, StopOK
<1> QED
  BY <1>4, <1>5, <1>6, <1>7, <1>8, <1>9, <1>10, <1>11 DEF Inv, TypeOK

\* The three answers there are name ports.
LEMMA SetupInv ==
  ASSUME Inv, NEW d \in Devices,
         SetupUnicast(d) \/ SetupMulticast(d) \/ SetupTcp(d)
  PROVE  Inv'
<1>1. \A k \in Kinds : port[<<d, k>>] \in Nat
  BY DEF Inv, TypeOK, SocketsOK, Sockets
<1>2. ASSUME NEW p \in Nat \cup {-1}, NEW q \in Nat \cup {-1},
             NEW g \in Groups \cup {None},
             p = 0 => g = None /\ port[<<d, "rtp">>] = 0,
             q = 0 => g = None /\ port[<<d, "rtcp">>] = 0,
             Answered(d, Transport(p, q, g))
      PROVE  Inv'
  <2>1. Transport(p, q, g) \in Transports
    BY <1>2 DEF Transport, Transports, Kinds
  <2>2. ASSUME NEW k \in Kinds, Transport(p, q, g).ports[k] = 0
        PROVE  Transport(p, q, g).group = None /\ port[<<d, k>>] = 0
    BY <1>2, <2>2 DEF Transport, Kinds
  <2> QED
    BY <1>2, <2>1, <2>2, AnsweredInv
<1>3. CASE SetupUnicast(d)
  BY <1>1, <1>2, <1>3 DEF SetupUnicast, Kinds
<1>4. CASE SetupMulticast(d)
  BY <1>2, <1>4, TransportAssumption DEF SetupMulticast
<1>5. CASE SetupTcp(d)
  BY <1>2, <1>5 DEF SetupTcp
<1> QED
  BY <1>3, <1>4, <1>5

\* TEARDOWN leaves the sockets alone.
LEMMA ReleaseInv ==
  ASSUME Inv, NEW d \in Devices, Release(d)
  PROVE  Inv'
<1>1. /\ UNCHANGED <<range, taken, built, port, group, registered, work>>
      /\ UNCHANGED <<pending, ready, poller, events, stopping, destroyed, muted>>
      /\ UNCHANGED <<refused, strayed, setups, upsets>>
  BY DEF Release, sockets, polling, history
<1>2. /\ answer'[d] = None /\ work[d] = None
      /\ answer' = [answer EXCEPT ![d] = None]
      /\ \A c \in Devices \ {d} : answer'[c] = answer[c]
  BY DEF Release, Inv, TypeOK, TunersOK
<1>3. SocketsOK' /\ PollingOK' /\ HistoryOK'
  BY <1>1 DEF Inv, TypeOK, SocketsOK, PollingOK, HistoryOK
<1>4. TunersOK'
  BY <1>1, <1>2 DEF Inv, TypeOK, TunersOK
<1>5. RangeOK' /\ UnbuiltOK'
  BY <1>1, <1>2 DEF Inv, RangeOK, UnbuiltOK, Target
<1>6. WorkOK'
  <2> SUFFICES ASSUME NEW c \in Devices, NEW k \in Kinds
               PROVE  WorkDone(c, k)'
    BY DEF WorkOK
  <2>1. WorkDone(c, k) /\ (c = d => ~InWork(c, k))
    BY <1>2, StepsAre DEF Inv, WorkOK, InWork
  <2> QED
    BY <1>1, <1>2, <2>1 DEF WorkDone, InWork, Target
<1>7. PlacedOK'
  <2> SUFFICES ASSUME NEW c \in Devices, NEW k \in Kinds, answer'[c] # None
               PROVE  Placed(c, k)'
    BY DEF PlacedOK
  <2>1. c # d /\ answer[c] # None /\ Placed(c, k) /\ answer'[c] = answer[c]
    BY <1>2 DEF Inv, PlacedOK
  <2> QED
    BY <1>1, <2>1 DEF Placed, Before, After, Reached, Excused, Target
<1>8. NothingWaits' /\ StopOK'
  BY <1>1 DEF Inv, NothingWaits, StopOK
<1> QED
  BY <1>3, <1>4, <1>5, <1>6, <1>7, <1>8 DEF Inv, TypeOK

\* SetupTransport works on one socket of a tuner at a time: what holds of the
\* others goes on to hold.
LEMMA SocketStep ==
  ASSUME Inv, NEW d \in Devices, NEW k \in Kinds,
         NEW x \in {"unregister", "open", "register"}, work[d] = <<k, x>>,
         \/ work' = [work EXCEPT ![d] = <<k, "open">>]
         \/ work' = [work EXCEPT ![d] = <<k, "register">>]
         \/ NextKind(d, k),
         UNCHANGED <<range, taken, built, answer, poller, events>>,
         UNCHANGED <<stopping, destroyed, strayed>>,
         SocketsOK', PollingOK', HistoryOK',
         \A s \in Sockets \ {<<d, k>>} :
           /\ port'[s] = port[s] /\ group'[s] = group[s]
           /\ s \in registered' <=> s \in registered
           /\ s \in pending' <=> s \in pending
           /\ s \in ready' <=> s \in ready
           /\ s \in muted' <=> s \in muted
           /\ s \in refused' <=> s \in refused,
         WorkDone(d, k)', Placed(d, k)',
         <<d, k>> \in pending' => port'[<<d, k>>] # 0,
         <<d, k>> \in registered' \cap pending' /\ poller # "ended"
           => <<d, k>> \in ready' \cup events
  PROVE  Inv'
<1>1. /\ work'[d] \in {<<k, "open">>, <<k, "register">>,
                       IF k = "rtp" THEN <<"rtcp", "unregister">> ELSE None}
      /\ \A c \in Devices \ {d} : work'[c] = work[c]
      /\ work' \in [Devices -> Steps \cup {None}]
      /\ work[d] # None
  BY StepsAre DEF NextKind, Inv, TypeOK, TunersOK, Steps, Kinds
<1>2. TunersOK'
  BY <1>1 DEF Inv, TypeOK, TunersOK
<1>3. RangeOK'
  BY DEF Inv, RangeOK, Target
<1>4. d =< built
  <2>1. answer[d] # None
    BY <1>1 DEF Inv, TypeOK, TunersOK
  <2>2. ~(d > built)
    BY <2>1 DEF Inv, UnbuiltOK
  <2> QED
    BY <2>2, TransportAssumption DEF Inv, TypeOK, SocketsOK, Devices
<1>5. \A c \in Devices, j \in Kinds :
        <<c, j>> \in Sockets /\ (<<c, j>> = <<d, k>> <=> c = d /\ j = k)
  BY DEF Sockets
<1>6. UnbuiltOK'
  <2>1. ASSUME NEW c \in Devices, c > built'
        PROVE  answer'[c] = None /\ \A j \in Kinds : port'[<<c, j>>] = 0
    BY <2>1, <1>4, <1>5 DEF Inv, TypeOK, SocketsOK, UnbuiltOK, Devices
  <2>2. \A s \in pending' : port'[s] # 0
    BY DEF Inv, TypeOK, PollingOK, UnbuiltOK
  <2> QED
    BY <2>1, <2>2 DEF UnbuiltOK
<1>7. ASSUME NEW c \in Devices, NEW j \in Kinds, ~(c = d /\ j = k)
      PROVE  /\ InWork(c, j)' <=> InWork(c, j)
             /\ Before(c, j)' <=> Before(c, j)
             /\ After(c, j)' <=> After(c, j)
             /\ work'[c] = <<j, "register">> <=> work[c] = <<j, "register">>
  <2>1. CASE c # d
    BY <1>1, <2>1 DEF InWork, Before, After
  <2>2. CASE c = d
    BY <1>1, <1>7, <2>2, StepsAre DEF InWork, Before, After, Kinds
  <2> QED
    BY <2>1, <2>2
<1>8. WorkOK'
  <2> SUFFICES ASSUME NEW c \in Devices, NEW j \in Kinds, ~(c = d /\ j = k)
               PROVE  WorkDone(c, j)'
    BY DEF WorkOK
  <2>1. WorkDone(c, j)
    BY DEF Inv, WorkOK
  <2> QED
    BY <1>5, <1>7, <2>1 DEF WorkDone, Target
<1>9. PlacedOK'
  <2> SUFFICES ASSUME NEW c \in Devices, NEW j \in Kinds, ~(c = d /\ j = k),
                      answer'[c] # None
               PROVE  Placed(c, j)'
    BY DEF PlacedOK
  <2>1. Placed(c, j)
    BY DEF Inv, PlacedOK
  <2>2. <<c, j>>[1] = c
    OBVIOUS
  <2> QED
    BY <1>5, <1>7, <2>1, <2>2 DEF Placed, Reached, Excused, Target
<1>10. NothingWaits' /\ StopOK'
  <2>1. StopOK'
    BY DEF Inv, StopOK
  <2>2. ASSUME NEW s \in registered' \cap pending', poller' # "ended"
        PROVE  s \in ready' \cup events'
    BY <2>2 DEF Inv, TypeOK, PollingOK, NothingWaits
  <2> QED
    BY <2>1, <2>2 DEF NothingWaits
<1> QED
  BY <1>2, <1>3, <1>6, <1>8, <1>9, <1>10 DEF Inv, TypeOK

\* A socket left alone, by the test of port and medium, is where the data go,
\* unless only the group is another one.
LEMMA UnregisterInv ==
  ASSUME Inv, NEW d \in Devices, NEW k \in Kinds, Unregister(d, k)
  PROVE  Inv'
<1> DEFINE s == <<d, k>>
<1>1. /\ UNCHANGED <<range, taken, built, port, group, answer, pending, poller>>
      /\ UNCHANGED <<events, stopping, destroyed, refused, strayed, setups, upsets>>
      /\ work[d] = <<k, "unregister">>
  BY DEF Unregister
<1>2. /\ s \in Sockets /\ s[1] = d
      /\ Before(d, k) /\ ~After(d, k) /\ ~InWork(d, k)
  BY <1>1, StepsAre DEF Sockets, Before, After, InWork, Kinds
<1>3. /\ answer[d] # None /\ WorkDone(d, k) /\ Placed(d, k)
      /\ Target(d, k) = 0 => answer[d].group = None
      /\ answer[d] \in Transports
  <2>1. answer[d] # None /\ answer[d] \in Transports
    BY <1>1, StepsAre DEF Inv, TypeOK, TunersOK
  <2> QED
    BY <2>1 DEF Inv, WorkOK, PlacedOK, RangeOK
<1>4. SocketsOK /\ PollingOK /\ HistoryOK
  BY DEF Inv, TypeOK
<1>5. CASE ~Changed(d, k)
  <2>1. NextKind(d, k) /\ UNCHANGED <<registered, ready, muted>>
    BY <1>5 DEF Unregister
  <2>2. work'[d] = IF k = "rtp" THEN <<"rtcp", "unregister">> ELSE None
    BY <2>1 DEF NextKind, Inv, TypeOK, TunersOK
  <2>3. ~InWork(d, k)' /\ ~Before(d, k)' /\ work'[d] # <<k, "register">>
    BY <2>2, StepsAre DEF InWork, Before, Kinds
  <2>4. WorkDone(d, k)'
    BY <1>1, <1>2, <1>3, <2>1, <2>3 DEF WorkDone
  <2>5. Target(d, k) = port[s] /\ (answer[d].group # None <=> group[s] # None)
    BY <1>5 DEF Changed, Multicast, InMulticast
  <2>6. ASSUME ~Excused(s), Target(d, k) > 0
        PROVE  Reached(d, k) /\ s \in registered
    <3>1. s \in registered
      BY <1>2, <1>3, <2>5, <2>6 DEF WorkDone, Excused
    <3>2. group[s] = answer[d].group
      BY <1>2, <1>3, <2>5, <2>6 DEF Placed, Excused
    <3> QED
      BY <2>5, <3>1, <3>2 DEF Reached
  <2>7. Placed(d, k)'
    BY <1>1, <2>1, <2>3, <2>6 DEF Placed, Reached, Excused, Target
  <2>8. SocketsOK' /\ PollingOK' /\ HistoryOK'
    BY <1>1, <1>4, <2>1 DEF SocketsOK, PollingOK, HistoryOK
  <2>9. s \in pending' => port'[s] # 0
    BY <1>1 DEF Inv, UnbuiltOK
  <2>10. s \in registered' \cap pending' /\ poller # "ended" => s \in ready' \cup events
    BY <1>1, <2>1 DEF Inv, NothingWaits
  <2> QED
    BY <1>1, <2>1, <2>4, <2>7, <2>8, <2>9, <2>10, SocketStep
<1>6. CASE Changed(d, k)
  <2>1. /\ registered' = registered \ {s} /\ ready' = ready \ {s}
        /\ \/ Target(d, k) < 0 /\ NextKind(d, k) /\ muted' = muted \cup {s}
           \/ /\ ~(Target(d, k) < 0) /\ work' = [work EXCEPT ![d] = <<k, "open">>]
              /\ muted' = muted
    BY <1>6, Zenon DEF Unregister
  <2>8. Target(d, k) # 0
    <3>1. ASSUME Target(d, k) = 0 PROVE FALSE
      <4>1. port[s] = 0 /\ group[s] = None /\ answer[d].group = None
        BY <1>2, <1>3, <1>4, <3>1 DEF Placed, SocketsOK
      <4> QED
        BY <1>6, <3>1, <4>1 DEF Changed, Multicast, InMulticast
    <3> QED
      BY <3>1
  <2>9. Target(d, k) \in Int
    BY <1>3 DEF Target, Transports
  <2>2. \/ Target(d, k) < 0 /\ s \in muted' /\ ~InWork(d, k)'
        \/ Target(d, k) > 0 /\ InWork(d, k)' /\ ~After(d, k)'
    BY <2>1, <2>8, <2>9, StepsAre DEF NextKind, Inv, TypeOK, TunersOK, InWork, After, Kinds
  <2>3. ~Before(d, k)' /\ work'[d] # <<k, "register">>
    BY <2>1, StepsAre DEF NextKind, Inv, TypeOK, TunersOK, Before, Kinds
  <2>4. WorkDone(d, k)'
    BY <1>1, <2>1, <2>2 DEF WorkDone, Target
  <2>5. Placed(d, k)'
    BY <1>1, <2>2, <2>3 DEF Placed, Excused, Target
  <2>6. SocketsOK' /\ PollingOK' /\ HistoryOK'
    BY <1>1, <1>2, <1>4, <2>1 DEF SocketsOK, PollingOK, HistoryOK
  <2>7. s \in pending' => port'[s] # 0
    BY <1>1 DEF Inv, UnbuiltOK
  <2> QED
    BY <1>1, <2>1, <2>4, <2>5, <2>6, <2>7, SocketStep
<1> QED
  BY <1>5, <1>6

\* Open() leaves the socket on the port and in the group, or notes the refusal.
LEMMA OpenInv ==
  ASSUME Inv, NEW d \in Devices, NEW k \in Kinds, Open(d, k)
  PROVE  Inv'
<1> DEFINE s == <<d, k>>
           p == Target(d, k)
<1>1. /\ UNCHANGED <<range, taken, built, registered, answer, ready, poller, events>>
      /\ UNCHANGED <<stopping, destroyed, muted, strayed, setups>>
      /\ work[d] = <<k, "open">> /\ work' = [work EXCEPT ![d] = <<k, "register">>]
      /\ pending' = pending \ {s}
  BY DEF Open
<1>2. s \in Sockets /\ s[1] = d /\ InWork(d, k) /\ work'[d] = <<k, "register">>
  BY <1>1 DEF Sockets, InWork, Inv, TypeOK, TunersOK
<1>3. answer[d] # None /\ answer[d] \in Transports /\ p > 0 /\ s \notin registered
  BY <1>1, <1>2, StepsAre DEF Inv, TypeOK, TunersOK, WorkOK, WorkDone
<1>4. p \in Nat /\ answer[d].group \in Groups \cup {None}
  BY <1>3 DEF Transports, Target
<1>5. SocketsOK /\ PollingOK /\ HistoryOK
  BY DEF Inv, TypeOK
<1>6. \E q \in Nat, g \in Groups \cup {None} :
        /\ port' = [port EXCEPT ![s] = q] /\ group' = [group EXCEPT ![s] = g]
        /\ q = 0 => g = None
        /\ q # 0 => \A t \in Sockets \ {s} : port[t] # q
        /\ \/ refused' = refused /\ q = p /\ g = answer[d].group
           \/ refused' = refused \cup {s}
        /\ upsets' \in 0 .. MaxUpsets
  BY <1>3, <1>4, <1>5, TransportAssumption DEF Open, Free, HistoryOK
<1>7. PICK q \in Nat, g \in Groups \cup {None} : <1>6!(q, g)
  BY <1>6
<1>8. SocketsOK'
  BY <1>1, <1>2, <1>3, <1>5, <1>7 DEF SocketsOK
<1>9. PollingOK' /\ HistoryOK'
  BY <1>1, <1>2, <1>5, <1>7 DEF PollingOK, HistoryOK
<1>10. port'[s] = q /\ group'[s] = g
  BY <1>2, <1>5, <1>7 DEF SocketsOK
<1>11. WorkDone(d, k)'
  BY <1>1, <1>2, <1>3 DEF WorkDone, InWork, Target
<1>12. Placed(d, k)'
  <2>1. ~Before(d, k)' /\ ~After(d, k)'
    BY <1>2, StepsAre DEF Before, After, Kinds
  <2>2. s \notin refused' => Reached(d, k)'
    BY <1>1, <1>7, <1>10 DEF Reached, Target
  <2> QED
    BY <2>1, <2>2 DEF Placed
<1>13. \A t \in Sockets \ {s} :
         /\ port'[t] = port[t] /\ group'[t] = group[t]
         /\ t \in refused' <=> t \in refused
  BY <1>5, <1>7 DEF SocketsOK
<1> QED
  BY <1>1, <1>3, <1>8, <1>9, <1>11, <1>12, <1>13, SocketStep

\* Register() reports what has come since the socket was opened.
LEMMA RegisterInv ==
  ASSUME Inv, NEW d \in Devices, NEW k \in Kinds, Register(d, k)
  PROVE  Inv'
<1> DEFINE s == <<d, k>>
<1>1. /\ UNCHANGED <<range, taken, built, port, group, answer, pending, poller>>
      /\ UNCHANGED <<events, stopping, destroyed, refused, strayed, setups, upsets>>
      /\ work[d] = <<k, "register">> /\ NextKind(d, k)
  BY DEF Register
<1>2. work'[d] = IF k = "rtp" THEN <<"rtcp", "unregister">> ELSE None
  BY <1>1 DEF NextKind, Inv, TypeOK, TunersOK
<1>3. s \in Sockets /\ s[1] = d /\ InWork(d, k)
  BY <1>1 DEF Sockets, InWork
<1>4. ~InWork(d, k)' /\ ~Before(d, k)' /\ work'[d] # <<k, "register">>
  BY <1>2, StepsAre DEF InWork, Before, Kinds
<1>5. answer[d] # None /\ Target(d, k) > 0 /\ s \notin registered /\ Placed(d, k)
  <2>1. answer[d] # None
    BY <1>1, StepsAre DEF Inv, TypeOK, TunersOK
  <2> QED
    BY <1>3, <2>1 DEF Inv, WorkOK, WorkDone, PlacedOK
<1>6. SocketsOK /\ PollingOK /\ HistoryOK
  BY DEF Inv, TypeOK
<1>7. \/ port[s] = 0 /\ UNCHANGED <<registered, ready, muted>>
      \/ /\ port[s] # 0 /\ registered' = registered \cup {s} /\ muted' = muted \ {s}
         /\ ready' = IF s \in pending THEN ready \cup {s} ELSE ready
  BY DEF Register
<1>8. SocketsOK' /\ PollingOK' /\ HistoryOK'
  <2>1. SocketsOK'
    BY <1>1, <1>3, <1>6, <1>7 DEF SocketsOK
  <2>2. PollingOK'
    BY <1>1, <1>3, <1>6, <1>7 DEF PollingOK
  <2>3. HistoryOK'
    BY <1>1, <1>3, <1>6, <1>7 DEF HistoryOK
  <2> QED
    BY <2>1, <2>2, <2>3
<1>9. WorkDone(d, k)'
  BY <1>1, <1>4, <1>7 DEF WorkDone
<1>10. Placed(d, k)'
  BY <1>1, <1>4, <1>5, <1>7 DEF Placed, Reached, Excused, Target
<1>11. s \in pending' => port'[s] # 0
  BY <1>1 DEF Inv, UnbuiltOK
<1>12. s \in registered' \cap pending' /\ poller # "ended" => s \in ready' \cup events
  BY <1>1, <1>5, <1>7
<1>13. \A t \in Sockets \ {s} :
         /\ t \in registered' <=> t \in registered
         /\ t \in ready' <=> t \in ready
         /\ t \in muted' <=> t \in muted
  BY <1>7
<1> QED
  BY <1>1, <1>8, <1>9, <1>10, <1>11, <1>12, <1>13, SocketStep

-----------------------------------------------------------------------------
\* The network, the poller and the shutdown leave the sessions alone, but for
\* the devices that are deleted.
LEMMA PollerInv ==
  ASSUME Inv,
         UNCHANGED <<range, taken, built, port, group, registered, answer, work>>,
         UNCHANGED <<destroyed, muted, refused, strayed, setups, upsets>>,
         PollingOK', NothingWaits', StopOK',
         \A s \in pending' : port[s] # 0
  PROVE  Inv'
<1>1. SocketsOK' /\ TunersOK' /\ HistoryOK'
  BY DEF Inv, TypeOK, SocketsOK, TunersOK, HistoryOK
<1>2. RangeOK' /\ UnbuiltOK'
  BY DEF Inv, RangeOK, UnbuiltOK, Target
<1>3. WorkOK'
  BY DEF Inv, WorkOK, WorkDone, InWork, Target
<1>4. PlacedOK'
  BY DEF Inv, PlacedOK, Placed, Before, After, Reached, Excused, Target
<1> QED
  BY <1>1, <1>2, <1>3, <1>4 DEF Inv, TypeOK

\* Data that arrive are reported when their socket is registered.
LEMMA ArriveInv ==
  ASSUME Inv, NEW d \in Devices, NEW k \in Kinds, Arrive(d, k)
  PROVE  Inv'
<1>1. /\ UNCHANGED <<range, taken, built, port, group, registered, answer, work>>
      /\ UNCHANGED <<poller, events, stopping, destroyed>>
      /\ UNCHANGED <<muted, refused, strayed, setups, upsets>>
  BY DEF Arrive, sockets, tuners, history
<1>2. /\ <<d, k>> \in Sockets /\ port[<<d, k>>] # 0
      /\ pending' = pending \cup {<<d, k>>}
      /\ ready' = IF <<d, k>> \in registered THEN ready \cup {<<d, k>>} ELSE ready
  BY DEF Arrive, Sockets
<1>3. PollingOK' /\ NothingWaits' /\ StopOK'
  BY <1>1, <1>2 DEF Inv, TypeOK, PollingOK, NothingWaits, StopOK
<1>4. \A s \in pending' : port[s] # 0
  BY <1>2 DEF Inv, UnbuiltOK
<1> QED
  BY <1>1, <1>3, <1>4, PollerInv

\* epoll_wait() hands over everything that is reported.
LEMMA WaitInv ==
  ASSUME Inv, Wait
  PROVE  Inv'
<1>1. /\ UNCHANGED <<range, taken, built, port, group, registered, answer, work>>
      /\ UNCHANGED <<pending, stopping, destroyed>>
      /\ UNCHANGED <<muted, refused, strayed, setups, upsets>>
      /\ poller = "wait" /\ poller' = "process" /\ ready # {}
      /\ events' = ready /\ ready' = {}
  BY DEF Wait, sockets, tuners, history
<1>2. events = {}
  BY <1>1 DEF Inv, TypeOK, PollingOK
<1>3. PollingOK'
  BY <1>1 DEF Inv, TypeOK, PollingOK, SocketsOK
<1>4. NothingWaits' /\ StopOK'
  BY <1>1, <1>2 DEF Inv, NothingWaits, StopOK
<1>5. \A s \in pending' : port[s] # 0
  BY <1>1 DEF Inv, UnbuiltOK
<1> QED
  BY <1>1, <1>3, <1>4, <1>5, PollerInv

\* A socket whose event is handled is emptied.
LEMMA ProcessInv ==
  ASSUME Inv, NEW s \in Sockets, Process(s)
  PROVE  Inv'
<1>1. /\ UNCHANGED <<range, taken, built, port, group, registered, answer, work>>
      /\ UNCHANGED <<ready, stopping, destroyed>>
      /\ UNCHANGED <<muted, refused, strayed, setups, upsets>>
      /\ poller = "process" /\ events' = events \ {s} /\ pending' = pending \ {s}
      /\ poller' = IF events' = {} THEN "wait" ELSE "process"
  BY DEF Process, Rest, sockets, tuners, history
<1>2. PollingOK'
  BY <1>1 DEF Inv, TypeOK, PollingOK
<1>3. NothingWaits' /\ StopOK'
  BY <1>1 DEF Inv, NothingWaits, StopOK
<1>4. \A t \in pending' : port[t] # 0
  BY <1>1 DEF Inv, UnbuiltOK
<1> QED
  BY <1>1, <1>2, <1>3, <1>4, PollerInv

\* The shutdown begins, and the poller ends once it has.
LEMMA StopInv ==
  ASSUME Inv, Stop \/ PollerEnds
  PROVE  Inv'
<1>1. /\ UNCHANGED <<range, taken, built, port, group, registered, answer, work>>
      /\ UNCHANGED <<pending, ready, destroyed>>
      /\ UNCHANGED <<muted, refused, strayed, setups, upsets>>
      /\ \/ UNCHANGED <<poller, events>> /\ stopping' = TRUE
         \/ /\ stopping /\ UNCHANGED stopping
            /\ poller' = "ended" /\ events' = {}
  BY DEF Stop, PollerEnds, sockets, tuners, polling, history
<1>2. PollingOK'
  BY <1>1 DEF Inv, TypeOK, PollingOK
<1>3. NothingWaits' /\ StopOK'
  BY <1>1 DEF Inv, NothingWaits, StopOK
<1>4. \A s \in pending' : port[s] # 0
  BY <1>1 DEF Inv, UnbuiltOK
<1> QED
  BY <1>1, <1>2, <1>3, <1>4, PollerInv

\* A device that is deleted has nothing left.
LEMMA DestroyInv ==
  ASSUME Inv, NEW d \in Devices, Destroy(d)
  PROVE  Inv'
<1> DEFINE mine == {d} \X Kinds
<1>1. /\ UNCHANGED <<range, taken, built, work, poller, events, stopping>>
      /\ UNCHANGED <<muted, refused, strayed, setups, upsets>>
      /\ poller = "ended" /\ d =< built /\ work[d] = None
      /\ destroyed' = destroyed \cup {d}
      /\ port' = [s \in Sockets |-> IF s \in mine THEN 0 ELSE port[s]]
      /\ group' = [s \in Sockets |-> IF s \in mine THEN None ELSE group[s]]
      /\ registered' = registered \ mine
      /\ pending' = pending \ mine /\ ready' = ready \ mine
      /\ answer' = [answer EXCEPT ![d] = None]
  BY DEF Destroy, Stopped, Alive, history
<1>2. \A c \in Devices, k \in Kinds :
        /\ <<c, k>> \in Sockets /\ (<<c, k>> \in mine <=> c = d)
        /\ port'[<<c, k>>] = IF c = d THEN 0 ELSE port[<<c, k>>]
        /\ group'[<<c, k>>] = IF c = d THEN None ELSE group[<<c, k>>]
  BY <1>1 DEF Sockets
<1>3. answer'[d] = None /\ \A c \in Devices \ {d} : answer'[c] = answer[c]
  BY <1>1 DEF Inv, TypeOK, TunersOK
<1>4. SocketsOK'
  <2>1. port' \in [Sockets -> Nat] /\ group' \in [Sockets -> Groups \cup {None}]
    BY <1>1 DEF Inv, TypeOK, SocketsOK
  <2>2. \A s \in Sockets : port'[s] = 0 => group'[s] = None /\ s \notin registered'
    BY <1>1 DEF Inv, TypeOK, SocketsOK
  <2>3. \A s, t \in Sockets : s # t /\ port'[s] # 0 => port'[s] # port'[t]
    BY <1>1 DEF Inv, TypeOK, SocketsOK
  <2> QED
    BY <1>1, <2>1, <2>2, <2>3 DEF Inv, TypeOK, SocketsOK
<1>5. TunersOK' /\ HistoryOK'
  BY <1>1, <1>3 DEF Inv, TypeOK, TunersOK, HistoryOK
<1>6. PollingOK'
  BY <1>1 DEF Inv, TypeOK, PollingOK
<1>7. RangeOK'
  BY <1>1, <1>3 DEF Inv, RangeOK, Target
<1>8. UnbuiltOK'
  <2>1. \A s \in pending' : s \in Sockets /\ port'[s] = port[s] /\ s \in pending
    BY <1>1 DEF Inv, TypeOK, PollingOK
  <2>2. ASSUME NEW c \in Devices, c > built'
        PROVE  answer'[c] = None /\ \A k \in Kinds : port'[<<c, k>>] = 0
    <3>1. answer[c] = None /\ \A k \in Kinds : port[<<c, k>>] = 0
      BY <1>1, <2>2 DEF Inv, UnbuiltOK
    <3> QED
      BY <1>2, <1>3, <3>1
  <2> QED
    BY <2>1, <2>2 DEF Inv, UnbuiltOK
<1>9. WorkOK'
  <2> SUFFICES ASSUME NEW c \in Devices, NEW k \in Kinds
               PROVE  WorkDone(c, k)'
    BY DEF WorkOK
  <2>1. WorkDone(c, k) /\ (c = d => ~InWork(c, k))
    BY <1>1, StepsAre DEF Inv, WorkOK, InWork
  <2> QED
    BY <1>1, <1>2, <1>3, <2>1 DEF WorkDone, InWork, Target
<1>10. PlacedOK'
  <2> SUFFICES ASSUME NEW c \in Devices, NEW k \in Kinds, answer'[c] # None
               PROVE  Placed(c, k)'
    BY DEF PlacedOK
  <2>1. c # d /\ answer[c] # None /\ Placed(c, k) /\ answer'[c] = answer[c]
    BY <1>3 DEF Inv, PlacedOK
  <2>2. <<c, k>> \in registered' <=> <<c, k>> \in registered
    BY <1>1, <1>2, <2>1
  <2> QED
    BY <1>1, <1>2, <2>1, <2>2 DEF Placed, Before, After, Reached, Excused, Target
<1>11. NothingWaits' /\ StopOK'
  BY <1>1 DEF Inv, NothingWaits, StopOK
<1> QED
  BY <1>4, <1>5, <1>6, <1>7, <1>8, <1>9, <1>10, <1>11 DEF Inv, TypeOK

\* Every step keeps the invariant.
LEMMA NextInv == Inv /\ [Next]_vars => Inv'
<1> SUFFICES ASSUME Inv, [Next]_vars PROVE Inv'
  OBVIOUS
<1>1. CASE Build
  BY <1>1, BuildInv
<1>2. ASSUME NEW d \in Devices,
             \/ SetupUnicast(d) \/ SetupMulticast(d) \/ SetupTcp(d)
      PROVE  Inv'
  BY <1>2, SetupInv
<1>3. ASSUME NEW d \in Devices, Release(d) PROVE Inv'
  BY <1>3, ReleaseInv
<1>4. ASSUME NEW d \in Devices, NEW k \in Kinds, Unregister(d, k) PROVE Inv'
  BY <1>4, UnregisterInv
<1>5. ASSUME NEW d \in Devices, NEW k \in Kinds, Open(d, k) PROVE Inv'
  BY <1>5, OpenInv
<1>6. ASSUME NEW d \in Devices, NEW k \in Kinds, Register(d, k) PROVE Inv'
  BY <1>6, RegisterInv
<1>7. ASSUME NEW d \in Devices, NEW k \in Kinds, Arrive(d, k) PROVE Inv'
  BY <1>7, ArriveInv
<1>8. ASSUME NEW d \in Devices, Destroy(d) PROVE Inv'
  BY <1>8, DestroyInv
<1>9. CASE Wait
  BY <1>9, WaitInv
<1>10. ASSUME NEW s \in Sockets, Process(s) PROVE Inv'
  BY <1>10, ProcessInv
<1>11. CASE Stop \/ PollerEnds
  BY <1>11, StopInv
<1>12. CASE UNCHANGED vars
  <2>1. /\ UNCHANGED <<range, taken, built, port, group, registered, answer, work>>
        /\ UNCHANGED <<pending, ready, poller, events, stopping, destroyed>>
        /\ UNCHANGED <<muted, refused, strayed, setups, upsets>>
    BY <1>12 DEF vars, sockets, tuners, polling, history
  <2>2. PollingOK' /\ NothingWaits' /\ StopOK'
    BY <2>1 DEF Inv, TypeOK, PollingOK, NothingWaits, StopOK
  <2>3. \A s \in pending' : port[s] # 0
    BY <2>1 DEF Inv, UnbuiltOK
  <2> QED
    BY <2>1, <2>2, <2>3, PollerInv
<1> QED
  BY <1>1, <1>2, <1>3, <1>4, <1>5, <1>6, <1>7, <1>8, <1>9, <1>10, <1>11, <1>12
     DEF Next

\* The invariant holds throughout.
THEOREM Invariance == Spec => []Inv
BY InitInv, NextInv, PTL DEF Spec

-----------------------------------------------------------------------------
\* Every variable has its type; no two sockets share a port, and only a socket
\* with a port is registered or in a group, src/socket.c and src/poller.c.
THEOREM TypeCorrect == Spec => []TypeOK
<1>1. Inv => TypeOK
  BY DEF Inv
<1> QED
  BY <1>1, Invariance, PTL

\* Once SetupTransport (src/tuner.c) is done the sockets are where the session's
\* data go and the poller waits for them, whatever transports came before and
\* however its steps and the poller's alternate.
THEOREM Listens == Spec => []ListensOtherwise
<1>1. Inv => ListensOtherwise
  <2> SUFFICES ASSUME Inv, NEW d \in Devices, NEW k \in Kinds,
                      ~Excused(<<d, k>>), answer[d] # None, work[d] = None,
                      Target(d, k) > 0
               PROVE  Reached(d, k) /\ <<d, k>> \in registered
    BY DEF ListensOtherwise, Heard, Sockets
  <2>1. Placed(d, k) /\ After(d, k)
    BY DEF Inv, PlacedOK, After
  <2> QED
    BY <2>1 DEF Placed
<1> QED
  BY <1>1, Invariance, PTL

\* Data that wait at a registered socket are reported to the poller or among
\* the events it handles, src/poller.c.
THEOREM WaitingIsReported == Spec => []NothingWaits
<1>1. Inv => NothingWaits
  BY DEF Inv
<1> QED
  BY <1>1, Invariance, PTL

\* The poller has no event left when a device is deleted, src/satip.c.
THEOREM DestroyedIsQuiet == Spec => []NoneDestroyed
<1>1. Inv => NoneDestroyed
  BY DEF Inv, TypeOK, PollingOK, StopOK, NoneDestroyed
<1> QED
  BY <1>1, Invariance, PTL

-----------------------------------------------------------------------------
\* The loop has a turn for each pair of a range of three ports or more.
LEMMA InitTurn == PortsFit /\ Init => TurnInv
<1> SUFFICES ASSUME PortsFit, Init PROVE TurnInv
  OBVIOUS
<1>1. InTurn
  BY TransportAssumption DEF Init, InTurn, Devices
<1>2. ASSUME Roomy
      PROVE  Turns = range[2] - range[1] - 1
  <2>1. PICK r \in Ranges : range = ParsePortRange(r[1], r[2])
    BY DEF Init
  <2>2. r[1] \in Nat /\ r[2] \in Nat /\ r[2] < Word \div 2
    BY TransportAssumption DEF PortsFit
  <2>3. range # <<0, 0>>
    BY <1>2 DEF Roomy
  <2>4. range[1] = r[1] /\ range[2] = r[2] /\ range[2] >= range[1] + 2
    BY <1>2, <2>1, <2>3 DEF ParsePortRange, Roomy
  <2>5. Word \in Nat \ {0}
    BY TransportAssumption
  <2>6. (r[2] - r[1] - 1) % Word = r[2] - r[1] - 1
    BY <2>2, <2>4, <2>5
  <2> QED
    BY <2>2, <2>4, <2>5, <2>6 DEF Turns
<1> QED
  BY <1>1, <1>2 DEF TurnInv, RangeFits

\* The devices built hold fewer pairs than there are, so one is left.
LEMMA PairLeft ==
  ASSUME Inv, built < NumDevices, range \in Nat \X Nat,
         Cardinality(FreePairs) >= NumDevices,
         \A d \in 1 .. built : HasPair(d, FreePairs)
  PROVE  \E g \in FreePairs : \A d \in 1 .. built : port[<<d, "rtp">>] # g
<1> DEFINE Held == {port[<<d, "rtp">>] : d \in 1 .. built}
           f == [d \in 1 .. built |-> port[<<d, "rtp">>]]
<1>1. built \in Nat /\ NumDevices \in Nat
  BY TransportAssumption DEF Inv, TypeOK, SocketsOK
<1>2. IsFiniteSet(FreePairs)
  <2>1. IsFiniteSet(range[1] .. range[2] - 1)
    BY FS_Interval
  <2>2. FreePairs \in SUBSET (range[1] .. range[2] - 1)
    BY DEF FreePairs
  <2> QED
    BY <2>1, <2>2, FS_Subset
<1>3. Held \in SUBSET FreePairs
  BY DEF HasPair
<1>4. IsFiniteSet(1 .. built) /\ Cardinality(1 .. built) = built
  <2>1. /\ IsFiniteSet(1 .. built)
        /\ Cardinality(1 .. built) = IF 1 > built THEN 0 ELSE built - 1 + 1
    <3>1. 1 \in Int /\ built \in Int
      BY <1>1
    <3> QED
      BY <3>1, FS_Interval
  <2> QED
    BY <1>1, <2>1
<1>5. Cardinality(Held) =< built
  <2>1. f \in Surjection(1 .. built, Held)
    BY DEF Surjection
  <2> QED
    BY <1>4, <2>1, FS_Surjection
<1>6. Cardinality(FreePairs) \in Nat
  BY <1>2, FS_CardinalityType
<1>7. Held # FreePairs
  BY <1>1, <1>5, <1>6
<1> QED
  BY <1>3, <1>7

\* The next device takes the first pair it finds free, which is no later than
\* one that is left in the range.
LEMMA BuildServes ==
  ASSUME Inv, TurnInv, setups = 0, Roomy, Build
  PROVE  \A d \in 1 .. built' : HasPair(d, FreePairs)'
<1> DEFINE fit == {q \in Candidates : Free(q, None) /\ Free(q + 1, None)}
<1>1. /\ built + 1 \in Devices /\ built' = built + 1 /\ ~stopping
      /\ UNCHANGED <<range, taken>>
  BY BuildTakes
<1>2. /\ \A d \in 1 .. built : HasPair(d, FreePairs)
      /\ Turns = range[2] - range[1] - 1
  BY <1>1 DEF TurnInv, RangeFits, InTurn
<1>3. /\ range[1] \in Nat \ {0} /\ range[2] \in Nat /\ range[2] >= range[1] + 2
      /\ built \in Nat /\ NumDevices \in Nat /\ built < NumDevices
      /\ range \in Nat \X Nat
  BY <1>1, TransportAssumption DEF Roomy, Inv, RangeOK, TypeOK, SocketsOK, Devices
<1>4. PICK g \in FreePairs : \A d \in 1 .. built : port[<<d, "rtp">>] # g
  BY <1>2, <1>3, PairLeft DEF Roomy
<1>5. /\ g \in Nat /\ g >= range[1] /\ g =< range[2] - 1
      /\ (g - range[1]) % 2 = 0 /\ g \notin taken /\ g + 1 \notin taken
  BY <1>3 DEF FreePairs
<1>6. \A s \in Sockets : port[s] # g /\ port[s] # g + 1
  <2> SUFFICES ASSUME NEW d \in Devices
               PROVE  \A k \in Kinds : port[<<d, k>>] # g /\ port[<<d, k>>] # g + 1
    BY DEF Sockets
  <2>1. CASE d > built
    BY <1>3, <1>5, <2>1 DEF Inv, UnbuiltOK
  <2>2. CASE ~(d > built)
    <3>1. d \in 1 .. built
      BY <1>3, <2>2 DEF Devices
    <3> DEFINE p == port[<<d, "rtp">>]
    <3>2. /\ p \in Nat /\ p >= range[1] /\ (p - range[1]) % 2 = 0
          /\ port[<<d, "rtcp">>] = p + 1 /\ p # g
      BY <1>2, <1>3, <1>4, <3>1 DEF HasPair, FreePairs
    <3> HIDE DEF p
    <3>3. p + 1 # g /\ p # g + 1 /\ p + 1 # g + 1
      BY <1>3, <1>5, <3>2
    <3> QED
      BY <3>2, <3>3 DEF Kinds, p
  <2> QED
    BY <2>1, <2>2
<1>7. Candidates = {range[1] + 2 * j : j \in 0 .. Turns - 1}
  BY <1>3 DEF Candidates
<1>8. g \in fit
  <2> DEFINE j == (g - range[1]) \div 2
  <2>4. g - range[1] = 2 * j /\ j \in Nat
    BY <1>3, <1>5
  <2> HIDE DEF j
  <2>5. Turns \in Nat /\ j =< Turns - 1
    BY <1>2, <1>3, <1>5, <2>4
  <2>1. j \in 0 .. Turns - 1 /\ g = range[1] + 2 * j
    BY <1>3, <1>5, <2>4, <2>5
  <2>2. g \in Candidates
    BY <1>7, <2>1
  <2>3. Free(g, None) /\ Free(g + 1, None)
    BY <1>5, <1>6 DEF Free
  <2> QED
    BY <2>2, <2>3
<1>9. PICK p \in fit :
        /\ \A q \in fit : p =< q
        /\ port' = [port EXCEPT ![<<built + 1, "rtp">>] = p,
                                ![<<built + 1, "rtcp">>] = p + 1]
  BY <1>3, <1>8 DEF Build
<1>10. p \in FreePairs
  <2>1. PICK j \in 0 .. Turns - 1 : p = range[1] + 2 * j
    BY <1>7
  <2>2. p \in Nat /\ p >= range[1] /\ p =< g /\ (p - range[1]) % 2 = 0
    BY <1>2, <1>3, <1>8, <1>9, <2>1
  <2>3. p \notin taken /\ p + 1 \notin taken
    BY DEF Free
  <2> QED
    BY <1>3, <1>5, <2>2, <2>3 DEF FreePairs
<1>11. ASSUME NEW d \in 1 .. built' PROVE HasPair(d, FreePairs)'
  <2>1. d \in Devices /\ d \in Nat /\ d =< built + 1 /\ FreePairs' = FreePairs
    BY <1>1, <1>3 DEF Devices, FreePairs
  <2>2. <<d, "rtp">> \in Sockets /\ <<d, "rtcp">> \in Sockets
        /\ port \in [Sockets -> Nat]
    BY <2>1 DEF Sockets, Kinds, Inv, TypeOK, SocketsOK
  <2>3. CASE d = built + 1
    BY <1>9, <1>10, <2>1, <2>2, <2>3 DEF HasPair
  <2>4. CASE d # built + 1
    <3>1. HasPair(d, FreePairs)
      BY <1>2, <1>3, <2>1, <2>4
    <3>2. port'[<<d, "rtp">>] = port[<<d, "rtp">>]
          /\ port'[<<d, "rtcp">>] = port[<<d, "rtcp">>]
      BY <1>9, <2>2, <2>4
    <3> QED
      BY <2>1, <3>1, <3>2 DEF HasPair
  <2> QED
    BY <2>3, <2>4
<1> QED
  BY <1>11

\* No other step touches the ports before the first SETUP or the shutdown.
LEMMA NextTurn == Inv /\ TurnInv /\ [Next]_vars => TurnInv'
<1> SUFFICES ASSUME Inv, TurnInv, [Next]_vars PROVE TurnInv'
  OBVIOUS
<1>1. UNCHANGED <<range, taken>>
  <2>1. ASSUME NEW d \in Devices, NEW k \in Kinds,
               Unregister(d, k) \/ Open(d, k) \/ Register(d, k) \/ Arrive(d, k)
        PROVE  UNCHANGED <<range, taken>>
    BY <2>1 DEF Unregister, Open, Register, Arrive
  <2>2. ASSUME NEW d \in Devices, NEW t, Answered(d, t)
        PROVE  UNCHANGED <<range, taken>>
    BY <2>2 DEF Answered
  <2>3. ASSUME NEW d \in Devices, Release(d) \/ Destroy(d)
        PROVE  UNCHANGED <<range, taken>>
    BY <2>3 DEF Release, Destroy
  <2>4. ASSUME \/ Build \/ Wait \/ Stop \/ PollerEnds \/ UNCHANGED vars
               \/ \E s \in Sockets : Process(s)
        PROVE  UNCHANGED <<range, taken>>
    BY <2>4 DEF Build, Wait, Process, Stop, PollerEnds, vars
  <2> QED
    BY <2>1, <2>2, <2>3, <2>4 DEF Next, SetupUnicast, SetupMulticast, SetupTcp
<1>2. RangeFits'
  BY <1>1 DEF TurnInv, RangeFits, Roomy, Turns, FreePairs
<1>3. ASSUME setups' = 0, ~stopping'
      PROVE  /\ \A d \in Devices : answer'[d] = None /\ work'[d] = None
             /\ Roomy' => \A d \in 1 .. built' : HasPair(d, FreePairs)'
  <2>1. CASE Build
    <3>1. /\ UNCHANGED <<answer, work, setups, stopping>>
          /\ Roomy' <=> Roomy
      BY <1>1, BuildTakes, <2>1 DEF Roomy, FreePairs
    <3> QED
      BY <1>3, <2>1, <3>1, BuildServes DEF TurnInv, InTurn
  <2>2. CASE UNCHANGED <<built, port, answer, work, setups, stopping>>
    BY <1>1, <1>3, <2>2 DEF TurnInv, InTurn, Roomy, HasPair, FreePairs
  <2>3. ASSUME NEW d \in Devices, NEW t, Answered(d, t) PROVE FALSE
    BY <1>3, <2>3 DEF Answered, Inv, TypeOK, HistoryOK
  <2>4. ASSUME NEW d \in Devices, Release(d) PROVE FALSE
    <3>1. setups = 0 /\ ~stopping /\ answer[d] # None
      BY <1>3, <2>4 DEF Release, history
    <3> QED
      BY <3>1 DEF TurnInv, InTurn
  <2>5. ASSUME NEW d \in Devices, NEW k \in Kinds,
               Unregister(d, k) \/ Open(d, k) \/ Register(d, k)
        PROVE  FALSE
    <3>1. setups = 0 /\ ~stopping /\ work[d] # None
      BY <1>3, <2>5, StepsAre DEF Unregister, Open, Register
    <3> QED
      BY <3>1 DEF TurnInv, InTurn
  <2>6. ASSUME NEW d \in Devices, Destroy(d) PROVE FALSE
    BY <1>3, <2>6 DEF Destroy, Stopped, Inv, StopOK
  <2>7. ASSUME \/ \E d \in Devices, k \in Kinds : Arrive(d, k)
               \/ Wait \/ \E s \in Sockets : Process(s)
               \/ PollerEnds \/ UNCHANGED vars
        PROVE  UNCHANGED <<built, port, answer, work, setups, stopping>>
    BY <2>7 DEF Arrive, Wait, Process, PollerEnds, vars, sockets, tuners, history
  <2>8. ASSUME Stop PROVE FALSE
    BY <1>3, <2>8 DEF Stop
  <2> QED
    BY <2>1, <2>2, <2>3, <2>4, <2>5, <2>6, <2>7, <2>8
       DEF Next, SetupUnicast, SetupMulticast, SetupTcp
<1> QED
  BY <1>2, <1>3 DEF TurnInv, InTurn

\* While a range of three ports or more has a pair for every device that others
\* leave free, each device opens its sockets on one, src/tuner.c:63-77 and
\* src/satip.c, as long as the numbers are ports.
THEOREM AllServed == PortsFit /\ Spec => []EveryoneServed
<1>1. Inv /\ TurnInv => EveryoneServed
  BY DEF EveryoneServed, TurnInv, InTurn, Roomy, Devices
<1>2. PortsFit /\ Init => TurnInv
  BY InitTurn
<1>3. Inv /\ TurnInv /\ [Next]_vars => TurnInv'
  BY NextTurn
<1> QED
  BY <1>1, <1>2, <1>3, Invariance, PTL DEF Spec
=============================================================================
