----------------------- MODULE SatipFrontendsProofs -----------------------
(***************************************************************************)
(* Proofs about SatipFrontends, for any number of devices, servers,        *)
(* frontends and channels: its types, and that as long as every assignment *)
(* comes at a good moment no list of frontends is given to more devices    *)
(* than it has frontends, and every tuned device is marked on one frontend *)
(* of the list it was given.                                               *)
(***************************************************************************)
EXTENDS SatipFrontends, WellFoundedInduction, SequenceTheorems,
        FiniteSetTheorems, TLAPS

\* A tuner that is to connect has a server to connect to.
Aimed == \A d \in Devices : mode[d] # "idle" => Wanted(d) # None

\* A stream was issued by a server that was taken over.
Held == \A d \in Devices : stream[d] # None => current[d] # None

Inv == TypeOK /\ Aimed /\ Held

-----------------------------------------------------------------------------
(* Smallest and largest elements. *)

\* A set of natural numbers that is not empty has a smallest element.
LEMMA MinIn ==
  ASSUME NEW S \in SUBSET Nat, S # {}
  PROVE  Min(S) \in S /\ \A y \in S : Min(S) =< y
<1>1. PICK x \in S : \A y \in S : <<y, x>> \notin OpToRel(<, Nat)
  <2> HIDE DEF OpToRel
  <2> QED
    BY NatLessThanWellFounded, WFMin, Zenon
<1>2. ASSUME NEW y \in S
      PROVE  x =< y
  <2>1. <<y, x>> \in Nat \X Nat /\ <<y, x>>[1] = y /\ <<y, x>>[2] = x
    OBVIOUS
  <2>2. ~ (y < x)
    BY <1>1, <2>1, Zenon DEF OpToRel
  <2> QED
    BY <2>2
<1> QED
  BY <1>2 DEF Min

\* So has a bounded one a largest element.
LEMMA MaxIn ==
  ASSUME NEW n \in Nat, NEW S \in SUBSET (1 .. n), S # {}
  PROVE  Max(S) \in S
<1> DEFINE T == {n - x : x \in S}
<1>1. T \in SUBSET Nat /\ T # {}
  <2>1. PICK z \in S : TRUE
    OBVIOUS
  <2>2. n - z \in T
    BY <2>1
  <2>3. \A x \in S : n - x \in Nat
    OBVIOUS
  <2> QED
    BY <2>2, <2>3
<1>2. Min(T) \in T /\ \A y \in T : Min(T) =< y
  <2> HIDE DEF T
  <2> QED
    BY <1>1, MinIn
<1>3. PICK x \in S : Min(T) = n - x
  BY <1>2
<1>4. ASSUME NEW y \in S
      PROVE  x >= y
  <2>1. n - x =< n - y
    BY <1>2, <1>3
  <2> QED
    BY <2>1
<1> QED
  BY <1>4 DEF Max

-----------------------------------------------------------------------------
(* Lists of frontends stay lists of frontends. *)

\* Changing one frontend of a list.
LEMMA ListUpdate ==
  ASSUME NEW fs \in Seq(Frontend), NEW i \in DOMAIN fs, NEW f \in Frontend
  PROVE  [fs EXCEPT ![i] = f] \in Seq(Frontend)
BY ExceptSeq

\* Assign finds a frontend of the list, and puts it on a transponder.
LEMMA AssignList ==
  ASSUME NEW fs \in Seq(Frontend), NEW d, NEW tp \in Tps,
         Assignable(fs, d)
  PROVE  Assign(fs, d, tp) \in Seq(Frontend)
<1>1. DOMAIN fs = 1 .. Len(fs) /\ Len(fs) \in Nat
  OBVIOUS
<1>2. ToAssign(fs, d) \in DOMAIN fs
  <2>1. CASE Owned(fs, d) # {}
    <3>1. Owned(fs, d) \in SUBSET (1 .. Len(fs))
      BY <1>1 DEF Owned
    <3>2. Min(Owned(fs, d)) \in Owned(fs, d)
      BY <2>1, <3>1, MinIn
    <3> QED
      BY <1>1, <2>1, <3>1, <3>2 DEF ToAssign
  <2>2. CASE Owned(fs, d) = {}
    <3>1. Free(fs) \in SUBSET (1 .. Len(fs)) /\ Free(fs) # {}
      BY <1>1, <2>2 DEF Free, Assignable
    <3>2. Max(Free(fs)) \in Free(fs)
      BY <1>1, <3>1, MaxIn
    <3> QED
      BY <1>1, <2>2, <3>1, <3>2 DEF ToAssign
  <2> QED
    BY <2>1, <2>2
<1>3. fs[ToAssign(fs, d)] \in Frontend
  BY <1>2
<1>4. [fs[ToAssign(fs, d)] EXCEPT !.tp = tp] \in Frontend
  BY <1>3 DEF Frontend
<1> QED
  BY <1>2, <1>4, ListUpdate DEF Assign

\* Attach finds a frontend of the list, and marks it.
LEMMA AttachToList ==
  ASSUME NEW fs \in Seq(Frontend), NEW d \in Devices, NEW tp \in Nat,
         TunedTo(fs, tp) # {}
  PROVE  AttachList(fs, d, tp) \in Seq(Frontend)
<1>1. DOMAIN fs = 1 .. Len(fs) /\ Len(fs) \in Nat
  OBVIOUS
<1>2. ToAttach(fs, d, tp) \in DOMAIN fs
  <2>1. CASE Owned(fs, d) \cap TunedTo(fs, tp) # {}
    <3> DEFINE own == Owned(fs, d) \cap TunedTo(fs, tp)
    <3>1. own \in SUBSET (1 .. Len(fs)) /\ own \in SUBSET Nat /\ own # {}
      BY <1>1, <2>1 DEF Owned
    <3>2. Min(own) \in own
      <4> HIDE DEF own
      <4> QED
        BY <3>1, MinIn
    <3> QED
      BY <1>1, <2>1, <3>1, <3>2 DEF ToAttach
  <2>2. CASE Owned(fs, d) \cap TunedTo(fs, tp) = {}
    <3>1. TunedTo(fs, tp) \in SUBSET (1 .. Len(fs))
      BY <1>1 DEF TunedTo
    <3>2. Max(TunedTo(fs, tp)) \in TunedTo(fs, tp)
      BY <1>1, <3>1, MaxIn
    <3> QED
      BY <1>1, <2>2, <3>1, <3>2 DEF ToAttach
  <2> QED
    BY <2>1, <2>2
<1>3. fs[ToAttach(fs, d, tp)] \in Frontend
  BY <1>2
<1>4. [fs[ToAttach(fs, d, tp)] EXCEPT !.dev = d] \in Frontend
  BY <1>3 DEF Frontend
<1> QED
  BY <1>2, <1>4, ListUpdate DEF AttachList

\* Detach finds a frontend of the list, and takes the device's mark off it.
LEMMA DetachFromList ==
  ASSUME NEW fs \in Seq(Frontend), NEW d \in Devices, NEW tp \in Nat,
         TunedTo(fs, tp) # {}
  PROVE  DetachList(fs, d, tp) \in Seq(Frontend)
<1> DEFINE i == Min(TunedTo(fs, tp))
<1>1. DOMAIN fs = 1 .. Len(fs) /\ Len(fs) \in Nat
  OBVIOUS
<1>2. i \in DOMAIN fs
  <2>1. TunedTo(fs, tp) \in SUBSET Nat /\ TunedTo(fs, tp) \subseteq DOMAIN fs
    BY <1>1 DEF TunedTo
  <2>2. i \in TunedTo(fs, tp)
    BY <2>1, MinIn
  <2> QED
    BY <2>1, <2>2
<1>3. fs[i] \in Frontend
  BY <1>2
<1>4. [fs[i] EXCEPT !.dev = None] \in Frontend
  BY <1>3 DEF Frontend
<1>5. [fs EXCEPT ![i].dev = None] \in Seq(Frontend)
  BY <1>2, <1>4, ListUpdate
<1> QED
  BY <1>5 DEF DetachList

-----------------------------------------------------------------------------
(* The registry keeps its type through every call. *)

Registry == [Servers -> [Systems -> Seq(Frontend)]]

\* Replacing one list of the registry.
LEMMA RegistryUpdate ==
  ASSUME NEW fe \in Registry, NEW s \in Servers, NEW k \in Systems,
         NEW fs \in Seq(Frontend)
  PROVE  [fe EXCEPT ![s][k] = fs] \in Registry
BY DEF Registry

\* The list Attach and Detach stop at is one of the server's.
LEMMA HoldingList ==
  ASSUME NEW fe, NEW s, NEW tp, Holding(fe, s, tp) # {}
  PROVE  LET k == Min(Holding(fe, s, tp))
         IN  k \in Systems /\ TunedTo(fe[s][k], tp) # {}
<1>1. Holding(fe, s, tp) \in SUBSET Nat
  BY DEF Holding, Systems
<1>2. Min(Holding(fe, s, tp)) \in Holding(fe, s, tp)
  BY <1>1, MinIn
<1> QED
  BY <1>2 DEF Holding

\* Transponders are natural numbers.
LEMMA TpsAreNatural == Tps \in SUBSET Nat
BY FrontendsAssumption DEF Tps

\* AttachServer and DetachServer.
LEMMA AttachDetach ==
  ASSUME NEW fe \in Registry, NEW d \in Devices, NEW t \in Target \cup {None}
  PROVE  /\ AttachServer(fe, d, t) \in Registry
         /\ DetachServer(fe, d, t) \in Registry
<1>1. CASE t = None \/ Holding(fe, t.server, t.tp) = {}
  BY <1>1 DEF AttachServer, DetachServer
<1>2. CASE ~ (t = None \/ Holding(fe, t.server, t.tp) = {})
  <2> DEFINE k == Min(Holding(fe, t.server, t.tp))
             fs == fe[t.server][k]
  <2>1. t.server \in Servers /\ t.tp \in Nat
    BY <1>2, TpsAreNatural DEF Target
  <2>2. k \in Systems /\ TunedTo(fs, t.tp) # {}
    BY <1>2, HoldingList
  <2>3. fs \in Seq(Frontend)
    BY <2>1, <2>2 DEF Registry
  <2>4. /\ AttachList(fs, d, t.tp) \in Seq(Frontend)
        /\ DetachList(fs, d, t.tp) \in Seq(Frontend)
    BY <2>1, <2>2, <2>3, AttachToList, DetachFromList
  <2>5. AttachServer(fe, d, t) \in Registry
    <3>1. AttachServer(fe, d, t) =
            [fe EXCEPT ![t.server][k] = AttachList(fs, d, t.tp)]
      BY <1>2, <2>1, <2>2 DEF AttachServer, Registry
    <3> HIDE DEF k, fs
    <3>2. [fe EXCEPT ![t.server][k] = AttachList(fs, d, t.tp)] \in Registry
      BY <2>1, <2>2, <2>4, RegistryUpdate, Zenon
    <3> QED
      BY <3>1, <3>2
  <2>6. DetachServer(fe, d, t) \in Registry
    <3>1. DetachServer(fe, d, t) =
            [fe EXCEPT ![t.server][k] = DetachList(fs, d, t.tp)]
      BY <1>2, <2>1, <2>2 DEF DetachServer, Registry
    <3> HIDE DEF k, fs
    <3>2. [fe EXCEPT ![t.server][k] = DetachList(fs, d, t.tp)] \in Registry
      BY <2>1, <2>2, <2>4, RegistryUpdate, Zenon
    <3> QED
      BY <3>1, <3>2
  <2> QED
    BY <2>5, <2>6
<1> QED
  BY <1>1, <1>2

-----------------------------------------------------------------------------
(* Type correctness. *)

\* The initial registry has the lists the servers announced, all free.
LEMMA InitInv == Init => Inv
<1> SUFFICES ASSUME Init
             PROVE  Inv
  OBVIOUS
<1>1. frontends \in Registry
  <2>1. [tp |-> 0, dev |-> None] \in Frontend
    BY DEF Frontend
  <2>2. ASSUME NEW s \in Servers, NEW k \in Systems
        PROVE  [i \in 1 .. Count[s][k] |-> [tp |-> 0, dev |-> None]]
                 \in Seq(Frontend)
    <3>1. Count[s][k] \in Nat
      BY FrontendsAssumption
    <3> QED
      BY <2>1, <3>1
  <2> QED
    BY <2>2 DEF Init, Registry
<1>2. TypeOK
  BY <1>1, FrontendsAssumption
     DEF Init, TypeOK, RegistryOK, Registry, ZapOK, TunersOK, HistoryOK
<1> QED
  BY <1>2 DEF Init, Inv, Aimed, Held

\* AssignServer sends the device to a server, and a list of it that serves the
\* channel: the device has the transponder there, or is given a frontend.
LEMMA AssignServerIs ==
  ASSUME TypeOK, NEW d \in Devices, NEW c \in Channels, AssignServer(d, c)
  PROVE  \E s \in Servers, k \in Systems :
           /\ zapping' = [dev |-> d, server |-> s, tp |-> c.tp]
           /\ booked' = [booked EXCEPT ![d] = <<s, k>>]
           /\ calm' = (calm /\ GoodMoment(d, c.tp, s, k))
           /\ \/ Matches(frontends[s][k], d, c.tp) /\ UNCHANGED frontends
              \/ /\ Assignable(frontends[s][k], d)
                 /\ frontends' = [frontends EXCEPT
                                   ![s][k] = Assign(frontends[s][k], d, c.tp)]
<1> DEFINE matching == {s \in active : MatchingLists(s, d, c) # {}}
           giving   == {s \in active : Assigning(s, d, c) # {}}
           s == IF matching # {} THEN Min(matching) ELSE Min(giving)
           lists == IF matching # {} THEN MatchingLists(s, d, c)
                                     ELSE Assigning(s, d, c)
           k == c.lists[Min(lists)]
<1>1. c.lists \in Seq(Systems)
  BY FrontendsAssumption
<1>2. s \in active /\ s \in Servers /\ lists # {}
  <2>1. active \in SUBSET Nat /\ active \subseteq Servers
    BY DEF TypeOK, RegistryOK, Servers
  <2>2. matching \cup giving # {}
    BY DEF AssignServer
  <2>3. CASE matching # {}
    <3>1. Min(matching) \in matching
      BY <2>1, <2>3, MinIn
    <3> QED
      BY <2>1, <2>3, <3>1
  <2>4. CASE matching = {}
    <3>1. giving # {} /\ giving \in SUBSET Nat
      BY <2>1, <2>2, <2>4
    <3>2. Min(giving) \in giving
      BY <3>1, MinIn
    <3> QED
      BY <2>1, <2>4, <3>2
  <2> QED
    BY <2>3, <2>4
<1>3. Min(lists) \in lists /\ k \in Systems
  <2>1. lists \subseteq DOMAIN c.lists /\ lists \in SUBSET Nat
    <3>1. DOMAIN c.lists \in SUBSET Nat
      BY <1>1
    <3>2. lists \subseteq DOMAIN c.lists
      BY Zenon DEF MatchingLists, Assigning
    <3> QED
      BY <3>1, <3>2
  <2>2. Min(lists) \in lists
    <3> HIDE DEF lists
    <3> QED
      BY <1>2, <2>1, MinIn
  <2>3. \A i \in DOMAIN c.lists : c.lists[i] \in Systems
    BY <1>1
  <2> HIDE DEF lists
  <2> QED
    BY <2>1, <2>2, <2>3
<1>4. /\ zapping' = [dev |-> d, server |-> s, tp |-> c.tp]
      /\ booked' = [booked EXCEPT ![d] = <<s, k>>]
      /\ calm' = (calm /\ GoodMoment(d, c.tp, s, k))
      /\ frontends' = IF matching # {} THEN frontends
           ELSE [frontends EXCEPT ![s][k] = Assign(@, d, c.tp)]
  BY DEF AssignServer
<1>5. \/ Matches(frontends[s][k], d, c.tp) /\ UNCHANGED frontends
      \/ /\ Assignable(frontends[s][k], d)
         /\ frontends' = [frontends EXCEPT
                           ![s][k] = Assign(frontends[s][k], d, c.tp)]
  <2>1. CASE matching # {}
    BY <1>3, <1>4, <2>1 DEF MatchingLists
  <2>2. CASE matching = {}
    <3>1. Assignable(frontends[s][k], d)
      BY <1>3, <2>2 DEF Assigning
    <3>2. frontends' = [frontends EXCEPT
                          ![s][k] = Assign(frontends[s][k], d, c.tp)]
      BY <1>2, <1>3, <1>4, <2>2 DEF TypeOK, RegistryOK
    <3> QED
      BY <3>1, <3>2
  <2> QED
    BY <2>1, <2>2
<1> HIDE DEF s, k, matching, lists, giving
<1> QED
  BY <1>2, <1>3, <1>4, <1>5

\* So it keeps the types.
LEMMA AssignServerInv ==
  ASSUME Inv, NEW d \in Devices, NEW c \in Channels, AssignServer(d, c)
  PROVE  Inv'
<1>1. TypeOK /\ frontends \in Registry /\ c.tp \in Tps
  BY DEF Inv, TypeOK, RegistryOK, Registry, Tps
<1>2. PICK s \in Servers, k \in Systems :
        /\ zapping' = [dev |-> d, server |-> s, tp |-> c.tp]
        /\ booked' = [booked EXCEPT ![d] = <<s, k>>]
        /\ calm' = (calm /\ GoodMoment(d, c.tp, s, k))
        /\ \/ Matches(frontends[s][k], d, c.tp) /\ UNCHANGED frontends
           \/ /\ Assignable(frontends[s][k], d)
              /\ frontends' = [frontends EXCEPT
                                ![s][k] = Assign(frontends[s][k], d, c.tp)]
  BY <1>1, AssignServerIs, Zenon
<1>3. frontends' \in Registry
  <2>1. CASE UNCHANGED frontends
    BY <1>1, <2>1
  <2>2. CASE /\ Assignable(frontends[s][k], d)
             /\ frontends' = [frontends EXCEPT
                               ![s][k] = Assign(frontends[s][k], d, c.tp)]
    <3>1. frontends[s][k] \in Seq(Frontend)
      BY <1>1 DEF Registry
    <3>2. Assign(frontends[s][k], d, c.tp) \in Seq(Frontend)
      BY <1>1, <2>2, <3>1, AssignList
    <3> QED
      BY <1>1, <2>2, <3>2, RegistryUpdate, Zenon
  <2> QED
    BY <1>2, <2>1, <2>2
<1>4. /\ zaps' = zaps + 1 /\ zaps + upsets < MaxZaps
      /\ UNCHANGED <<active, tuner, upsets>>
  BY DEF AssignServer
<1>5. zaps' \in 0 .. MaxZaps
  BY <1>4, FrontendsAssumption DEF Inv, TypeOK, HistoryOK
<1>6. zapping' \in [dev : Devices, server : Servers, tp : Tps]
  BY <1>1, <1>2
<1>7. booked' \in [Devices -> (Servers \X Systems) \cup {None}] /\ calm' \in BOOLEAN
  BY <1>2 DEF Inv, TypeOK, HistoryOK
<1>8. TypeOK'
  BY <1>3, <1>4, <1>5, <1>6, <1>7
     DEF Inv, TypeOK, RegistryOK, Registry, ZapOK, TunersOK, HistoryOK, tuner
<1> QED
  BY <1>4, <1>8 DEF Inv, Aimed, Held, Wanted, tuner

\* Every action keeps the invariant.
LEMMA StepInv == Inv /\ [Next]_vars => Inv'
<1> SUFFICES ASSUME Inv, [Next]_vars
             PROVE  Inv'
  OBVIOUS
<1> USE DEF Inv, TypeOK, RegistryOK, ZapOK, TunersOK, HistoryOK, Aimed, Held,
        Wanted
<1>1. ASSUME NEW d \in Devices, NEW c \in Channels, AssignServer(d, c)
      PROVE  Inv'
  BY <1>1, AssignServerInv
<1>2. CASE SetSource
  <2> DEFINE d == zapping.dev
             t == [server |-> zapping.server, tp |-> zapping.tp]
  <2>1. d \in Devices /\ t \in Target
    BY <1>2 DEF SetSource, Target
  <2>2. t # None
    BY <2>1, TpsAreNatural, FrontendsAssumption DEF Target
  <2>3. /\ zapping' = None /\ next' = [next EXCEPT ![d] = t]
        /\ mode' = [mode EXCEPT ![d] = "set"]
        /\ UNCHANGED <<registry, booked, zaps, current, stream>>
    BY <1>2 DEF SetSource
  <2>4. /\ mustRelease' \in {mustRelease, mustRelease \cup {d}}
        /\ upsets' \in 0 .. MaxUpsets /\ calm' \in BOOLEAN
    <3>1. ReleaseFirst(d, zapping.server)
      BY <1>2 DEF SetSource
    <3>2. /\ mustRelease' \in {mustRelease, mustRelease \cup {d}}
          /\ calm' = calm \/ calm' = FALSE
          /\ upsets' = upsets \/ Upset
      <4> HIDE DEF d
      <4> QED
        BY <3>1, Zenon DEF ReleaseFirst
    <3>3. upsets' \in 0 .. MaxUpsets
      <4>1. CASE upsets' = upsets
        BY <4>1
      <4>2. CASE Upset
        BY <4>2, FrontendsAssumption DEF Upset
      <4> QED
        BY <3>2, <4>1, <4>2
    <3>4. calm' \in BOOLEAN
      BY <3>2, Zenon
    <3> QED
      BY <3>2, <3>3, <3>4, Zenon
  <2> HIDE DEF d, t
  <2> QED
    BY <2>1, <2>2, <2>3, <2>4 DEF registry
<1>4. ASSUME NEW d \in Devices, Setup(d)
      PROVE  Inv'
  <2>1. Wanted(d) \in Target
    BY <1>4 DEF Setup, Connects
  <2>2. /\ stream' \in [Devices -> Servers \cup {None}]
        /\ upsets' \in 0 .. MaxUpsets
    <3>1. Wanted(d).server \in Servers
      BY <2>1 DEF Target
    <3>2. \/ stream' = [stream EXCEPT ![d] = Wanted(d).server]
          \/ stream' = stream
      BY <1>4 DEF Setup
    <3>3. \/ upsets' = upsets
          \/ upsets < MaxUpsets /\ upsets' = upsets + 1
      BY <1>4 DEF Setup, Upset
    <3>4. stream' \in [Devices -> Servers \cup {None}]
      <4> HIDE DEF Wanted
      <4> QED
        BY <3>1, <3>2
    <3> QED
      BY <3>3, <3>4, FrontendsAssumption
  <2>3. frontends' \in Registry
    <3>1. frontends \in Registry
      BY DEF Registry
    <3> QED
      BY <1>4, <2>1, <3>1, AttachDetach DEF Setup
  <2>4. Wanted(d) # None
    BY <1>4 DEF Setup, Connects
  <2>5. /\ current' = [current EXCEPT ![d] = Wanted(d)]
        /\ next' = [next EXCEPT ![d] = None]
        /\ mode' = [mode EXCEPT ![d] = "on"] /\ d \notin mustRelease
        /\ UNCHANGED <<active, zapping, booked, calm, zaps, mustRelease>>
        /\ stream' = [stream EXCEPT ![d] = stream'[d]]
    BY <1>4 DEF Setup, TakeOver, Connects
  <2>6. RegistryOK' /\ ZapOK' /\ HistoryOK'
    BY <2>2, <2>3, <2>5 DEF Registry
  <2> DEFINE W == Wanted(d)
  <2>7. W \in Target /\ W # None
    BY <2>1, <2>4
  <2>8. current' = [current EXCEPT ![d] = W]
    BY <2>5
  <2> HIDE DEF W
  <2>9. TunersOK'
    BY <2>2, <2>5, <2>7, <2>8
  <2>10. Aimed'
    BY <2>5, <2>7, <2>8
  <2>11. Held'
    BY <2>5, <2>7, <2>8
  <2> QED
    BY <2>6, <2>9, <2>10, <2>11
<1>5. ASSUME NEW d \in Devices, Retune(d)
      PROVE  Inv'
  BY <1>5 DEF Retune, Connects, registry, history
<1>6. ASSUME NEW d \in Devices, Disconnect(d)
      PROVE  /\ frontends' \in Registry
             /\ stream' \in [Devices -> Servers \cup {None}]
             /\ stream'[d] = None
             /\ \A e \in Devices : e # d => stream'[e] = stream[e]
             /\ UNCHANGED <<active, zapping, calm, zaps, next, current>>
  <2>1. frontends \in Registry
    BY DEF Registry
  <2> QED
    BY <1>6, <2>1, AttachDetach DEF Disconnect
<1>7. ASSUME NEW d \in Devices, ConnectFailed(d)
      PROVE  Inv'
  <2>1. upsets' \in 0 .. MaxUpsets
    BY <1>7, FrontendsAssumption DEF ConnectFailed, Upset
  <2> QED
    BY <1>6, <1>7, <2>1 DEF ConnectFailed, Connects, Registry
<1>8. ASSUME NEW d \in Devices, SetAgain(d)
      PROVE  Inv'
  BY <1>8, FrontendsAssumption DEF SetAgain, Upset, registry
<1>9. ASSUME NEW d \in Devices, Release(d)
      PROVE  Inv'
  <2>1. Disconnect(d) /\ UNCHANGED upsets /\ mustRelease' = mustRelease \ {d}
    BY <1>9 DEF Release
  <2>2. /\ booked' \in [Devices -> (Servers \X Systems) \cup {None}]
        /\ mode' \in [Devices -> {"idle", "set", "retry", "on"}]
        /\ mode' = mode \/ mode'[d] = "idle"
        /\ \A e \in Devices : e # d => mode'[e] = mode[e]
    BY <1>9 DEF Release
  <2> QED
    BY <1>6, <2>1, <2>2 DEF Registry
<1>10. ASSUME NEW s \in Servers, Activate(s)
       PROVE  Inv'
  BY <1>10 DEF Activate, tuner, history
<1>11. CASE UNCHANGED vars
  BY <1>11 DEF vars, registry, tuner, history
<1> QED
  BY <1>1, <1>2, <1>4, <1>5, <1>7, <1>8, <1>9, <1>10, <1>11 DEF Next

\* Registry, calls and tuners keep their types: a tuned device always has a
\* server, a release is queued only ahead of a tsSet.
THEOREM TypeCorrect == Spec => []TypeOK
<1>1. Inv => TypeOK
  BY DEF Inv
<1> QED
  BY InitInv, StepInv, <1>1, PTL DEF Spec

-----------------------------------------------------------------------------
(* Frontends are not overbooked. *)

\* A device that uses a frontend, or is about to, and what for.
Active(d) == Zapped(d) \/ mode[d] # "idle"
Goal(d) == IF Zapped(d) THEN [server |-> zapping.server, tp |-> zapping.tp]
                        ELSE Wanted(d)

\* A device is marked on one frontend of a list at most.
MarksOK ==
  \A s \in Servers, k \in Systems :
    /\ Len(frontends[s][k]) = Count[s][k]
    /\ \A i, j \in 1 .. Len(frontends[s][k]) :
         /\ frontends[s][k][i].dev = frontends[s][k][j].dev
         /\ frontends[s][k][i].dev # None
         => i = j

\* The list a device was given.
Given(d) == frontends[booked[d][1]][booked[d][2]]

\* It is the only list of the server with a frontend on the transponder the
\* device is after, and the device has no other frontend in it.
InPlace(d) ==
  /\ booked[d] \in Servers \X Systems /\ booked[d][1] = Goal(d).server
  /\ Holding(frontends, Goal(d).server, Goal(d).tp) = {booked[d][2]}
  /\ Owned(Given(d), d) \subseteq TunedTo(Given(d), Goal(d).tp)

\* A device that is tuned is marked there.
Settled(d) == mode[d] = "on" /\ ~Zapped(d) => Owned(Given(d), d) # {}

\* So is one that goes on with its stream: it stays with the server, unless a
\* release has been requested.
StreamOK(d) ==
  stream[d] # None =>
    /\ mode[d] # "idle"
    /\ d \notin mustRelease =>
         /\ Wanted(d).server = current[d].server
         /\ Goal(d).server = current[d].server => Owned(Given(d), d) # {}

DeviceOK(d) ==
  /\ Zapped(d) => mode[d] \in {"idle", "on"}
  /\ IF Active(d) THEN InPlace(d) ELSE booked[d] = None
  /\ Settled(d) /\ StreamOK(d)

\* No two devices are after the same transponder.
Apart ==
  \A d, e \in Devices : Active(d) /\ Active(e) /\ d # e => Goal(d).tp # Goal(e).tp

Booking == MarksOK /\ Apart /\ \A d \in Devices : DeviceOK(d)

BookingOK == calm => Booking

-----------------------------------------------------------------------------
(* Which frontend the calls change. *)

\* Only frontend i differs between two lists.
SameBut(fs, gs, i) ==
  /\ i \in 1 .. Len(fs) /\ Len(gs) = Len(fs)
  /\ \A j \in 1 .. Len(fs) : j # i => gs[j] = fs[j]

\* Changing one frontend.
LEMMA ChangedIs ==
  ASSUME NEW fs \in Seq(Frontend), NEW i \in 1 .. Len(fs), NEW f \in Frontend
  PROVE  /\ SameBut(fs, [fs EXCEPT ![i] = f], i)
         /\ [fs EXCEPT ![i] = f][i] = f
BY ExceptSeq DEF SameBut

\* Assign takes a frontend of the device, or a free one if it has none, and
\* leaves the marks alone.
LEMMA AssignIs ==
  ASSUME NEW fs \in Seq(Frontend), NEW d \in Devices, NEW tp \in Tps,
         Assignable(fs, d)
  PROVE  \E i \in 1 .. Len(fs) :
           /\ i \in Owned(fs, d) \/ (Owned(fs, d) = {} /\ i \in Free(fs))
           /\ SameBut(fs, Assign(fs, d, tp), i)
           /\ Assign(fs, d, tp)[i].dev = fs[i].dev
           /\ Assign(fs, d, tp)[i].tp = tp
<1> DEFINE i == ToAssign(fs, d)
<1>1. DOMAIN fs = 1 .. Len(fs) /\ Len(fs) \in Nat
  OBVIOUS
<1>2. i \in Owned(fs, d) \/ (Owned(fs, d) = {} /\ i \in Free(fs))
  <2>1. CASE Owned(fs, d) # {}
    <3>1. Owned(fs, d) \in SUBSET Nat
      BY <1>1 DEF Owned
    <3>2. Min(Owned(fs, d)) \in Owned(fs, d)
      BY <2>1, <3>1, MinIn
    <3>3. i = Min(Owned(fs, d))
      BY <2>1 DEF ToAssign
    <3> QED
      BY <3>2, <3>3, Zenon
  <2>2. CASE Owned(fs, d) = {}
    <3>1. Free(fs) \in SUBSET (1 .. Len(fs)) /\ Free(fs) # {}
      BY <1>1, <2>2 DEF Free, Assignable
    <3> QED
      BY <1>1, <2>2, <3>1, MaxIn DEF ToAssign
  <2> QED
    BY <2>1, <2>2
<1>3. i \in 1 .. Len(fs)
  BY <1>1, <1>2 DEF Owned, Free
<1> HIDE DEF i
<1>4. fs[i] \in Frontend
  BY <1>3
<1> DEFINE f == [fs[i] EXCEPT !.tp = tp]
<1>5. f \in Frontend /\ f.dev = fs[i].dev /\ f.tp = tp
  BY <1>4 DEF Frontend
<1>6. Assign(fs, d, tp) = [fs EXCEPT ![i] = f]
  BY DEF Assign, i
<1> HIDE DEF f
<1>7. SameBut(fs, Assign(fs, d, tp), i) /\ Assign(fs, d, tp)[i] = f
  <2>1. SameBut(fs, [fs EXCEPT ![i] = f], i) /\ [fs EXCEPT ![i] = f][i] = f
    BY <1>3, <1>5, ChangedIs
  <2> QED
    BY <1>6, <2>1, Zenon
<1> QED
  BY <1>2, <1>3, <1>5, <1>7

\* Attach takes a frontend on the transponder, one of the device if it has one
\* there, and leaves the transponders alone.
LEMMA AttachIs ==
  ASSUME NEW fs \in Seq(Frontend), NEW d \in Devices, NEW tp \in Nat,
         TunedTo(fs, tp) # {}
  PROVE  \E i \in TunedTo(fs, tp) :
           /\ Owned(fs, d) \cap TunedTo(fs, tp) # {} => i \in Owned(fs, d)
           /\ SameBut(fs, AttachList(fs, d, tp), i)
           /\ AttachList(fs, d, tp)[i].dev = d
           /\ AttachList(fs, d, tp)[i].tp = fs[i].tp
<1> DEFINE i == ToAttach(fs, d, tp)
           own == Owned(fs, d) \cap TunedTo(fs, tp)
<1>1. DOMAIN fs = 1 .. Len(fs) /\ Len(fs) \in Nat
  OBVIOUS
<1>2. i \in TunedTo(fs, tp) /\ (own # {} => i \in own)
  <2>1. CASE own # {}
    <3>1. own \in SUBSET Nat
      BY <1>1 DEF Owned
    <3>2. Min(own) \in own
      <4> HIDE DEF own
      <4> QED
        BY <2>1, <3>1, MinIn
    <3> QED
      BY <2>1, <3>2 DEF ToAttach
  <2>2. CASE own = {}
    <3>1. TunedTo(fs, tp) \in SUBSET (1 .. Len(fs))
      BY <1>1 DEF TunedTo
    <3> QED
      BY <1>1, <2>2, <3>1, MaxIn DEF ToAttach
  <2> QED
    BY <2>1, <2>2
<1>3. i \in 1 .. Len(fs)
  BY <1>1, <1>2 DEF TunedTo
<1> HIDE DEF i
<1>4. fs[i] \in Frontend
  BY <1>3
<1> DEFINE f == [fs[i] EXCEPT !.dev = d]
<1>5. f \in Frontend /\ f.dev = d /\ f.tp = fs[i].tp
  BY <1>4 DEF Frontend
<1>6. AttachList(fs, d, tp) = [fs EXCEPT ![i] = f]
  BY DEF AttachList, i
<1> HIDE DEF f
<1>7. SameBut(fs, AttachList(fs, d, tp), i) /\ AttachList(fs, d, tp)[i] = f
  <2>1. SameBut(fs, [fs EXCEPT ![i] = f], i) /\ [fs EXCEPT ![i] = f][i] = f
    BY <1>3, <1>5, ChangedIs
  <2> QED
    BY <1>6, <2>1, Zenon
<1> QED
  BY <1>2, <1>5, <1>7

\* Detach takes away a mark of the device, or nothing.
LEMMA DetachIs ==
  ASSUME NEW fs \in Seq(Frontend), NEW d \in Devices, NEW tp \in Nat,
         TunedTo(fs, tp) # {}
  PROVE  /\ Len(DetachList(fs, d, tp)) = Len(fs)
         /\ \A j \in 1 .. Len(fs) :
              /\ DetachList(fs, d, tp)[j].tp = fs[j].tp
              /\ \/ DetachList(fs, d, tp)[j].dev = fs[j].dev
                 \/ (fs[j].dev = d /\ DetachList(fs, d, tp)[j].dev = None)
<1> DEFINE i == Min(TunedTo(fs, tp))
           f == [fs[i] EXCEPT !.dev = None]
<1>1. DOMAIN fs = 1 .. Len(fs) /\ Len(fs) \in Nat
  OBVIOUS
<1>2. i \in 1 .. Len(fs)
  <2>1. TunedTo(fs, tp) \in SUBSET Nat /\ TunedTo(fs, tp) \subseteq 1 .. Len(fs)
    BY <1>1 DEF TunedTo
  <2> QED
    BY <2>1, MinIn
<1>3. DetachList(fs, d, tp) = IF fs[i].dev = d THEN [fs EXCEPT ![i] = f] ELSE fs
  BY DEF DetachList
<1>4. f \in Frontend /\ f.dev = None /\ f.tp = fs[i].tp
  <2>1. fs[i] \in Frontend
    BY <1>2
  <2> QED
    BY <2>1 DEF Frontend
<1> HIDE DEF i, f
<1>5. SameBut(fs, [fs EXCEPT ![i] = f], i) /\ [fs EXCEPT ![i] = f][i] = f
  BY <1>2, <1>4, ChangedIs
<1> DEFINE gs == DetachList(fs, d, tp)
<1>6. CASE fs[i].dev = d
  <2>1. gs = [fs EXCEPT ![i] = f]
    BY <1>3, <1>6
  <2> HIDE DEF gs
  <2>2. SameBut(fs, gs, i) /\ gs[i] = f
    BY <1>5, <2>1, Zenon
  <2>3. \A j \in 1 .. Len(fs) : IF j = i THEN gs[j] = f ELSE gs[j] = fs[j]
    BY <2>2 DEF SameBut
  <2>4. \A j \in 1 .. Len(fs) :
          /\ gs[j].tp = fs[j].tp
          /\ gs[j].dev = fs[j].dev \/ (fs[j].dev = d /\ gs[j].dev = None)
    <3> SUFFICES ASSUME NEW j \in 1 .. Len(fs)
                 PROVE  /\ gs[j].tp = fs[j].tp
                        /\ \/ gs[j].dev = fs[j].dev
                           \/ (fs[j].dev = d /\ gs[j].dev = None)
      OBVIOUS
    <3>1. CASE j = i
      <4>1. gs[j] = f
        BY <2>3, <3>1
      <4> QED
        BY <1>4, <1>6, <3>1, <4>1
    <3>2. CASE j # i
      <4>1. gs[j] = fs[j]
        BY <2>3, <3>2
      <4> QED
        BY <4>1
    <3> QED
      BY <3>1, <3>2
  <2>5. Len(gs) = Len(fs)
    BY <2>2 DEF SameBut
  <2> QED
    BY <2>4, <2>5 DEF gs
<1>7. CASE fs[i].dev # d
  <2>1. gs = fs
    BY <1>3, <1>7
  <2> HIDE DEF gs
  <2>2. \A j \in 1 .. Len(fs) : gs[j].tp = fs[j].tp /\ gs[j].dev = fs[j].dev
    BY <2>1
  <2>3. Len(gs) = Len(fs)
    BY <2>1
  <2> QED
    BY <2>2, <2>3 DEF gs
<1> QED
  BY <1>6, <1>7

\* The lists of the registry.
LEMMA ListIs ==
  ASSUME TypeOK, NEW s \in Servers, NEW k \in Systems
  PROVE  LET fs == frontends[s][k]
         IN  /\ fs \in Seq(Frontend) /\ Len(fs) \in Nat /\ DOMAIN fs = 1 .. Len(fs)
             /\ \A i \in 1 .. Len(fs) : fs[i] \in Frontend
BY DEF TypeOK, RegistryOK

\* One frontend of one list is changed.
OneChanged(fe, fe2, s, k, i) ==
  /\ SameBut(fe[s][k], fe2[s][k], i)
  /\ \A r \in Servers, l \in Systems : r # s \/ l # k => fe2[r][l] = fe[r][l]

\* What AssignServer does to the registry.
LEMMA AssignServerMarks ==
  ASSUME TypeOK, NEW d \in Devices, NEW c \in Channels, AssignServer(d, c)
  PROVE  \E s \in Servers, k \in Systems : \E i \in 1 .. Len(frontends[s][k]) :
           /\ zapping' = [dev |-> d, server |-> s, tp |-> c.tp]
           /\ booked' = [booked EXCEPT ![d] = <<s, k>>]
           /\ calm' = (calm /\ GoodMoment(d, c.tp, s, k))
           /\ OneChanged(frontends, frontends', s, k, i)
           /\ \/ i \in Owned(frontends[s][k], d)
              \/ Owned(frontends[s][k], d) = {} /\ i \in Free(frontends[s][k])
           /\ frontends'[s][k][i].dev = frontends[s][k][i].dev
           /\ frontends'[s][k][i].tp = c.tp
<1>1. PICK s \in Servers, k \in Systems :
        /\ zapping' = [dev |-> d, server |-> s, tp |-> c.tp]
        /\ booked' = [booked EXCEPT ![d] = <<s, k>>]
        /\ calm' = (calm /\ GoodMoment(d, c.tp, s, k))
        /\ \/ Matches(frontends[s][k], d, c.tp) /\ UNCHANGED frontends
           \/ /\ Assignable(frontends[s][k], d)
              /\ frontends' = [frontends EXCEPT
                                ![s][k] = Assign(frontends[s][k], d, c.tp)]
  BY AssignServerIs, Zenon
<1> DEFINE fs == frontends[s][k]
<1>2. /\ fs \in Seq(Frontend) /\ DOMAIN fs = 1 .. Len(fs) /\ c.tp \in Tps
      /\ frontends \in Registry
  BY DEF TypeOK, RegistryOK, Registry, Tps
<1>3. CASE Matches(fs, d, c.tp) /\ UNCHANGED frontends
  <2>1. PICK i \in 1 .. Len(fs) : fs[i].dev = d /\ fs[i].tp = c.tp
    BY <1>2, <1>3 DEF Matches, Owned, TunedTo
  <2>2. OneChanged(frontends, frontends', s, k, i) /\ i \in Owned(fs, d)
    BY <1>2, <1>3, <2>1 DEF OneChanged, SameBut, Owned
  <2>3. frontends' = frontends
    BY <1>3
  <2> QED
    BY <1>1, <2>1, <2>2, <2>3
<1>4. CASE /\ Assignable(fs, d)
           /\ frontends' = [frontends EXCEPT ![s][k] = Assign(fs, d, c.tp)]
  <2> DEFINE gs == Assign(fs, d, c.tp)
  <2>1. PICK i \in 1 .. Len(fs) :
          /\ i \in Owned(fs, d) \/ (Owned(fs, d) = {} /\ i \in Free(fs))
          /\ SameBut(fs, gs, i) /\ gs[i].dev = fs[i].dev /\ gs[i].tp = c.tp
    BY <1>2, <1>4, AssignIs
  <2> HIDE DEF gs
  <2>2. /\ frontends'[s][k] = gs
        /\ \A r \in Servers, l \in Systems :
             r # s \/ l # k => frontends'[r][l] = frontends[r][l]
    <3>1. frontends' = [frontends EXCEPT ![s][k] = gs]
      BY <1>4 DEF gs
    <3> QED
      BY <1>2, <3>1 DEF Registry
  <2>3. OneChanged(frontends, frontends', s, k, i)
    BY <2>1, <2>2 DEF OneChanged
  <2> QED
    BY <1>1, <2>1, <2>2, <2>3
<1> QED
  BY <1>1, <1>3, <1>4

\* What Attach does to the registry, for a device in place.
LEMMA AttachMarks ==
  ASSUME TypeOK, NEW d \in Devices, NEW t \in Target, NEW k \in Systems,
         Holding(frontends, t.server, t.tp) = {k}
  PROVE  \E i \in TunedTo(frontends[t.server][k], t.tp) :
           LET fs == frontends[t.server][k]
               fe == AttachServer(frontends, d, t)
           IN  /\ Owned(fs, d) \cap TunedTo(fs, t.tp) # {} => i \in Owned(fs, d)
               /\ OneChanged(frontends, fe, t.server, k, i)
               /\ fe[t.server][k][i].dev = d
               /\ fe[t.server][k][i].tp = fs[i].tp
<1> DEFINE s == t.server
           fs == frontends[s][k]
           fe == AttachServer(frontends, d, t)
           gs == AttachList(fs, d, t.tp)
<1>1. s \in Servers /\ t.tp \in Nat /\ frontends \in Registry /\ t # None
  BY TpsAreNatural, FrontendsAssumption
     DEF Target, TypeOK, RegistryOK, Registry
<1>2. Min({k}) = k
  <2>1. {k} \in SUBSET Nat
    BY DEF Systems
  <2> QED
    BY <2>1, MinIn
<1>3. fe = [frontends EXCEPT ![s][k] = gs]
  BY <1>1, <1>2 DEF AttachServer, Registry
<1>4. fs \in Seq(Frontend) /\ TunedTo(fs, t.tp) # {}
  <2>1. fs \in Seq(Frontend)
    BY <1>1 DEF Registry
  <2>2. k \in Holding(frontends, s, t.tp)
    OBVIOUS
  <2> QED
    BY <2>1, <2>2 DEF Holding
<1>5. PICK i \in TunedTo(fs, t.tp) :
        /\ Owned(fs, d) \cap TunedTo(fs, t.tp) # {} => i \in Owned(fs, d)
        /\ SameBut(fs, gs, i) /\ gs[i].dev = d /\ gs[i].tp = fs[i].tp
  BY <1>1, <1>4, AttachIs
<1> HIDE DEF gs, fe
<1>6. /\ fe[s][k] = gs
      /\ \A r \in Servers, l \in Systems :
           r # s \/ l # k => fe[r][l] = frontends[r][l]
  BY <1>1, <1>3 DEF Registry
<1>7. OneChanged(frontends, fe, s, k, i)
  BY <1>5, <1>6 DEF OneChanged
<1> QED
  BY <1>5, <1>6, <1>7 DEF fe

\* Detach takes away marks of the device only.
Cleared(fe, fe2, d) ==
  \A s \in Servers, k \in Systems :
    /\ Len(fe2[s][k]) = Len(fe[s][k])
    /\ \A j \in 1 .. Len(fe[s][k]) :
         /\ fe2[s][k][j].tp = fe[s][k][j].tp
         /\ \/ fe2[s][k][j].dev = fe[s][k][j].dev
            \/ fe[s][k][j].dev = d /\ fe2[s][k][j].dev = None
LEMMA DetachMarks ==
  ASSUME TypeOK, NEW d \in Devices, NEW t \in Target \cup {None}
  PROVE  Cleared(frontends, DetachServer(frontends, d, t), d)
<1>1. CASE t = None \/ Holding(frontends, t.server, t.tp) = {}
  BY <1>1 DEF DetachServer, Cleared
<1>2. CASE ~ (t = None \/ Holding(frontends, t.server, t.tp) = {})
  <2> DEFINE k == Min(Holding(frontends, t.server, t.tp))
             fs == frontends[t.server][k]
             gs == DetachList(fs, d, t.tp)
             fe == DetachServer(frontends, d, t)
  <2>1. t.server \in Servers /\ t.tp \in Nat /\ frontends \in Registry
    BY <1>2, TpsAreNatural DEF Target, TypeOK, RegistryOK, Registry
  <2>2. k \in Systems /\ TunedTo(fs, t.tp) # {}
    BY <1>2, HoldingList
  <2>3. fs \in Seq(Frontend)
    BY <2>1, <2>2 DEF Registry
  <2>4. fe = [frontends EXCEPT ![t.server][k] = gs]
    BY <1>2, <2>1, <2>2 DEF DetachServer, Registry
  <2> HIDE DEF k
  <2>5. /\ Len(gs) = Len(fs)
        /\ \A j \in 1 .. Len(fs) :
             /\ gs[j].tp = fs[j].tp
             /\ gs[j].dev = fs[j].dev \/ (fs[j].dev = d /\ gs[j].dev = None)
    BY <2>1, <2>2, <2>3, DetachIs
  <2> HIDE DEF gs, fe
  <2>6. /\ fe[t.server][k] = gs
        /\ \A r \in Servers, l \in Systems :
             r # t.server \/ l # k => fe[r][l] = frontends[r][l]
    BY <2>1, <2>2, <2>4 DEF Registry
  <2>7. ASSUME NEW r \in Servers, NEW l \in Systems
        PROVE  /\ Len(fe[r][l]) = Len(frontends[r][l])
               /\ \A j \in 1 .. Len(frontends[r][l]) :
                    /\ fe[r][l][j].tp = frontends[r][l][j].tp
                    /\ \/ fe[r][l][j].dev = frontends[r][l][j].dev
                       \/ frontends[r][l][j].dev = d /\ fe[r][l][j].dev = None
    <3>1. CASE r = t.server /\ l = k
      BY <2>5, <2>6, <3>1
    <3>2. CASE r # t.server \/ l # k
      BY <2>6, <3>2
    <3> QED
      BY <3>1, <3>2
  <2>8. Cleared(frontends, fe, d)
    BY <2>7 DEF Cleared
  <2> QED
    BY <2>8 DEF fe
<1> QED
  BY <1>1, <1>2

-----------------------------------------------------------------------------
(* Every step keeps the marks. *)

\* A tuner that is left alone.
Alone(e) ==
  /\ mode'[e] = mode[e] /\ current'[e] = current[e] /\ stream'[e] = stream[e]
  /\ (e \in mustRelease' <=> e \in mustRelease) /\ booked'[e] = booked[e]
  /\ (Zapped(e))' <=> Zapped(e)
  /\ Wanted(e)' = Wanted(e) /\ Goal(e)' = Goal(e)

\* And the frontends it relies on.
FrontendsKept(e) ==
  LET fs == frontends[booked[e][1]][booked[e][2]]
      gs == frontends'[booked[e][1]][booked[e][2]]
      t  == Goal(e)
  IN  /\ Owned(gs, e) = Owned(fs, e)
      /\ Owned(gs, e) \subseteq TunedTo(gs, t.tp)
      /\ Holding(frontends', t.server, t.tp) = Holding(frontends, t.server, t.tp)

\* It stays in order as long as they are kept.
LEMMA AloneOK ==
  ASSUME NEW e \in Devices, DeviceOK(e), Alone(e), Active(e) => FrontendsKept(e),
         stream[e] # None => mode[e] # "idle"
  PROVE  DeviceOK(e)'
<1>1. (Active(e))' <=> Active(e)
  BY DEF Alone, Active
<1>2. CASE ~Active(e)
  <2>1. /\ mode'[e] = "idle" /\ stream'[e] = None /\ booked'[e] = None
        /\ ~(Zapped(e))'
    BY <1>2 DEF Alone, DeviceOK, StreamOK, Active
  <2> QED
    BY <1>1, <1>2, <2>1 DEF DeviceOK, Settled, StreamOK
<1>3. CASE Active(e)
  <2>1. /\ Owned(Given(e)', e) = Owned(Given(e), e)
        /\ Owned(Given(e)', e) \subseteq TunedTo(Given(e)', Goal(e).tp)
        /\ Holding(frontends', Goal(e).server, Goal(e).tp) =
             Holding(frontends, Goal(e).server, Goal(e).tp)
    BY <1>3 DEF FrontendsKept, Given, Alone
  <2>2. InPlace(e)
    BY <1>3 DEF DeviceOK
  <2>3. InPlace(e)'
    BY <2>1, <2>2 DEF InPlace, Alone
  <2>4. Settled(e)'
    BY <2>1 DEF DeviceOK, Settled, Alone
  <2>5. StreamOK(e)'
    BY <2>1 DEF DeviceOK, StreamOK, Alone
  <2> QED
    BY <1>1, <1>3, <2>3, <2>4, <2>5 DEF DeviceOK, Alone
<1> QED
  BY <1>2, <1>3

\* Devices that go on after what they were after stay apart.
LEMMA ApartKept ==
  ASSUME Apart,
         \A e \in Devices : (Active(e))' => Active(e) /\ Goal(e)' = Goal(e)
  PROVE  Apart'
BY DEF Apart

\* The list a device in place was given.
LEMMA PlaceIs ==
  ASSUME TypeOK, TypeOK', NEW e \in Devices, InPlace(e)
  PROVE  /\ booked[e][1] \in Servers /\ booked[e][2] \in Systems
         /\ booked[e][1] = Goal(e).server
         /\ Given(e) \in Seq(Frontend)
         /\ frontends'[booked[e][1]][booked[e][2]] \in Seq(Frontend)
<1>1. booked[e][1] \in Servers /\ booked[e][2] \in Systems
  BY DEF InPlace
<1> QED
  BY <1>1 DEF InPlace, Given, TypeOK, RegistryOK

\* No frontend leaves its transponder.
SameTps ==
  \A r \in Servers, l \in Systems :
    /\ Len(frontends'[r][l]) = Len(frontends[r][l])
    /\ \A j \in 1 .. Len(frontends[r][l]) :
         frontends'[r][l][j].tp = frontends[r][l][j].tp

\* Then the lists keep what they have on each transponder.
LEMMA TpsKept ==
  ASSUME TypeOK, TypeOK', SameTps
  PROVE  \A r \in Servers : \A tp :
           /\ \A l \in Systems :
                TunedTo(frontends'[r][l], tp) = TunedTo(frontends[r][l], tp)
           /\ Holding(frontends', r, tp) = Holding(frontends, r, tp)
<1>1. ASSUME NEW r \in Servers, NEW tp, NEW l \in Systems
      PROVE  TunedTo(frontends'[r][l], tp) = TunedTo(frontends[r][l], tp)
  <2>1. /\ DOMAIN frontends[r][l] = 1 .. Len(frontends[r][l])
        /\ DOMAIN frontends'[r][l] = 1 .. Len(frontends[r][l])
    BY DEF TypeOK, RegistryOK, SameTps
  <2> QED
    BY <2>1 DEF TunedTo, SameTps
<1>2. ASSUME NEW r \in Servers, NEW tp
      PROVE  Holding(frontends', r, tp) = Holding(frontends, r, tp)
  BY <1>1 DEF Holding
<1> QED
  BY <1>1, <1>2

\* Then a device that keeps its marks keeps its frontends.
LEMMA MarksKept ==
  ASSUME TypeOK, TypeOK', SameTps, NEW e \in Devices, InPlace(e),
         LET fs == Given(e)
             gs == frontends'[booked[e][1]][booked[e][2]]
         IN  \A j \in 1 .. Len(fs) : gs[j].dev = e <=> fs[j].dev = e
  PROVE  FrontendsKept(e)
<1> DEFINE fs == Given(e)
           gs == frontends'[booked[e][1]][booked[e][2]]
<1>1. /\ booked[e][1] \in Servers /\ booked[e][2] \in Systems
      /\ booked[e][1] = Goal(e).server
      /\ fs \in Seq(Frontend) /\ gs \in Seq(Frontend)
  BY PlaceIs
<1>2. Len(gs) = Len(fs)
  BY <1>1 DEF SameTps, Given
<1>3. TunedTo(gs, Goal(e).tp) = TunedTo(fs, Goal(e).tp)
  BY <1>1, TpsKept DEF Given
<1>4. Holding(frontends', Goal(e).server, Goal(e).tp) =
        Holding(frontends, Goal(e).server, Goal(e).tp)
  BY <1>1, TpsKept
<1>5. Owned(fs, e) \subseteq TunedTo(fs, Goal(e).tp)
  BY DEF InPlace
<1>6. \A j \in 1 .. Len(fs) : gs[j].dev = e <=> fs[j].dev = e
  OBVIOUS
<1>7. fs = frontends[booked[e][1]][booked[e][2]]
  BY DEF Given
<1> HIDE DEF fs, gs
<1>8. Owned(gs, e) = Owned(fs, e)
  BY <1>1, <1>2, <1>6 DEF Owned
<1> QED
  BY <1>3, <1>4, <1>5, <1>7, <1>8 DEF FrontendsKept, gs

\* AssignServer changes the transponder of a frontend that is free or belongs to
\* the device.
LEMMA AssignServerBooking ==
  ASSUME Inv, TypeOK', Booking, NEW d \in Devices, NEW c \in Channels,
         AssignServer(d, c), calm'
  PROVE  Booking'
<1>1. zapping = None /\ UNCHANGED <<next, current, stream, mode, mustRelease>>
  BY DEF AssignServer, tuner
<1>2. PICK s \in Servers, k \in Systems : \E i \in 1 .. Len(frontends[s][k]) :
        /\ zapping' = [dev |-> d, server |-> s, tp |-> c.tp]
        /\ booked' = [booked EXCEPT ![d] = <<s, k>>]
        /\ calm' = (calm /\ GoodMoment(d, c.tp, s, k))
        /\ OneChanged(frontends, frontends', s, k, i)
        /\ \/ i \in Owned(frontends[s][k], d)
           \/ Owned(frontends[s][k], d) = {} /\ i \in Free(frontends[s][k])
        /\ frontends'[s][k][i].dev = frontends[s][k][i].dev
        /\ frontends'[s][k][i].tp = c.tp
  BY AssignServerMarks DEF Inv
<1> DEFINE fs == frontends[s][k]
           gs == frontends'[s][k]
<1>3. PICK i \in 1 .. Len(fs) :
        /\ zapping' = [dev |-> d, server |-> s, tp |-> c.tp]
        /\ booked' = [booked EXCEPT ![d] = <<s, k>>]
        /\ calm' = (calm /\ GoodMoment(d, c.tp, s, k))
        /\ OneChanged(frontends, frontends', s, k, i)
        /\ i \in Owned(fs, d) \/ (Owned(fs, d) = {} /\ i \in Free(fs))
        /\ gs[i].dev = fs[i].dev /\ gs[i].tp = c.tp
  BY <1>2
<1>4. /\ Len(fs) \in Nat /\ DOMAIN fs = 1 .. Len(fs)
      /\ Len(gs) = Len(fs) /\ DOMAIN gs = 1 .. Len(fs)
      /\ \A j \in 1 .. Len(fs) : gs[j].dev = fs[j].dev /\ (j # i => gs[j] = fs[j])
  <2>1. fs \in Seq(Frontend) /\ gs \in Seq(Frontend)
    BY DEF Inv, TypeOK, RegistryOK
  <2>2. Len(gs) = Len(fs) /\ \A j \in 1 .. Len(fs) : j # i => gs[j] = fs[j]
    BY <1>3 DEF OneChanged, SameBut
  <2> QED
    BY <1>3, <2>1, <2>2
<1>5. /\ \A e \in Devices : mode[e] \in {"idle", "on"}
      /\ \A e \in Devices : e # d /\ mode[e] # "idle" => Wanted(e).tp # c.tp
      /\ \A j \in Systems \ {k} :
           Owned(frontends[s][j], d) = {} /\ TunedTo(frontends[s][j], c.tp) = {}
  <2>1. GoodMoment(d, c.tp, s, k)
    BY <1>3
  <2> QED
    BY <2>1 DEF GoodMoment, ReceivedBy
<1>6. /\ \A e \in Devices : ~Zapped(e) /\ Goal(e) = Wanted(e) /\ Wanted(e)' = Wanted(e)
      /\ \A e \in Devices : (Zapped(e))' <=> e = d
  <2>1. zapping' # None /\ zapping'.dev = d
    <3>1. zapping' \in [dev : Devices, server : Servers, tp : Nat]
      BY <1>3, FrontendsAssumption
    <3> QED
      BY <1>3, <3>1, FrontendsAssumption
  <2> QED
    BY <1>1, <2>1 DEF Zapped, Goal, Wanted
<1>7. Goal(d)' = [server |-> s, tp |-> c.tp]
  BY <1>3, <1>6 DEF Goal
<1>8. \A r \in Servers, l \in Systems :
        /\ DOMAIN frontends[r][l] = 1 .. Len(frontends[r][l])
        /\ DOMAIN frontends'[r][l] = 1 .. Len(frontends[r][l])
        /\ Len(frontends'[r][l]) = Len(frontends[r][l])
        /\ \A j \in 1 .. Len(frontends[r][l]) :
             /\ frontends'[r][l][j].dev = frontends[r][l][j].dev
             /\ frontends'[r][l][j] = frontends[r][l][j]
                \/ (r = s /\ l = k /\ j = i)
  <2>1. \A r \in Servers, l \in Systems :
          /\ DOMAIN frontends[r][l] = 1 .. Len(frontends[r][l])
          /\ r # s \/ l # k => frontends'[r][l] = frontends[r][l]
    BY <1>3 DEF OneChanged, Inv, TypeOK, RegistryOK
  <2> QED
    BY <1>4, <2>1
<1>9. \A r \in Servers, l \in Systems, e \in Devices :
        Owned(frontends'[r][l], e) = Owned(frontends[r][l], e)
  <2> TAKE r \in Servers, l \in Systems, e \in Devices
  <2>1. /\ DOMAIN frontends'[r][l] = DOMAIN frontends[r][l]
        /\ \A j \in DOMAIN frontends[r][l] :
             frontends'[r][l][j].dev = frontends[r][l][j].dev
    BY <1>8
  <2> QED
    BY <2>1 DEF Owned
<1>10. MarksOK'
  BY <1>8 DEF Booking, MarksOK
<1>11. Apart'
  <2>1. \A e \in Devices : e # d => /\ (Active(e))' => Active(e) /\ Wanted(e).tp # c.tp
                                    /\ Goal(e)' = Goal(e)
    BY <1>1, <1>5, <1>6 DEF Active, Goal
  <2>2. Goal(d)'.tp = c.tp
    BY <1>7
  <2> QED
    BY <1>6, <2>1, <2>2 DEF Apart, Booking
<1>12. ASSUME NEW e \in Devices, e # d
       PROVE  DeviceOK(e)'
  <2>1. Alone(e) /\ DeviceOK(e)
    <3>1. booked'[e] = booked[e] /\ Goal(e)' = Goal(e)
      BY <1>3, <1>6, <1>12 DEF Inv, TypeOK, HistoryOK, Goal
    <3> QED
      BY <1>1, <1>6, <1>12, <3>1 DEF Alone, Booking
  <2>2. ASSUME Active(e)
        PROVE  FrontendsKept(e)
    <3> DEFINE t == Goal(e)
               r == booked[e][1]
               l == booked[e][2]
    <3>1. /\ InPlace(e) /\ Owned(Given(e), e) # {} /\ t.tp # c.tp
      <4>1. mode[e] = "on"
        BY <1>5, <1>6, <2>2 DEF Active
      <4> QED
        BY <1>5, <1>6, <1>12, <2>1, <2>2, <4>1 DEF DeviceOK, Settled
    <3>2. r \in Servers /\ l \in Systems /\ r = t.server
      BY <3>1, PlaceIs DEF Inv
    <3>3. /\ Holding(frontends, r, t.tp) = {l}
          /\ Owned(frontends[r][l], e) \subseteq TunedTo(frontends[r][l], t.tp)
          /\ Owned(frontends[r][l], e) # {}
      BY <3>1, <3>2 DEF InPlace, Given
    <3>4. fs[i].dev # e
      BY <1>3, <1>12, FrontendsAssumption DEF Owned, Free
    <3> HIDE DEF t, r, l
    <3>5. Owned(frontends'[r][l], e) \subseteq TunedTo(frontends'[r][l], t.tp)
      <4> SUFFICES ASSUME NEW j \in Owned(frontends'[r][l], e)
                   PROVE  j \in TunedTo(frontends'[r][l], t.tp)
        OBVIOUS
      <4>1. j \in Owned(frontends[r][l], e) /\ j \in TunedTo(frontends[r][l], t.tp)
        BY <1>9, <3>2, <3>3
      <4>2. j \in 1 .. Len(frontends[r][l]) /\ frontends[r][l][j].dev = e
            /\ frontends[r][l][j].tp = t.tp
        BY <1>8, <3>2, <4>1 DEF Owned, TunedTo
      <4>3. frontends'[r][l][j] = frontends[r][l][j]
        BY <1>8, <3>2, <3>4, <4>2
      <4> QED
        BY <1>8, <3>2, <4>2, <4>3 DEF TunedTo
    <3>6. ASSUME NEW m \in Systems
          PROVE  TunedTo(frontends'[r][m], t.tp) # {} <=> m = l
      <4>1. CASE m = l
        BY <1>9, <3>2, <3>3, <3>5, <4>1
      <4>2. CASE m # l
        <5>1. TunedTo(frontends[r][m], t.tp) = {}
          BY <3>3, <4>2 DEF Holding
        <5>2. ASSUME NEW j \in TunedTo(frontends'[r][m], t.tp)
              PROVE  FALSE
          <6>1. j \in 1 .. Len(frontends[r][m]) /\ frontends'[r][m][j].tp = t.tp
            BY <1>8, <3>2, <5>2 DEF TunedTo
          <6>2. frontends'[r][m][j] = frontends[r][m][j]
            BY <1>3, <1>8, <3>1, <3>2, <6>1 DEF t
          <6>3. j \in TunedTo(frontends[r][m], t.tp)
            BY <1>8, <3>2, <6>1, <6>2 DEF TunedTo
          <6> QED
            BY <5>1, <6>3
        <5> QED
          BY <4>2, <5>2
      <4> QED
        BY <4>1, <4>2
    <3>7. Holding(frontends', r, t.tp) = {l}
      BY <3>2, <3>6 DEF Holding
    <3>8. Owned(frontends'[r][l], e) = Owned(frontends[r][l], e)
      BY <1>9, <3>2
    <3> QED
      BY <3>2, <3>3, <3>5, <3>7, <3>8 DEF FrontendsKept, t, r, l
  <2>3. stream[e] # None => mode[e] # "idle"
    BY <2>1 DEF DeviceOK, StreamOK
  <2> QED
    BY <2>1, <2>2, <2>3, AloneOK
<1>13. DeviceOK(d)'
  <2>1. booked'[d] = <<s, k>>
    BY <1>3 DEF Inv, TypeOK, HistoryOK
  <2>2. /\ booked'[d] \in Servers \X Systems /\ booked'[d][1] = s
        /\ booked'[d][2] = k /\ Given(d)' = gs
    BY <2>1 DEF Given
  <2>3. i \in TunedTo(gs, c.tp)
    BY <1>3, <1>4 DEF TunedTo
  <2>4. ASSUME NEW j \in Owned(gs, d)
        PROVE  j \in TunedTo(gs, c.tp)
    <3>1. j \in 1 .. Len(fs) /\ fs[j].dev = d
      BY <1>4 DEF Owned
    <3>2. fs[i].dev = d /\ d # None
      BY <1>3, <1>4, <3>1, FrontendsAssumption DEF Owned
    <3>3. i = j
      BY <3>1, <3>2 DEF Booking, MarksOK
    <3> QED
      BY <2>3, <3>3
  <2>5. Holding(frontends', s, c.tp) = {k}
    <3>1. \A l \in Systems : l # k => TunedTo(frontends'[s][l], c.tp) = {}
      <4>1. \A l \in Systems : l # k => frontends'[s][l] = frontends[s][l]
        BY <1>3 DEF OneChanged
      <4> QED
        BY <1>5, <4>1
    <3> QED
      BY <2>3, <3>1 DEF Holding
  <2>6. InPlace(d)'
    BY <1>7, <2>2, <2>4, <2>5 DEF InPlace
  <2>7. StreamOK(d)'
    <3>1. CASE stream[d] = None
      BY <1>1, <3>1 DEF StreamOK
    <3>2. CASE stream[d] # None
      <4>1. mode[d] = "on" /\ DeviceOK(d) /\ d \notin mustRelease
        <5>1. mode[d] = "on" /\ DeviceOK(d)
          BY <1>5, <3>2 DEF Booking, DeviceOK, StreamOK
        <5> QED
          BY <5>1 DEF Inv, TypeOK, TunersOK
      <4>2. InPlace(d) /\ Wanted(d).server = current[d].server
            /\ Owned(Given(d), d) # {}
        BY <1>6, <3>2, <4>1 DEF DeviceOK, Active, Settled, StreamOK
      <4>3. ASSUME s = current[d].server
            PROVE  Owned(gs, d) # {}
        <5> DEFINE l == booked[d][2]
        <5>1. l \in Systems /\ Given(d) = frontends[s][l]
          BY <1>6, <4>2, <4>3 DEF InPlace, Given
        <5>2. l = k
          BY <1>5, <4>2, <5>1
        <5> QED
          BY <1>9, <4>2, <5>1, <5>2
      <4> QED
        BY <1>1, <1>6, <1>7, <2>2, <4>1, <4>2, <4>3 DEF StreamOK
    <3> QED
      BY <3>1, <3>2
  <2>8. mode'[d] \in {"idle", "on"} /\ (Zapped(d))'
    BY <1>1, <1>5, <1>6
  <2> QED
    BY <2>6, <2>7, <2>8 DEF DeviceOK, Active, Settled
<1> QED
  BY <1>10, <1>11, <1>12, <1>13 DEF Booking

\* SetSource turns the call into the tuner's next server.
LEMMA SetSourceBooking ==
  ASSUME Inv, TypeOK', Booking, SetSource, calm'
  PROVE  Booking'
<1>1. zapping # None /\ zapping \in [dev : Devices, server : Servers, tp : Tps]
  BY DEF SetSource, Inv, TypeOK, ZapOK
<1>2. PICK d \in Devices : zapping.dev = d
  BY <1>1
<1>3. PICK t \in Target : t = [server |-> zapping.server, tp |-> zapping.tp]
  BY <1>1 DEF Target
<1>4. t # None /\ Zapped(d) /\ Goal(d) = t
  <2>1. t # None
    BY TpsAreNatural, FrontendsAssumption DEF Target
  <2> QED
    BY <1>1, <1>2, <1>3, <2>1 DEF Zapped, Goal
<1>5. /\ zapping' = None /\ next' = [next EXCEPT ![d] = t]
      /\ mode' = [mode EXCEPT ![d] = "set"]
      /\ UNCHANGED <<frontends, booked, current, stream>>
  BY <1>2, <1>3 DEF SetSource, registry
<1>6. \/ /\ current[d] = None \/ current[d].server = t.server \/ mode[d] = "idle"
         /\ UNCHANGED mustRelease
      \/ mustRelease' = mustRelease \cup {d}
  <2>1. ReleaseFirst(d, t.server)
    BY <1>2, <1>3 DEF SetSource
  <2> QED
    BY <2>1 DEF ReleaseFirst
<1>7. /\ \A e \in Devices : e # d =>
           /\ mode'[e] = mode[e] /\ next'[e] = next[e]
           /\ (e \in mustRelease' <=> e \in mustRelease)
      /\ mode'[d] = "set" /\ next'[d] = t
  BY <1>5, <1>6 DEF Inv, TypeOK, TunersOK
<1>8. /\ \A e \in Devices : ~(Zapped(e))' /\ (Zapped(e) <=> e = d)
      /\ \A e \in Devices : Goal(e)' = Goal(e)
      /\ \A e \in Devices : e # d => Wanted(e)' = Wanted(e)
      /\ Wanted(d)' = t
  BY <1>2, <1>4, <1>5, <1>7 DEF Zapped, Goal, Wanted
<1>9. MarksOK'
  BY <1>5 DEF Booking, MarksOK
<1>10. Apart'
  BY <1>7, <1>8, ApartKept DEF Active, Booking
<1>11. ASSUME NEW e \in Devices, e # d
       PROVE  DeviceOK(e)'
  <2>1. Alone(e) /\ DeviceOK(e)
    BY <1>5, <1>7, <1>8, <1>11 DEF Alone, Booking
  <2>2. ASSUME Active(e)
        PROVE  FrontendsKept(e)
    BY <1>5, <2>1, <2>2 DEF FrontendsKept, DeviceOK, InPlace, Given
  <2> QED
    BY <2>1, <2>2, AloneOK DEF DeviceOK, StreamOK
<1>12. DeviceOK(d)'
  <2>1. /\ InPlace(d) /\ StreamOK(d) /\ mode[d] \in {"idle", "on"}
        /\ d \notin mustRelease
    <3>1. InPlace(d) /\ StreamOK(d) /\ mode[d] \in {"idle", "on"}
      BY <1>4 DEF Booking, DeviceOK, Active
    <3> QED
      BY <3>1 DEF Inv, TypeOK, TunersOK
  <2>2. InPlace(d)'
    BY <1>5, <1>8, <2>1 DEF InPlace, Given
  <2>3. StreamOK(d)'
    <3> SUFFICES ASSUME stream[d] # None, d \notin mustRelease'
                 PROVE  t.server = current[d].server /\ Owned(Given(d), d) # {}
      BY <1>4, <1>5, <1>7, <1>8 DEF StreamOK, Given
    <3>1. mode[d] # "idle" /\ current[d] # None
      BY <2>1 DEF StreamOK, Inv, Held
    <3>2. current[d].server = t.server
      BY <1>6, <3>1
    <3> QED
      BY <1>4, <2>1, <3>2 DEF StreamOK
  <2> QED
    BY <1>7, <1>8, <2>2, <2>3 DEF DeviceOK, Active, Settled
<1> QED
  BY <1>9, <1>10, <1>11, <1>12 DEF Booking

\* Just retuning: the device has a stream, and so a mark.
LEMMA RetuneBooking ==
  ASSUME Inv, TypeOK', Booking, NEW d \in Devices, Retune(d)
  PROVE  Booking'
<1>1. /\ mode[d] \in {"set", "retry"} /\ d \notin mustRelease /\ stream[d] # None
      /\ mode' = [mode EXCEPT ![d] = "on"]
      /\ UNCHANGED <<frontends, zapping, booked, next, current, stream, mustRelease>>
  BY DEF Retune, Connects, registry, history
<1>2. /\ \A e \in Devices : e # d => mode'[e] = mode[e]
      /\ mode'[d] = "on"
  BY <1>1 DEF Inv, TypeOK, TunersOK
<1>3. \A e \in Devices : /\ (Zapped(e))' <=> Zapped(e)
                         /\ Wanted(e)' = Wanted(e) /\ Goal(e)' = Goal(e)
  BY <1>1 DEF Zapped, Wanted, Goal
<1>4. MarksOK'
  BY <1>1 DEF Booking, MarksOK
<1>5. Apart'
  BY <1>1, <1>2, <1>3, ApartKept DEF Active, Booking
<1>6. ASSUME NEW e \in Devices, e # d
      PROVE  DeviceOK(e)'
  <2>1. Alone(e) /\ DeviceOK(e)
    BY <1>1, <1>2, <1>3, <1>6 DEF Alone, Booking
  <2>2. ASSUME Active(e)
        PROVE  FrontendsKept(e)
    BY <1>1, <2>1, <2>2 DEF FrontendsKept, DeviceOK, InPlace, Given
  <2> QED
    BY <2>1, <2>2, AloneOK DEF DeviceOK, StreamOK
<1>7. DeviceOK(d)'
  <2>1. ~Zapped(d) /\ InPlace(d) /\ StreamOK(d)
    BY <1>1 DEF Booking, DeviceOK, Active
  <2>2. Goal(d) = Wanted(d) /\ Owned(Given(d), d) # {}
    BY <1>1, <2>1 DEF Goal, StreamOK
  <2>3. InPlace(d)'
    BY <1>1, <1>3, <2>1 DEF InPlace, Given
  <2>4. StreamOK(d)'
    BY <1>1, <1>2, <1>3, <2>1, <2>2 DEF StreamOK, Given
  <2>5. Owned(Given(d), d)' # {}
    BY <1>1, <2>2 DEF Given
  <2> QED
    BY <1>2, <1>3, <2>1, <2>3, <2>4, <2>5 DEF DeviceOK, Active, Settled
<1> QED
  BY <1>4, <1>5, <1>6, <1>7 DEF Booking

\* Connecting once more after a failure.
LEMMA SetAgainBooking ==
  ASSUME Inv, TypeOK', Booking, NEW d \in Devices, SetAgain(d), calm'
  PROVE  Booking'
<1>1. /\ mode[d] = "on" /\ ~Zapped(d) /\ mode' = [mode EXCEPT ![d] = "set"]
      /\ UNCHANGED <<frontends, zapping, booked, next, current, stream, mustRelease>>
  <2>1. calm' = (calm /\ ~Zapped(d))
    BY DEF SetAgain
  <2> QED
    BY <2>1 DEF SetAgain, registry
<1>2. /\ \A e \in Devices : e # d => mode'[e] = mode[e]
      /\ mode'[d] = "set"
  BY <1>1 DEF Inv, TypeOK, TunersOK
<1>3. \A e \in Devices : /\ (Zapped(e))' <=> Zapped(e)
                         /\ Wanted(e)' = Wanted(e) /\ Goal(e)' = Goal(e)
  BY <1>1 DEF Zapped, Wanted, Goal
<1>4. MarksOK'
  BY <1>1 DEF Booking, MarksOK
<1>5. Apart'
  BY <1>1, <1>2, <1>3, ApartKept DEF Active, Booking
<1>6. ASSUME NEW e \in Devices, e # d
      PROVE  DeviceOK(e)'
  <2>1. Alone(e) /\ DeviceOK(e)
    BY <1>1, <1>2, <1>3, <1>6 DEF Alone, Booking
  <2>2. ASSUME Active(e)
        PROVE  FrontendsKept(e)
    BY <1>1, <2>1, <2>2 DEF FrontendsKept, DeviceOK, InPlace, Given
  <2> QED
    BY <2>1, <2>2, AloneOK DEF DeviceOK, StreamOK
<1>7. DeviceOK(d)'
  <2>1. InPlace(d) /\ StreamOK(d)
    BY <1>1 DEF Booking, DeviceOK, Active
  <2>2. InPlace(d)'
    BY <1>1, <1>3, <2>1 DEF InPlace, Given
  <2>3. StreamOK(d)'
    BY <1>1, <1>2, <1>3, <2>1 DEF StreamOK, Given
  <2> QED
    BY <1>1, <1>2, <1>3, <2>2, <2>3 DEF DeviceOK, Active, Settled
<1> QED
  BY <1>4, <1>5, <1>6, <1>7 DEF Booking

\* Giving up a stream takes away marks of the device only.
LEMMA DisconnectBooking ==
  ASSUME Inv, TypeOK', Booking, NEW d \in Devices, Disconnect(d), mode[d] # "idle",
         \A e \in Devices : e # d => mode'[e] = mode[e] /\ booked'[e] = booked[e]
                                     /\ (e \in mustRelease' <=> e \in mustRelease),
         \/ mode'[d] \in {"set", "retry"} /\ mode[d] # "on" /\ booked'[d] = booked[d]
         \/ mode'[d] = "idle" /\ booked'[d] = IF Zapped(d) THEN booked[d] ELSE None
  PROVE  Booking'
<1>1. /\ stream' = [stream EXCEPT ![d] = None]
      /\ frontends' = DetachServer(frontends, d, current[d])
      /\ UNCHANGED <<zapping, next, current>>
  BY DEF Disconnect
<1>2. Cleared(frontends, frontends', d)
  <2>1. TypeOK /\ current[d] \in Target \cup {None}
    BY DEF Inv, TypeOK, TunersOK
  <2> QED
    BY <1>1, <2>1, DetachMarks
<1>3. SameTps
  BY <1>2 DEF Cleared, SameTps
<1>4. \A e \in Devices : /\ (Zapped(e))' <=> Zapped(e)
                         /\ Wanted(e)' = Wanted(e) /\ Goal(e)' = Goal(e)
  BY <1>1 DEF Zapped, Wanted, Goal
<1>5. MarksOK'
  <2> SUFFICES ASSUME NEW r \in Servers, NEW l \in Systems
               PROVE  /\ Len(frontends'[r][l]) = Count[r][l]
                      /\ \A a, b \in 1 .. Len(frontends'[r][l]) :
                           /\ frontends'[r][l][a].dev = frontends'[r][l][b].dev
                           /\ frontends'[r][l][a].dev # None
                           => a = b
    BY DEF MarksOK
  <2>1. /\ Len(frontends[r][l]) = Count[r][l]
        /\ \A a, b \in 1 .. Len(frontends[r][l]) :
             /\ frontends[r][l][a].dev = frontends[r][l][b].dev
             /\ frontends[r][l][a].dev # None
             => a = b
    BY DEF Booking, MarksOK
  <2> QED
    BY <1>2, <2>1 DEF Cleared
<1>6. Apart'
  BY <1>4, ApartKept DEF Active, Booking
<1>7. ASSUME NEW e \in Devices, e # d
      PROVE  DeviceOK(e)'
  <2>1. stream'[e] = stream[e]
    BY <1>1, <1>7 DEF Inv, TypeOK, TunersOK
  <2>2. Alone(e) /\ DeviceOK(e)
    BY <1>1, <1>4, <1>7, <2>1 DEF Alone, Booking
  <2>3. ASSUME Active(e)
        PROVE  FrontendsKept(e)
    <3> DEFINE fs == Given(e)
               gs == frontends'[booked[e][1]][booked[e][2]]
    <3>1. InPlace(e) /\ e # None /\ TypeOK
      BY <2>2, <2>3, FrontendsAssumption DEF DeviceOK, Inv
    <3>2. booked[e][1] \in Servers /\ booked[e][2] \in Systems
      BY <3>1, PlaceIs
    <3>3. \A j \in 1 .. Len(fs) : gs[j].dev = e <=> fs[j].dev = e
      BY <1>2, <1>7, <3>1, <3>2 DEF Cleared, Given
    <3> QED
      BY <1>3, <3>1, <3>3, MarksKept
  <2> QED
    BY <2>2, <2>3, AloneOK DEF DeviceOK, StreamOK
<1>8. DeviceOK(d)'
  <2>1. stream'[d] = None
    BY <1>1 DEF Inv, TypeOK, TunersOK
  <2>2. InPlace(d) /\ (Zapped(d) => mode[d] \in {"idle", "on"})
    BY DEF Booking, DeviceOK, Active
  <2>3. ASSUME booked'[d] = booked[d]
        PROVE  InPlace(d)'
    <3> DEFINE fs == Given(d)
               gs == frontends'[booked[d][1]][booked[d][2]]
    <3>1. /\ booked[d][1] \in Servers /\ booked[d][2] \in Systems
          /\ booked[d][1] = Goal(d).server
          /\ fs \in Seq(Frontend) /\ gs \in Seq(Frontend)
      BY <2>2, PlaceIs DEF Inv
    <3>2. TunedTo(gs, Goal(d).tp) = TunedTo(fs, Goal(d).tp)
          /\ Holding(frontends', Goal(d).server, Goal(d).tp) =
               Holding(frontends, Goal(d).server, Goal(d).tp)
      BY <1>3, <3>1, TpsKept DEF Given, Inv
    <3>3. /\ Len(gs) = Len(fs)
          /\ \A j \in 1 .. Len(fs) : gs[j].dev = fs[j].dev \/ gs[j].dev = None
      BY <1>2, <3>1 DEF Cleared, Given
    <3>4. d # None
      BY FrontendsAssumption
    <3>5. Given(d)' = gs
      BY <2>3 DEF Given
    <3>6. Owned(fs, d) \subseteq TunedTo(fs, Goal(d).tp)
      BY <2>2 DEF InPlace
    <3> HIDE DEF fs, gs
    <3>7. Owned(gs, d) \subseteq Owned(fs, d)
      BY <3>1, <3>3, <3>4 DEF Owned
    <3>8. Owned(gs, d) \subseteq TunedTo(gs, Goal(d).tp)
      BY <3>2, <3>6, <3>7
    <3> QED
      BY <1>4, <2>2, <2>3, <3>2, <3>5, <3>8 DEF InPlace
  <2>4. StreamOK(d)'
    BY <2>1 DEF StreamOK
  <2>5. CASE mode'[d] \in {"set", "retry"} /\ mode[d] # "on" /\ booked'[d] = booked[d]
    <3>1. ~Zapped(d)
      BY <2>2, <2>5
    <3> QED
      BY <1>4, <2>3, <2>4, <2>5, <3>1 DEF DeviceOK, Active, Settled
  <2>6. CASE /\ mode'[d] = "idle"
             /\ booked'[d] = IF Zapped(d) THEN booked[d] ELSE None
    BY <1>4, <2>3, <2>4, <2>6 DEF DeviceOK, Active, Settled
  <2> QED
    BY <2>5, <2>6
<1> QED
  BY <1>5, <1>6, <1>7, <1>8 DEF Booking

\* So do a failed connect and a release.
LEMMA ReleaseBooking ==
  ASSUME Inv, TypeOK', Booking, NEW d \in Devices, ConnectFailed(d) \/ Release(d)
  PROVE  Booking'
<1>1. CASE ConnectFailed(d)
  <2>1. /\ Disconnect(d) /\ mode[d] \in {"set", "retry"}
        /\ mode' = [mode EXCEPT ![d] = "retry"] /\ UNCHANGED <<mustRelease, booked>>
    BY <1>1 DEF ConnectFailed, Connects
  <2>2. /\ mode'[d] = "retry"
        /\ \A e \in Devices : e # d => mode'[e] = mode[e]
    BY <2>1 DEF Inv, TypeOK, TunersOK
  <2> QED
    BY <2>1, <2>2, DisconnectBooking
<1>2. CASE Release(d)
  <2>1. /\ Disconnect(d) /\ mode[d] # "idle" /\ mustRelease' = mustRelease \ {d}
        /\ \/ mode[d] \in {"set", "retry"} /\ UNCHANGED <<mode, booked>>
           \/ /\ mode' = [mode EXCEPT ![d] = "idle"]
              /\ booked' = IF Zapped(d) THEN booked ELSE [booked EXCEPT ![d] = None]
    BY <1>2 DEF Release
  <2>2. /\ \A e \in Devices : e # d => mode'[e] = mode[e] /\ booked'[e] = booked[e]
        /\ \/ mode'[d] \in {"set", "retry"} /\ mode[d] # "on" /\ booked'[d] = booked[d]
           \/ /\ mode'[d] = "idle"
              /\ booked'[d] = IF Zapped(d) THEN booked[d] ELSE None
    BY <2>1 DEF Inv, TypeOK, TunersOK, HistoryOK
  <2>3. \A e \in Devices : e # d => (e \in mustRelease' <=> e \in mustRelease)
    BY <2>1
  <2> QED
    BY <2>1, <2>2, <2>3, DisconnectBooking
<1> QED
  BY <1>1, <1>2
\* Attach marks the frontend the device was given.
LEMMA SetupBooking ==
  ASSUME Inv, TypeOK', Booking, NEW d \in Devices, Setup(d)
  PROVE  Booking'
<1>1. /\ mode[d] \in {"set", "retry"} /\ d \notin mustRelease
      /\ current' = [current EXCEPT ![d] = Wanted(d)]
      /\ next' = [next EXCEPT ![d] = None] /\ mode' = [mode EXCEPT ![d] = "on"]
      /\ frontends' = AttachServer(frontends, d, Wanted(d))
      /\ UNCHANGED <<zapping, booked, mustRelease>>
      /\ \/ stream' = [stream EXCEPT ![d] = Wanted(d).server]
         \/ stream[d] = None /\ stream' = stream
  BY DEF Setup, Connects, TakeOver
<1>2. PICK t \in Target : t = Wanted(d) /\ t # None
  BY <1>1 DEF Inv, TypeOK, TunersOK, Aimed, Wanted
<1>3. /\ \A e \in Devices : e # d =>
           /\ mode'[e] = mode[e] /\ next'[e] = next[e]
           /\ current'[e] = current[e] /\ stream'[e] = stream[e]
      /\ mode'[d] = "on" /\ Wanted(d)' = t /\ current'[d] = t
  BY <1>1, <1>2 DEF Inv, TypeOK, TunersOK, Wanted
<1>4. /\ \A e \in Devices : (Zapped(e))' <=> Zapped(e)
      /\ \A e \in Devices : e # d => Wanted(e)' = Wanted(e)
      /\ \A e \in Devices : Goal(e)' = Goal(e)
      /\ ~Zapped(d) /\ Goal(d) = t /\ InPlace(d) /\ MarksOK
  <2>1. ~Zapped(d) /\ InPlace(d) /\ MarksOK
    BY <1>1 DEF Booking, DeviceOK, Active
  <2>2. \A e \in Devices : (Zapped(e))' <=> Zapped(e)
    BY <1>1 DEF Zapped
  <2>3. \A e \in Devices : e # d => Wanted(e)' = Wanted(e)
    BY <1>3 DEF Wanted
  <2>4. \A e \in Devices : Goal(e)' = Goal(e)
    BY <1>1, <1>2, <1>3, <2>1, <2>2, <2>3 DEF Goal
  <2> QED
    BY <1>2, <2>1, <2>2, <2>3, <2>4 DEF Goal
<1>5. PICK k \in Systems : booked[d][2] = k
  BY <1>4 DEF InPlace
<1> DEFINE s == t.server
           fs == frontends[s][k]
           gs == frontends'[s][k]
<1>6. /\ s \in Servers /\ Given(d) = fs /\ booked[d][1] = s
      /\ Holding(frontends, s, t.tp) = {k}
      /\ Owned(fs, d) \subseteq TunedTo(fs, t.tp)
  BY <1>4, <1>5 DEF InPlace, Given, Target
<1>7. PICK i \in TunedTo(fs, t.tp) :
        /\ Owned(fs, d) \cap TunedTo(fs, t.tp) # {} => i \in Owned(fs, d)
        /\ OneChanged(frontends, frontends', s, k, i)
        /\ gs[i].dev = d /\ gs[i].tp = fs[i].tp
  <2>1. TypeOK
    BY DEF Inv
  <2>2. \E i \in TunedTo(fs, t.tp) :
          LET fe == AttachServer(frontends, d, t)
          IN  /\ Owned(fs, d) \cap TunedTo(fs, t.tp) # {} => i \in Owned(fs, d)
              /\ OneChanged(frontends, fe, s, k, i)
              /\ fe[s][k][i].dev = d /\ fe[s][k][i].tp = fs[i].tp
    BY <1>6, <2>1, AttachMarks
  <2> QED
    BY <1>1, <1>2, <2>2
<1>8. /\ Len(fs) \in Nat /\ DOMAIN fs = 1 .. Len(fs) /\ i \in 1 .. Len(fs)
      /\ fs[i].tp = t.tp /\ Len(gs) = Len(fs) /\ DOMAIN gs = 1 .. Len(fs)
      /\ \A j \in 1 .. Len(fs) : j # i => gs[j] = fs[j]
  <2>1. fs \in Seq(Frontend) /\ gs \in Seq(Frontend)
    BY <1>6 DEF Inv, TypeOK, RegistryOK
  <2>2. Len(gs) = Len(fs) /\ \A j \in 1 .. Len(fs) : j # i => gs[j] = fs[j]
    BY <1>7 DEF OneChanged, SameBut
  <2> QED
    BY <2>1, <2>2 DEF TunedTo
<1>9. ASSUME NEW j \in 1 .. Len(fs), gs[j].dev = d
      PROVE  j = i
  <2>1. CASE Owned(fs, d) = {}
    BY <1>8, <1>9, <2>1 DEF Owned
  <2>2. CASE Owned(fs, d) # {}
    <3>1. fs[i].dev = d /\ d # None
      BY <1>6, <1>7, <2>2, FrontendsAssumption DEF Owned
    <3>2. fs[j].dev = d
      BY <1>8, <1>9, <3>1
    <3> QED
      BY <1>4, <1>6, <1>8, <3>1, <3>2 DEF MarksOK
  <2> QED
    BY <2>1, <2>2
<1>10. SameTps
  <2> SUFFICES ASSUME NEW r \in Servers, NEW l \in Systems
               PROVE  /\ Len(frontends'[r][l]) = Len(frontends[r][l])
                      /\ \A j \in 1 .. Len(frontends[r][l]) :
                           frontends'[r][l][j].tp = frontends[r][l][j].tp
    BY DEF SameTps
  <2>1. CASE r = s /\ l = k
    <3>1. \A j \in 1 .. Len(fs) : gs[j].tp = fs[j].tp
      BY <1>7, <1>8
    <3> QED
      BY <1>8, <2>1, <3>1
  <2>2. CASE r # s \/ l # k
    BY <1>7, <2>2 DEF OneChanged
  <2> QED
    BY <2>1, <2>2
<1>11. MarksOK'
  <2> SUFFICES ASSUME NEW r \in Servers, NEW l \in Systems
               PROVE  /\ Len(frontends'[r][l]) = Count[r][l]
                      /\ \A a, b \in 1 .. Len(frontends'[r][l]) :
                           /\ frontends'[r][l][a].dev = frontends'[r][l][b].dev
                           /\ frontends'[r][l][a].dev # None
                           => a = b
    BY DEF MarksOK
  <2>1. CASE r = s /\ l = k
    <3>1. Len(gs) = Count[s][k]
      BY <1>4, <1>6, <1>8 DEF MarksOK
    <3>2. ASSUME NEW a \in 1 .. Len(fs), NEW b \in 1 .. Len(fs),
                 gs[a].dev = gs[b].dev, gs[a].dev # None
          PROVE  a = b
      <4>1. CASE gs[a].dev = d
        BY <1>9, <3>2, <4>1
      <4>2. CASE gs[a].dev # d
        <5>1. gs[a] = fs[a] /\ gs[b] = fs[b]
          BY <1>7, <1>8, <3>2, <4>2
        <5> QED
          BY <1>4, <1>6, <3>2, <5>1 DEF MarksOK
      <4> QED
        BY <4>1, <4>2
    <3> QED
      BY <1>8, <2>1, <3>1, <3>2
  <2>2. CASE r # s \/ l # k
    <3>1. frontends'[r][l] = frontends[r][l]
      BY <1>7, <2>2 DEF OneChanged
    <3> QED
      BY <1>4, <3>1 DEF MarksOK
  <2> QED
    BY <2>1, <2>2
<1>12. Active(d) /\ \A e \in Devices : (Active(e))' => Active(e)
  BY <1>1, <1>3, <1>4 DEF Active
<1>13. Apart'
  BY <1>4, <1>12, ApartKept DEF Booking
<1>14. ASSUME NEW e \in Devices, e # d
       PROVE  DeviceOK(e)'
  <2>1. Alone(e) /\ DeviceOK(e)
    BY <1>1, <1>3, <1>4, <1>14 DEF Alone, Booking
  <2>2. ASSUME Active(e)
        PROVE  FrontendsKept(e)
    <3>1. InPlace(e) /\ e # None /\ TypeOK /\ Goal(e).tp # t.tp
      BY <1>4, <1>12, <1>14, <2>1, <2>2, FrontendsAssumption
         DEF DeviceOK, Inv, Booking, Apart
    <3> DEFINE r == booked[e][1]
               l == booked[e][2]
    <3>2. /\ r \in Servers /\ l \in Systems /\ Given(e) = frontends[r][l]
          /\ Owned(Given(e), e) \subseteq TunedTo(Given(e), Goal(e).tp)
      BY <3>1, PlaceIs DEF InPlace, Given
    <3> HIDE DEF r, l
    <3>3. \A j \in 1 .. Len(frontends[r][l]) :
            frontends'[r][l][j].dev = e <=> frontends[r][l][j].dev = e
      <4>1. CASE r = s /\ l = k
        <5>1. gs[i].dev # e
          BY <1>7, <1>14
        <5>2. fs[i].dev # e
          <6>1. ~(i \in TunedTo(fs, Goal(e).tp))
            BY <1>8, <3>1 DEF TunedTo
          <6> QED
            BY <1>8, <3>2, <4>1, <6>1 DEF Owned
        <5>3. \A j \in 1 .. Len(fs) : gs[j].dev = e <=> fs[j].dev = e
          BY <1>8, <5>1, <5>2
        <5> QED
          BY <4>1, <5>3
      <4>2. CASE r # s \/ l # k
        <5>1. frontends'[r][l] = frontends[r][l]
          BY <1>7, <3>2, <4>2 DEF OneChanged
        <5> QED
          BY <5>1
      <4> QED
        BY <4>1, <4>2
    <3> QED
      BY <1>10, <3>1, <3>2, <3>3, MarksKept DEF r, l
  <2> QED
    BY <2>1, <2>2, AloneOK DEF DeviceOK, StreamOK
<1>15. DeviceOK(d)'
  <2>1. i \in Owned(gs, d) /\ \A j \in Owned(gs, d) : j = i
    BY <1>7, <1>8, <1>9 DEF Owned
  <2>2. i \in TunedTo(gs, t.tp)
    BY <1>7, <1>8 DEF TunedTo
  <2>3. Given(d)' = gs
    BY <1>1, <1>5, <1>6 DEF Given
  <2>4. Holding(frontends', s, t.tp) = {k}
    BY <1>6, <1>10, TpsKept DEF Inv
  <2>5. InPlace(d)'
    <3>1. Owned(gs, d) \subseteq TunedTo(gs, t.tp)
      BY <2>1, <2>2
    <3> QED
      BY <1>1, <1>4, <1>5, <2>3, <2>4, <3>1 DEF InPlace
  <2>6. Owned(Given(d)', d) # {}
    BY <2>1, <2>3
  <2>7. StreamOK(d)'
    BY <1>3, <2>6 DEF StreamOK
  <2> QED
    BY <1>3, <1>4, <2>5, <2>6, <2>7 DEF DeviceOK, Settled, Active
<1> QED
  BY <1>11, <1>13, <1>14, <1>15 DEF Booking

\* Nothing of this depends on which servers are switched off.
LEMMA SameBooking ==
  ASSUME Booking, UNCHANGED <<frontends, zapping, tuner, booked>>
  PROVE  Booking'
<1>1. MarksOK'
  BY DEF Booking, MarksOK
<1>2. \A e \in Devices : /\ (Zapped(e))' <=> Zapped(e)
                         /\ Wanted(e)' = Wanted(e) /\ Goal(e)' = Goal(e)
                         /\ Given(e)' = Given(e)
  BY DEF tuner, Zapped, Wanted, Goal, Given
<1>3. Apart'
  BY <1>2, ApartKept DEF Active, Booking, tuner
<1>4. ASSUME NEW e \in Devices
      PROVE  DeviceOK(e)'
  <2>1. DeviceOK(e)
    BY DEF Booking
  <2>2. (InPlace(e))' <=> InPlace(e)
    BY <1>2 DEF InPlace
  <2>3. (Active(e))' <=> Active(e)
    BY <1>2 DEF Active, tuner
  <2>4. Settled(e)'
    BY <1>2, <2>1 DEF DeviceOK, Settled, tuner
  <2>5. StreamOK(e)'
    BY <1>2, <2>1 DEF DeviceOK, StreamOK, tuner
  <2>6. (Zapped(e))' => mode'[e] \in {"idle", "on"}
    BY <1>2, <2>1 DEF DeviceOK, tuner
  <2> QED
    BY <2>1, <2>2, <2>3, <2>4, <2>5, <2>6 DEF DeviceOK
<1> QED
  BY <1>1, <1>3, <1>4 DEF Booking

\* At the start nothing is marked.
LEMMA InitBooking == Init => BookingOK
<1> SUFFICES ASSUME Init
             PROVE  Booking
  BY DEF BookingOK
<1>1. ASSUME NEW s \in Servers, NEW k \in Systems
      PROVE  /\ Len(frontends[s][k]) = Count[s][k]
             /\ \A i \in 1 .. Len(frontends[s][k]) : frontends[s][k][i].dev = None
  <2>1. Count[s][k] \in Nat
    BY FrontendsAssumption
  <2>2. frontends[s][k] = [i \in 1 .. Count[s][k] |-> [tp |-> 0, dev |-> None]]
    BY DEF Init
  <2> QED
    BY <2>1, <2>2
<1>2. MarksOK
  BY <1>1 DEF MarksOK
<1>3. \A d \in Devices : /\ ~Active(d) /\ ~Zapped(d) /\ booked[d] = None
                         /\ mode[d] = "idle" /\ stream[d] = None
  BY DEF Init, Active, Zapped
<1> QED
  BY <1>2, <1>3 DEF Booking, Apart, DeviceOK, Settled, StreamOK

\* Every step keeps the marks, as long as the assignments come at good moments.
LEMMA StepBooking ==
  ASSUME Inv, BookingOK, [Next]_vars
  PROVE  BookingOK'
<1> SUFFICES ASSUME calm'
             PROVE  Booking'
  BY DEF BookingOK
<1>1. TypeOK'
  BY StepInv DEF Inv
<1>2. ASSUME NEW d \in Devices, NEW c \in Channels, AssignServer(d, c)
      PROVE  Booking'
  <2>1. calm
    BY <1>2, AssignServerIs DEF Inv
  <2> QED
    BY <1>1, <1>2, <2>1, AssignServerBooking DEF BookingOK
<1>3. CASE SetSource
  <2>1. calm
    <3>1. ReleaseFirst(zapping.dev, zapping.server)
      BY <1>3 DEF SetSource
    <3> QED
      BY <3>1 DEF ReleaseFirst
  <2> QED
    BY <1>1, <1>3, <2>1, SetSourceBooking DEF BookingOK
<1>4. ASSUME NEW d \in Devices, Setup(d)
      PROVE  Booking'
  BY <1>1, <1>4, SetupBooking DEF BookingOK, Setup
<1>5. ASSUME NEW d \in Devices, Retune(d)
      PROVE  Booking'
  BY <1>1, <1>5, RetuneBooking DEF BookingOK, Retune, history
<1>6. ASSUME NEW d \in Devices, ConnectFailed(d) \/ Release(d)
      PROVE  Booking'
  BY <1>1, <1>6, ReleaseBooking DEF BookingOK, ConnectFailed, Release, Disconnect
<1>7. ASSUME NEW d \in Devices, SetAgain(d)
      PROVE  Booking'
  <2>1. calm
    BY <1>7 DEF SetAgain
  <2> QED
    BY <1>1, <1>7, <2>1, SetAgainBooking DEF BookingOK
<1>8. ASSUME NEW s \in Servers, Activate(s)
      PROVE  Booking'
  BY <1>8, SameBooking DEF BookingOK, Activate, history
<1>9. CASE UNCHANGED vars
  BY <1>9, SameBooking DEF BookingOK, vars, registry, history
<1> QED
  BY <1>2, <1>3, <1>4, <1>5, <1>6, <1>7, <1>8, <1>9 DEF Next

\* As long as every assignment comes at a good moment, no failed request, 403
\* answer, lost session, release, change of server or server switched off makes the
\* plugin give a list of frontends to more devices than it has frontends: every
\* device given the list has a frontend of its own on its transponder.
THEOREM NeverOverbooked == Spec => []NoOverbooking
<1>1. Inv /\ BookingOK => NoOverbooking
  <2> SUFFICES ASSUME Inv, Booking, NEW s \in Servers, NEW k \in Systems
               PROVE  Cardinality({d \in Devices : booked[d] = <<s, k>>}) <= Count[s][k]
    BY DEF NoOverbooking, EnoughFrontends, BookingOK
  <2> DEFINE given == {d \in Devices : booked[d] = <<s, k>>}
             fs == frontends[s][k]
             n == Count[s][k]
             seat == [d \in given |-> CHOOSE i \in 1 .. n : fs[i].tp = Goal(d).tp]
  <2>1. n \in Nat /\ Len(fs) = n /\ DOMAIN fs = 1 .. n
    BY FrontendsAssumption DEF Booking, MarksOK, Inv, TypeOK, RegistryOK
  <2>2. ASSUME NEW d \in given
        PROVE  Active(d) /\ \E i \in 1 .. n : fs[i].tp = Goal(d).tp
    <3>1. DeviceOK(d) /\ booked[d] = <<s, k>>
      BY DEF Booking
    <3>2. Active(d) /\ InPlace(d)
      BY <3>1, FrontendsAssumption DEF DeviceOK
    <3>3. k \in Holding(frontends, s, Goal(d).tp)
      BY <3>1, <3>2 DEF InPlace
    <3>4. TunedTo(fs, Goal(d).tp) # {}
      BY <3>3 DEF Holding
    <3> QED
      BY <2>1, <3>2, <3>4 DEF TunedTo
  <2>3. \A d, e \in given : d # e => Goal(d).tp # Goal(e).tp
    BY <2>2 DEF Booking, Apart
  <2> HIDE DEF given, n, fs
  <2>4. \A d \in given : seat[d] \in 1 .. n /\ fs[seat[d]].tp = Goal(d).tp
    BY <2>2
  <2>5. seat \in [given -> 1 .. n]
    BY <2>4
  <2>6. \A d, e \in given : d # e => seat[d] # seat[e]
    <3> HIDE DEF seat
    <3> QED
      BY <2>3, <2>4
  <2>7. seat \in Injection(given, 1 .. n)
    <3> HIDE DEF seat
    <3> QED
      BY <2>5, <2>6 DEF Injection, IsInjective
  <2>8. IsFiniteSet(1 .. n) /\ Cardinality(1 .. n) = n
    BY <2>1, FS_Interval
  <2>9. Cardinality(given) <= n
    BY <2>7, <2>8, FS_Injection
  <2> QED
    BY <2>9 DEF given, n
<1>2. Inv /\ BookingOK /\ [Next]_vars => BookingOK'
  BY StepBooking
<1> QED
  BY InitInv, InitBooking, StepInv, <1>1, <1>2, PTL DEF Spec

\* Under the same condition a tuned device is marked on exactly one frontend of the
\* list it was given, and that frontend stands on its transponder: Attach, which
\* sees only device and transponder, finds what Assign had chosen.
THEOREM TunedOnOneFrontend == Spec => []TunedIsMarked
<1>1. Inv /\ BookingOK => TunedIsMarked
  <2> SUFFICES ASSUME Inv, Booking, NEW d \in Devices, mode[d] = "on", ~Zapped(d)
               PROVE  \E k \in Systems :
                        LET s == Wanted(d).server
                            owned == Owned(frontends[s][k], d)
                        IN  /\ booked[d] = <<s, k>> /\ Cardinality(owned) = 1
                            /\ owned \subseteq TunedTo(frontends[s][k], Wanted(d).tp)
    BY DEF TunedIsMarked, BookingOK
  <2>1. InPlace(d) /\ Settled(d) /\ Goal(d) = Wanted(d)
    BY DEF Booking, DeviceOK, Active, Goal
  <2> DEFINE s == Wanted(d).server
             k == booked[d][2]
             fs == frontends[s][k]
  <2>2. /\ k \in Systems /\ s \in Servers /\ booked[d] = <<s, k>> /\ Given(d) = fs
        /\ Owned(fs, d) # {} /\ Owned(fs, d) \subseteq TunedTo(fs, Wanted(d).tp)
    BY <2>1 DEF InPlace, Settled, Given
  <2>3. DOMAIN fs = 1 .. Len(fs) /\ d # None
    BY <2>2, FrontendsAssumption DEF Inv, TypeOK, RegistryOK
  <2>4. PICK i \in Owned(fs, d) : TRUE
    BY <2>2
  <2>5. \A j \in Owned(fs, d) : j = i
    BY <2>2, <2>3, <2>4 DEF Owned, Booking, MarksOK
  <2> HIDE DEF fs, k
  <2>6. Owned(fs, d) = {i}
    BY <2>4, <2>5
  <2>7. Cardinality(Owned(fs, d)) = 1
    BY <2>6, FS_Singleton
  <2> QED
    BY <2>2, <2>7 DEF fs
<1>2. Inv /\ BookingOK /\ [Next]_vars => BookingOK'
  BY StepBooking
<1> QED
  BY InitInv, InitBooking, StepInv, <1>1, <1>2, PTL DEF Spec
=============================================================================
