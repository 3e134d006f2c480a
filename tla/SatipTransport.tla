---------------------------- MODULE SatipTransport ----------------------------
(***************************************************************************)
(* The sockets of the tuners: the pair of ports each one opens when it is  *)
(* built (src/tuner.c, src/satip.c), what a SETUP answered with another    *)
(* transport does to them (cSatipTuner::SetupTransport, src/socket.c), the *)
(* poller that waits for their data (src/poller.c), and the order in which *)
(* all of it is stopped.                                                   *)
(*                                                                         *)
(* Devices are built by VDR's main thread, one after the other.  A SETUP   *)
(* runs in the thread of its tuner; while SetupTransport unregisters,      *)
(* opens and registers one socket after the other, the poller's thread     *)
(* goes on with the events it has fetched.                                 *)
(***************************************************************************)
EXTENDS Integers, FiniteSets

CONSTANTS
  NumDevices,  \* deviceCountM
  Word,        \* unsigned int holds 0 .. Word - 1
  Ranges,      \* <<start, stop>> as given with --portrange, <<0, 0>> without
  Taken,       \* sets of ports other programs may hold
  Ephemeral,   \* ports the kernel hands out when asked for port 0
  GroupPort,   \* GroupPort[g]: RTP port of multicast group g
  None,
  MaxSetups,   \* bound: SETUP requests
  MaxUpsets    \* bound: groups that cannot be joined

Devices == 1 .. NumDevices
Kinds   == {"rtp", "rtcp"}
Sockets == Devices \X Kinds
Groups  == DOMAIN GroupPort
Transports == [ports : [Kinds -> Nat \cup {-1}], group : Groups \cup {None}]
Steps   == Kinds \X {"unregister", "open", "register"}

ASSUME TransportAssumption ==
  /\ NumDevices \in Nat /\ Word \in Nat \ {0}
  /\ MaxSetups \in Nat /\ MaxUpsets \in Nat
  /\ Ranges \subseteq Nat \X Nat /\ Taken \subseteq SUBSET Nat
  /\ Ephemeral \subseteq Nat \ {0}
  /\ GroupPort \in [Groups -> Nat \ {0}]
  /\ None \notin Groups \cup Sockets \cup Transports \cup Steps

VARIABLES
  range,      \* portRangeStartM, portRangeStopM
  taken,      \* ports other programs hold
  built,      \* devices built so far
  port,       \* socketPortM, 0 without a socket
  group,      \* the group joined, None unless isMulticastM
  registered, \* sockets in the interest list of epoll
  answer,     \* transport of each tuner's session, None without one
  work,       \* SetupTransport: the socket's kind and step, None outside
  pending,    \* sockets with data to be read
  ready,      \* those epoll_wait() will report
  poller,     \* wait, process, ended
  events,     \* sockets whose events are still to be handled
  stopping,   \* cPluginSatip::Stop() has been called
  destroyed,  \* devices VDR has deleted
  muted,      \* history: sockets unregistered for RTP over TCP
  refused,    \* history: sockets not bound or joined in this session
  strayed,    \* history: tuners whose session changed the group only
  setups, upsets

sockets == <<port, group, registered>>
tuners  == <<answer, work>>
polling == <<pending, ready, poller, events>>
history == <<muted, refused, strayed, setups, upsets>>
vars == <<range, taken, built, sockets, tuners, polling, stopping, destroyed, history>>

-----------------------------------------------------------------------------
(* The range of ports and the pairs taken from it. *)

\* ParsePortRange(): the numbers are unsigned.
ParsePortRange(start, stop) ==
  IF start % 2 = 1 \/ (stop - start + 1) % Word < 2 * NumDevices
  THEN <<0, 0>> ELSE <<start, stop>>

\* Faulty: one turn for a pair of ports, the first one left out.
TurnsInPairs == ((range[2] - range[1] - 1) % Word) \div 2

\* Turns of the loop in the constructor, whose counter is a signed int.
Turns ==
  LET i == (range[2] - range[1] - 1) % Word
  IN  IF i < Word \div 2 THEN i ELSE 0

\* RTP ports the loop may end with.  Without a range the kernel chooses, until
\* the port is even.
Candidates ==
  IF range[1] = 0 THEN {p \in Ephemeral : p % 2 = 0}
  ELSE {range[1] + 2 * j : j \in 0 .. Turns - 1}

\* Faulty: the plugin's sockets share ports.
FreeWithReuse(p, s) == p \notin taken

\* bind() without SO_REUSEADDR: nobody else may hold the port.
Free(p, s) == p \notin taken /\ \A t \in Sockets \ {s} : port[t] # p

Init ==
  /\ \E r \in Ranges : range = ParsePortRange(r[1], r[2])
  /\ taken \in Taken /\ built = 0
  /\ port = [s \in Sockets |-> 0] /\ group = [s \in Sockets |-> None]
  /\ registered = {}
  /\ answer = [d \in Devices |-> None] /\ work = [d \in Devices |-> None]
  /\ pending = {} /\ ready = {} /\ poller = "wait" /\ events = {}
  /\ stopping = FALSE /\ destroyed = {}
  /\ muted = {} /\ refused = {} /\ strayed = {} /\ setups = 0 /\ upsets = 0

\* The constructor of the tuner: without a pair of ports the device is built
\* all the same.
Build ==
  /\ built < NumDevices /\ ~stopping /\ built' = built + 1
  /\ LET d   == built + 1
         fit == {p \in Candidates : Free(p, None) /\ Free(p + 1, None)}
     IN  \/ /\ fit = {} /\ UNCHANGED <<port, registered>>
         \/ \E p \in fit :
              /\ range[1] # 0 => \A q \in fit : p =< q
              /\ port' = [port EXCEPT ![<<d, "rtp">>] = p,
                                      ![<<d, "rtcp">>] = p + 1]
              /\ registered' = registered \cup ({d} \X Kinds)
  /\ UNCHANGED <<range, taken, group, tuners, polling, stopping, destroyed, history>>

-----------------------------------------------------------------------------
(* The tuner's thread. *)

Alive(d) == d =< built /\ d \notin destroyed
Transport(rtp, rtcp, g) == [ports |-> [rtp |-> rtp, rtcp |-> rtcp], group |-> g]

\* The header of the answer, as ParseHeader() reads it.
Answered(d, transport) ==
  /\ setups < MaxSetups /\ setups' = setups + 1
  /\ Alive(d) /\ answer[d] = None /\ work[d] = None
  /\ answer' = [answer EXCEPT ![d] = transport]
  /\ work' = [work EXCEPT ![d] = <<"rtp", "unregister">>]
  /\ refused' = refused \ ({d} \X Kinds)
  /\ strayed' = IF /\ transport.group # None
                   /\ \E k \in Kinds :
                        /\ group[<<d, k>>] \notin {None, transport.group}
                        /\ port[<<d, k>>] = transport.ports[k]
                THEN strayed \cup {d} ELSE strayed \ {d}
  /\ UNCHANGED <<range, taken, built, sockets, polling, stopping, destroyed, muted, upsets>>

\* The server uses the ports it is offered, 0 for a socket that is not bound.
SetupUnicast(d) ==
  Answered(d, Transport(port[<<d, "rtp">>], port[<<d, "rtcp">>], None))

\* The server names a group and its ports.
SetupMulticast(d) ==
  \E g \in Groups :
    Answered(d, Transport(GroupPort[g], GroupPort[g] + 1, g))

SetupTcp(d) == Answered(d, Transport(-1, -1, None))

\* TEARDOWN: the sockets stay as they are.
Release(d) ==
  /\ answer[d] # None /\ work[d] = None
  /\ answer' = [answer EXCEPT ![d] = None]
  /\ UNCHANGED <<range, taken, built, sockets, work, polling, stopping, destroyed, history>>

Target(d, k)   == answer[d].ports[k]
Multicast(d)   == answer[d].group # None
InMulticast(s) == group[s] # None

\* Faulty: only a change between unicast and multicast counts.
OtherMedium(d, k) == Multicast(d) # InMulticast(<<d, k>>)

Changed(d, k) ==
  \/ Multicast(d) # InMulticast(<<d, k>>)
  \/ Target(d, k) # port[<<d, k>>]

NextKind(d, k) ==
  work' = [work EXCEPT ![d] =
             IF k = "rtp" THEN <<"rtcp", "unregister">> ELSE None]

\* SetupTransport(): the socket is registered no more, and no event of it will
\* be reported; one fetched already will be handled.
Unregister(d, k) ==
  /\ work[d] = <<k, "unregister">>
  /\ LET s == <<d, k>>
     IN  IF ~Changed(d, k)
         THEN NextKind(d, k) /\ UNCHANGED <<registered, ready, muted>>
         ELSE /\ registered' = registered \ {s} /\ ready' = ready \ {s}
              /\ IF Target(d, k) < 0
                 THEN NextKind(d, k) /\ muted' = muted \cup {s}
                 ELSE /\ work' = [work EXCEPT ![d] = <<k, "open">>]
                      /\ UNCHANGED muted
  /\ UNCHANGED <<range, taken, built, port, group, answer, pending, poller, events>>
  /\ UNCHANGED <<stopping, destroyed, refused, strayed, setups, upsets>>

\* Close(), then Open() or OpenMulticast(), whose results are ignored.
Open(d, k) ==
  /\ work[d] = <<k, "open">> /\ work' = [work EXCEPT ![d] = <<k, "register">>]
  /\ LET s == <<d, k>>
         p == Target(d, k)
     IN  /\ pending' = pending \ {s}
         /\ \/ /\ Free(p, s)
               /\ port' = [port EXCEPT ![s] = p]
               /\ group' = [group EXCEPT ![s] = answer[d].group]
               /\ UNCHANGED <<refused, upsets>>
            \/ /\ Free(p, s) /\ Multicast(d) /\ upsets < MaxUpsets
               /\ upsets' = upsets + 1
               /\ port' = [port EXCEPT ![s] = p]
               /\ group' = [group EXCEPT ![s] = None]
               /\ refused' = refused \cup {s}
            \/ /\ ~Free(p, s)
               /\ port' = [port EXCEPT ![s] = 0]
               /\ group' = [group EXCEPT ![s] = None]
               /\ refused' = refused \cup {s} /\ UNCHANGED upsets
  /\ UNCHANGED <<range, taken, built, registered, answer, ready, poller, events>>
  /\ UNCHANGED <<stopping, destroyed, muted, strayed, setups>>

\* epoll_ctl() fails without a socket, and reports data waiting already.
Register(d, k) ==
  /\ work[d] = <<k, "register">> /\ NextKind(d, k)
  /\ LET s == <<d, k>>
     IN  IF port[s] = 0 THEN UNCHANGED <<registered, ready, muted>>
         ELSE /\ registered' = registered \cup {s} /\ muted' = muted \ {s}
              /\ ready' = IF s \in pending THEN ready \cup {s} ELSE ready
  /\ UNCHANGED <<range, taken, built, port, group, answer, pending, poller, events>>
  /\ UNCHANGED <<stopping, destroyed, refused, strayed, setups, upsets>>

-----------------------------------------------------------------------------
(* The network and the poller's thread. *)

\* Does the kernel hand the session's data to the socket?
Reached(d, k) ==
  port[<<d, k>>] = Target(d, k) /\ group[<<d, k>>] = answer[d].group

Arrive(d, k) ==
  /\ answer[d] # None /\ Reached(d, k) /\ port[<<d, k>>] # 0
  /\ pending' = pending \cup {<<d, k>>}
  /\ ready' = IF <<d, k>> \in registered THEN ready \cup {<<d, k>>} ELSE ready
  /\ UNCHANGED <<range, taken, built, sockets, tuners, poller, events, stopping>>
  /\ UNCHANGED <<destroyed, history>>

Wait ==
  /\ poller = "wait" /\ ready # {} /\ poller' = "process"
  /\ events' = ready /\ ready' = {}
  /\ UNCHANGED <<range, taken, built, sockets, tuners, pending, stopping>>
  /\ UNCHANGED <<destroyed, history>>

\* Faulty: one event is handled for each epoll_wait().
OneEvent(s) == {}

Rest(s) == events \ {s}

\* Process() without the mutex: the socket is emptied, if there is one.
Process(s) ==
  /\ poller = "process" /\ s \in events /\ events' = Rest(s)
  /\ poller' = IF events' = {} THEN "wait" ELSE "process"
  /\ pending' = pending \ {s}
  /\ UNCHANGED <<range, taken, built, sockets, tuners, ready, stopping>>
  /\ UNCHANGED <<destroyed, history>>

-----------------------------------------------------------------------------
(* Shutdown. *)

Stop ==
  /\ built = NumDevices /\ ~stopping /\ stopping' = TRUE
  /\ UNCHANGED <<range, taken, built, sockets, tuners, polling, destroyed, history>>

\* The thread leaves its loop, or is cancelled after 3 s, in epoll_wait() or
\* between two events it has fetched.
PollerEnds ==
  /\ stopping /\ poller # "ended" /\ poller' = "ended" /\ events' = {}
  /\ UNCHANGED <<range, taken, built, sockets, tuners, pending, ready>>
  /\ UNCHANGED <<stopping, destroyed, history>>

\* Faulty: devices are deleted as soon as the shutdown has begun.
StopBegun == stopping

\* Stop() returns when the poller has ended; VDR deletes the devices later.
Stopped == poller = "ended"

\* The destructor of the tuner.
Destroy(d) ==
  /\ Stopped /\ Alive(d) /\ work[d] = None
  /\ destroyed' = destroyed \cup {d}
  /\ LET mine == {d} \X Kinds
     IN  /\ port' = [s \in Sockets |-> IF s \in mine THEN 0 ELSE port[s]]
         /\ group' = [s \in Sockets |-> IF s \in mine THEN None ELSE group[s]]
         /\ registered' = registered \ mine
         /\ pending' = pending \ mine /\ ready' = ready \ mine
  /\ answer' = [answer EXCEPT ![d] = None]
  /\ UNCHANGED <<range, taken, built, work, poller, events, stopping, history>>

Next ==
  \/ Build
  \/ \E d \in Devices :
       \/ SetupUnicast(d) \/ SetupMulticast(d) \/ SetupTcp(d) \/ Release(d)
       \/ \E k \in Kinds : Unregister(d, k) \/ Open(d, k) \/ Register(d, k)
                           \/ Arrive(d, k)
       \/ Destroy(d)
  \/ Wait \/ \E s \in Sockets : Process(s)
  \/ Stop \/ PollerEnds

Spec == Init /\ [][Next]_vars

-----------------------------------------------------------------------------
SocketsOK ==
  /\ built \in 0 .. NumDevices
  /\ port \in [Sockets -> Nat] /\ group \in [Sockets -> Groups \cup {None}]
  /\ registered \subseteq Sockets
  /\ \A s \in Sockets : port[s] = 0 => group[s] = None /\ s \notin registered
  /\ \A s, t \in Sockets : s # t /\ port[s] # 0 => port[s] # port[t]
TunersOK ==
  /\ answer \in [Devices -> Transports \cup {None}]
  /\ work \in [Devices -> Steps \cup {None}]
  /\ \A d \in Devices : work[d] # None => answer[d] # None
PollingOK ==
  /\ pending \subseteq Sockets /\ ready \subseteq registered /\ events \subseteq Sockets
  /\ poller \in {"wait", "process", "ended"}
  /\ poller = "process" <=> events # {}
  /\ stopping \in BOOLEAN /\ destroyed \subseteq Devices
HistoryOK ==
  /\ muted \subseteq Sockets /\ refused \subseteq Sockets /\ strayed \subseteq Devices
  /\ setups \in 0 .. MaxSetups /\ upsets \in 0 .. MaxUpsets
TypeOK == SocketsOK /\ TunersOK /\ PollingOK /\ HistoryOK

\* The pairs of ports inside the range that no other program holds a port of.
FreePairs ==
  {p \in range[1] .. range[2] - 1 :
     (p - range[1]) % 2 = 0 /\ {p, p + 1} \cap taken = {}}

HasPair(d, pairs) ==
  port[<<d, "rtp">>] \in pairs /\ port[<<d, "rtcp">>] = port[<<d, "rtp">>] + 1

\* While a range of three ports or more has a free pair for every device, every
\* device opens its sockets on one of them, whatever the other devices and
\* programs hold.
EveryoneServed ==
  /\ built = NumDevices /\ setups = 0 /\ ~stopping
  /\ range[1] # 0 /\ range[2] >= range[1] + 2
  /\ Cardinality(FreePairs) >= NumDevices
  => \A d \in Devices : HasPair(d, FreePairs)

\* Once SetupTransport is done with a session the sockets are where its data
\* go, and the poller waits for them.
Heard(s) ==
  LET d == s[1]
  IN  answer[d] # None /\ work[d] = None /\ Target(d, s[2]) > 0
      => Reached(d, s[2]) /\ s \in registered
Excused(s) == s \in muted \cup refused \/ s[1] \in strayed

\* This is so whatever the order of transports, but for sockets that could not
\* be bound or joined, a new group on the old port, or an earlier session over
\* TCP.
ListensOtherwise == \A s \in Sockets : Excused(s) \/ Heard(s)

\* Data that wait at a registered socket will be read: an event is reported,
\* or fetched already, even if the socket was opened anew in between.
NothingWaits ==
  \A s \in registered \cap pending : poller # "ended" => s \in ready \cup events

\* The poller handles no event of a device that has been deleted.
NoneDestroyed == \A s \in events : s[1] \notin destroyed

-----------------------------------------------------------------------------
(* What the comments in the code say, and the code does not keep. *)

\* README:116, satip.c:121: a minimum of 2 ports per device is required.
MinimumServed ==
  /\ built = NumDevices /\ setups = 0 /\ ~stopping /\ range[1] # 0
  /\ range[2] >= range[1] + 2 * NumDevices - 1 /\ taken = {}
  => \A d \in Devices : HasPair(d, FreePairs)

\* tuner.c:525: RTP and RTCP are adapted to any transport media change.
AdaptsToAnyChange == \A s \in Sockets : s \in refused \/ Heard(s)
=============================================================================
