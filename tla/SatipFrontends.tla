--------------------------- MODULE SatipFrontends ---------------------------
(***************************************************************************)
(* Which device uses which frontend: the registry of frontends kept for    *)
(* every server (src/server.c), the zapping of VDR's devices              *)
(* (cSatipDevice::SetChannelDevice, src/device.c) that assigns frontends,  *)
(* and the tuner threads that later attach and detach them (src/tuner.c).  *)
(*                                                                         *)
(* The registry is guarded by the mutex of cSatipDiscover, so a call into  *)
(* it is one step.  SetChannelDevice holds SetChannelMtx from its start to *)
(* its wait on tunerLocked, which releases the mutex and ends after a      *)
(* second at the latest, whatever the tuner has done: so nothing is known  *)
(* of the tuner of one call when the next call comes, and the wait is no   *)
(* step of the model.  Which device VDR asks for which channel is VDR's    *)
(* choice, and any.  Of a tuner only its lease of a stream is kept, with   *)
(* the transponders that go with its servers; its thread may connect,      *)
(* retune or disconnect whenever that lease allows it.                     *)
(***************************************************************************)
EXTENDS Naturals, Sequences, FiniteSetsExt

CONSTANTS
  Devices,     \* cSatipDevice, by index
  NumServers,  \* servers found, in the order discovery lists them
  NumSystems,  \* delivery systems, in the order of cSatipServer::delsys
  None,        \* NULL or -1
  Count,       \* Count[s][k]: frontends of server s for system k
  Channels,    \* [tp |-> transponder, lists |-> systems to be tried in order]
  MaxZaps,     \* bound: calls of SetChannelDevice and failures
  MaxUpsets    \* bound: failed requests, 403 answers, releases refused

Servers == 1 .. NumServers
Systems == 1 .. NumSystems
Tps     == {c.tp : c \in Channels}

ASSUME FrontendsAssumption ==
  /\ NumServers \in Nat /\ NumSystems \in Nat
  /\ MaxZaps \in Nat /\ MaxUpsets \in Nat
  /\ Count \in [Servers -> [Systems -> Nat]]
  /\ \A c \in Channels : c.tp \in Nat \ {0} /\ c.lists \in Seq(Systems)
  /\ None \notin Devices \cup Servers \cup (Servers \X Systems)
  /\ None \notin [server : Servers, tp : Nat]
  /\ None \notin [dev : Devices, server : Servers, tp : Nat]

VARIABLES
  frontends,   \* frontends[s][k]: transponderM and deviceIdM of each frontend
  active,      \* servers not switched off in the menu
  zapping,     \* SetChannelDevice between AssignServer and SetSource
  next,        \* nextServerM of each tuner
  current,     \* currentServerM of each tuner
  stream,      \* streamIdM of each tuner, as the server that issued it
  mode,        \* each tuner: idle, to be set, failed and to be retried, tuned
  mustRelease, \* tuners with a tsRelease queued ahead of their tsSet
  booked,      \* history: the list of frontends a device was last given
  calm,        \* history: has no assignment come at a bad moment?
  zaps,        \* history: calls so far
  upsets       \* history: failures so far, at most MaxUpsets

registry == <<frontends, active>>
tuner    == <<next, current, stream, mode, mustRelease>>
history  == <<booked, calm, zaps, upsets>>
vars     == <<registry, zapping, tuner, history>>

Frontend == [tp : Tps \cup {0}, dev : Devices \cup {None}]
Target   == [server : Servers, tp : Tps]

RegistryOK ==
  /\ frontends \in [Servers -> [Systems -> Seq(Frontend)]]
  /\ active \subseteq Servers
ZapOK ==
  zapping = None \/ zapping \in [dev : Devices, server : Servers, tp : Tps]
TunersOK ==
  /\ next \in [Devices -> Target \cup {None}]
  /\ current \in [Devices -> Target \cup {None}]
  /\ stream \in [Devices -> Servers \cup {None}]
  /\ mode \in [Devices -> {"idle", "set", "retry", "on"}]
  /\ mustRelease \subseteq {d \in Devices : mode[d] = "set"}
  /\ \A d \in Devices : mode[d] = "on" => current[d] # None
HistoryOK ==
  /\ booked \in [Devices -> (Servers \X Systems) \cup {None}]
  /\ calm \in BOOLEAN /\ zaps \in 0 .. MaxZaps /\ upsets \in 0 .. MaxUpsets
TypeOK == RegistryOK /\ ZapOK /\ TunersOK /\ HistoryOK

Init ==
  /\ frontends = [s \in Servers |-> [k \in Systems |->
                    [i \in 1 .. Count[s][k] |-> [tp |-> 0, dev |-> None]]]]
  /\ active = Servers /\ zapping = None
  /\ next = [d \in Devices |-> None] /\ current = [d \in Devices |-> None]
  /\ stream = [d \in Devices |-> None]
  /\ mode = [d \in Devices |-> "idle"] /\ mustRelease = {}
  /\ booked = [d \in Devices |-> None] /\ calm = TRUE
  /\ zaps = 0 /\ upsets = 0

-----------------------------------------------------------------------------
(* One list of frontends: cSatipFrontends. *)

Owned(fs, d)    == {i \in DOMAIN fs : fs[i].dev = d}
Free(fs)        == {i \in DOMAIN fs : fs[i].dev = None}
TunedTo(fs, tp) == {i \in DOMAIN fs : fs[i].tp = tp}

Matches(fs, d, tp) == Owned(fs, d) \cap TunedTo(fs, tp) # {}

\* The frontend Assign takes: the device's own, else the last one free.
Assignable(fs, d) == Owned(fs, d) \cup Free(fs) # {}
ToAssign(fs, d) == IF Owned(fs, d) # {} THEN Min(Owned(fs, d))
                                        ELSE Max(Free(fs))

\* Faulty: the frontend is found but not put on the transponder.
AssignUntuned(fs, d, tp) == fs

Assign(fs, d, tp) == [fs EXCEPT ![ToAssign(fs, d)].tp = tp]

\* The frontend Attach takes: one on the transponder, the device's own if it
\* has one there, else the last one, whoever uses it.
ToAttach(fs, d, tp) ==
  LET own == Owned(fs, d) \cap TunedTo(fs, tp)
  IN  IF own # {} THEN Min(own) ELSE Max(TunedTo(fs, tp))
AttachList(fs, d, tp) == [fs EXCEPT ![ToAttach(fs, d, tp)].dev = d]

\* The frontend Detach looks at: the first one on the transponder.
DetachList(fs, d, tp) ==
  LET i == Min(TunedTo(fs, tp))
  IN  IF fs[i].dev = d THEN [fs EXCEPT ![i].dev = None] ELSE fs

-----------------------------------------------------------------------------
(* One server: cSatipServer. *)

MatchingLists(s, d, c) ==
  {i \in DOMAIN c.lists : Matches(frontends[s][c.lists[i]], d, c.tp)}

\* The list that serves an assignment: the first of the channel's lists with
\* a frontend to give.
Assigning(s, d, c) ==
  {i \in DOMAIN c.lists : Assignable(frontends[s][c.lists[i]], d)}

\* Attach and Detach stop at the first list, of whatever system, with a
\* frontend on the transponder.
Holding(fe, s, tp) == {k \in Systems : TunedTo(fe[s][k], tp) # {}}

AttachServer(fe, d, t) ==
  IF t = None \/ Holding(fe, t.server, t.tp) = {} THEN fe
  ELSE [fe EXCEPT ![t.server][Min(Holding(fe, t.server, t.tp))] =
          AttachList(@, d, t.tp)]

DetachServer(fe, d, t) ==
  IF t = None \/ Holding(fe, t.server, t.tp) = {} THEN fe
  ELSE [fe EXCEPT ![t.server][Min(Holding(fe, t.server, t.tp))] =
          DetachList(@, d, t.tp)]

-----------------------------------------------------------------------------
(* VDR's side: cSatipDevice::SetChannelDevice. *)

\* What the last SetSource asked for: nextServerM until a SETUP takes it over.
Wanted(d) == IF next[d] = None THEN current[d] ELSE next[d]

Zapped(d) == zapping # None /\ zapping.dev = d

\* The devices that receive a transponder, or are about to.
ReceivedBy(tp) == {d \in Devices : mode[d] # "idle" /\ Wanted(d).tp = tp}

\* The moment for an assignment is good when every tuner has settled, which the
\* one-second wait is meant to ensure; when no other device receives the
\* transponder, which frontend reuse is meant to ensure; and when the other
\* lists of the server have neither the device nor the transponder.
GoodMoment(d, tp, s, k) ==
  /\ \A e \in Devices : mode[e] \in {"idle", "on"}
  /\ ReceivedBy(tp) \subseteq {d}
  /\ \A j \in Systems \ {k} :
       Owned(frontends[s][j], d) = {} /\ TunedTo(frontends[s][j], tp) = {}

\* The server in whose lists the device already has the transponder, else
\* the first that can assign a frontend.
AssignServer(d, c) ==
  /\ zapping = None /\ zaps + upsets < MaxZaps /\ zaps' = zaps + 1
  /\ LET matching == {s \in active : MatchingLists(s, d, c) # {}}
         giving   == {s \in active : Assigning(s, d, c) # {}}
         s == IF matching # {} THEN Min(matching) ELSE Min(giving)
         k == c.lists[Min(IF matching # {} THEN MatchingLists(s, d, c)
                                           ELSE Assigning(s, d, c))]
     IN  /\ matching \cup giving # {}
         /\ zapping' = [dev |-> d, server |-> s, tp |-> c.tp]
         /\ booked' = [booked EXCEPT ![d] = <<s, k>>]
         /\ calm' = (calm /\ GoodMoment(d, c.tp, s, k))
         /\ frontends' = IF matching # {} THEN frontends
              ELSE [frontends EXCEPT ![s][k] = Assign(@, d, c.tp)]
  /\ UNCHANGED <<active, tuner, upsets>>

Upset ==
  upsets < MaxUpsets /\ zaps + upsets < MaxZaps /\ upsets' = upsets + 1

\* Faulty: no release comes before the change of server.
ReleaseNever(d, s) == UNCHANGED <<mustRelease, calm, upsets>>

\* A change of server requests a release first.  RequestState refuses it when
\* the tuner is idle or about to be, as in a connect that overtook a release.
ReleaseFirst(d, s) ==
  IF current[d] = None \/ current[d].server = s
  THEN UNCHANGED <<mustRelease, calm, upsets>>
  ELSE \/ mustRelease' = mustRelease \cup {d} /\ UNCHANGED <<calm, upsets>>
       \/ /\ IF mode[d] = "idle" THEN UNCHANGED <<calm, upsets>>
                                ELSE Upset /\ calm' = FALSE
          /\ UNCHANGED mustRelease

SetSource ==
  /\ zapping # None /\ zapping' = None
  /\ LET d == zapping.dev
     IN  /\ next' = [next EXCEPT ![d] = [server |-> zapping.server,
                                         tp |-> zapping.tp]]
         /\ mode' = [mode EXCEPT ![d] = "set"]
         /\ ReleaseFirst(d, zapping.server)
  /\ UNCHANGED <<registry, booked, zaps, current, stream>>

Activate(s) ==
  /\ active' \in {active \cup {s}, active \ {s}} /\ active' # active
  /\ UNCHANGED <<frontends, zapping, tuner, history>>

-----------------------------------------------------------------------------
(* The tuner threads: cSatipTuner::Connect and Disconnect. *)

Connects(d) == mode[d] \in {"set", "retry"} /\ d \notin mustRelease

\* Faulty: nextServerM, used up by an earlier SETUP, is copied all the same.
TakeOverNothing(d) ==
  /\ current' = [current EXCEPT ![d] = next[d]]
  /\ next' = [next EXCEPT ![d] = None]

TakeOver(d) ==
  /\ current' = [current EXCEPT ![d] = Wanted(d)]
  /\ next' = [next EXCEPT ![d] = None]

\* A 403 answer is taken for success, but brings no stream.
Setup(d) ==
  /\ Connects(d) /\ stream[d] = None
  /\ \/ /\ stream' = [stream EXCEPT ![d] = Wanted(d).server]
        /\ UNCHANGED upsets
     \/ Upset /\ UNCHANGED stream
  /\ TakeOver(d)
  /\ mode' = [mode EXCEPT ![d] = "on"]
  /\ frontends' = AttachServer(frontends, d, Wanted(d))
  /\ UNCHANGED <<active, zapping, booked, calm, zaps, mustRelease>>

\* "Just retune" leaves the registry and nextServerM alone.
Retune(d) ==
  /\ Connects(d) /\ stream[d] # None
  /\ mode' = [mode EXCEPT ![d] = "on"]
  /\ UNCHANGED <<registry, zapping, history>>
  /\ UNCHANGED <<next, current, stream, mustRelease>>

Disconnect(d) ==
  /\ stream' = [stream EXCEPT ![d] = None]
  /\ frontends' = DetachServer(frontends, d, current[d])
  /\ UNCHANGED <<active, zapping, calm, zaps, next, current>>

\* A failed SETUP or retuning, which will be tried again.
ConnectFailed(d) ==
  /\ Connects(d) /\ Upset /\ Disconnect(d)
  /\ mode' = [mode EXCEPT ![d] = "retry"]
  /\ UNCHANGED <<mustRelease, booked>>

\* A status, keep-alive or PID update that fails, or silence.  Between
\* AssignServer and SetSource it makes the tuner connect once more to what it is
\* about to leave.
SetAgain(d) ==
  /\ mode[d] = "on" /\ Upset /\ mode' = [mode EXCEPT ![d] = "set"]
  /\ calm' = (calm /\ ~Zapped(d))
  /\ UNCHANGED <<registry, zapping, next, current, stream, mustRelease>>
  /\ UNCHANGED <<booked, zaps>>

\* A release that a tsSet follows: for a new server, for a call before that tsSet,
\* or for a server that is torn down before it is retuned (quirk 0x80); or one
\* for good: by Close, for power saving, or after two idle checks.
Release(d) ==
  /\ mode[d] # "idle" /\ Disconnect(d) /\ UNCHANGED upsets
  /\ mustRelease' = mustRelease \ {d}
  /\ \/ mode[d] \in {"set", "retry"} /\ UNCHANGED <<mode, booked>>
     \/ /\ mode[d] # "set"
        /\ mode' = [mode EXCEPT ![d] = "idle"]
        /\ booked' = IF Zapped(d) THEN booked ELSE [booked EXCEPT ![d] = None]

Next ==
  \/ \E d \in Devices, c \in Channels : AssignServer(d, c)
  \/ SetSource
  \/ \E d \in Devices :
       \/ Setup(d) \/ Retune(d)
       \/ ConnectFailed(d) \/ SetAgain(d) \/ Release(d)
  \/ \E s \in Servers : Activate(s)

Spec == Init /\ [][Next]_vars

-----------------------------------------------------------------------------
\* A list of frontends is given to no more devices than it has frontends: what
\* the one-second wait of SetChannelDevice is there for (device.c:449).
EnoughFrontends ==
  \A s \in Servers, k \in Systems :
    Cardinality({d \in Devices : booked[d] = <<s, k>>}) <= Count[s][k]

\* An assignment at a bad moment is the only thing that can break this: no failed
\* request, 403 answer, lost session, release, change of server or server switched
\* off gives a frontend away twice.
NoOverbooking == calm => EnoughFrontends

\* Nor do they move a tuned device to another frontend: it is marked once in the
\* list it was given, on its transponder, so that Attach, which sees only device
\* and transponder, has found the list and the frontend Assign had chosen.
TunedIsMarked ==
  calm => \A d \in Devices : mode[d] = "on" /\ ~Zapped(d) =>
            \E k \in Systems :
              LET s == Wanted(d).server
                  owned == Owned(frontends[s][k], d)
              IN  /\ booked[d] = <<s, k>> /\ Cardinality(owned) = 1
                  /\ owned \subseteq TunedTo(frontends[s][k], Wanted(d).tp)

-----------------------------------------------------------------------------
(* What the documents and comments say, and the code does not keep. *)

\* With frontend reuse off (README:177-180) no frontend serves two channels, and
\* the wait of SetChannelDevice prevents that one is allocated twice
\* (device.c:449): a device's mark on a frontend is taken away by its own release
\* only, never by Attach for another device.
NoMarkStolen ==
  [][\A s \in Servers, k \in Systems :
       \A i \in DOMAIN frontends[s][k] :
         LET d == frontends[s][k][i].dev
         IN  d # None => frontends'[s][k][i].dev \in {d, None}]_vars
=============================================================================
