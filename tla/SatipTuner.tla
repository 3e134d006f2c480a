----------------------------- MODULE SatipTuner -----------------------------
(***************************************************************************)
(* One cSatipTuner (src/tuner.c): the tuner thread, the calls VDR's        *)
(* threads make into it, the RTCP reports the poller thread delivers, and  *)
(* the SAT>IP servers at the other end of its RTSP connection.             *)
(*                                                                         *)
(* Every method below takes the tuner's recursive mutex for its whole      *)
(* body, network round trips included, so a method is one step.  Between   *)
(* two methods of one iteration of Action() any other thread may call in:  *)
(* pc says which method the tuner thread calls next.  A timer (cTimeMs)    *)
(* may or may not have expired whenever it is read.                        *)
(***************************************************************************)
EXTENDS Naturals, Sequences

CONSTANTS
  Servers,      \* the SAT>IP servers discovery has found
  None,         \* "", -1 or NULL: no address, no stream, no server
  Params,       \* transponder parameter strings
  Pids,         \* packet identifiers
  TearAndPlay,  \* servers with quirk 0x80
  PlayPids,     \* servers with quirk 0x02
  ForceLock,    \* servers with quirk 0x04
  CiServers,    \* servers whose CI extension is in use
  IdleReports,  \* what cSatipDevice::IsIdle() may answer
  Forbids,      \* may a server answer 403?
  StrictHost,   \* does a server refuse a stream URI that names another host?
  MaxRequests,  \* bound: SetSource, Close and SetPowerSaveMode calls
  MaxUpsets     \* bound: answers lost or refused, sessions dropped

ASSUME TunerAssumption ==
  /\ None \notin Servers /\ None \notin Params
  /\ TearAndPlay \subseteq Servers /\ PlayPids \subseteq Servers
  /\ ForceLock \subseteq Servers /\ CiServers \subseteq Servers
  /\ IdleReports \subseteq BOOLEAN
  /\ Forbids \in BOOLEAN /\ StrictHost \in BOOLEAN
  /\ MaxRequests \in Nat /\ MaxUpsets \in Nat

VARIABLES
  pc,            \* the method Action() calls next
  state,         \* currentStateM
  internal,      \* internalStateM
  external,      \* externalStateM
  lastIdle,      \* lastIdleStatus of Action()
  streamAddr,    \* streamAddrM and streamPortM: the server wanted
  streamParam,   \* streamParamM
  lastAddr,      \* lastAddrM: the server of the last successful SETUP
  streamId,      \* streamIdM, as the server that issued it
  url,           \* CURLOPT_URL of the RTSP handle: the host requests go to
  currentServer, \* currentServerM
  nextServer,    \* nextServerM
  hasLock,       \* hasLockM
  pids,          \* pidsM
  addPids,       \* addPidsM
  delPids,       \* delPidsM
  \* the registry of servers and the servers themselves
  attached,      \* servers with a frontend marked as used by this device
  alive,         \* does the issuer of streamId still hold the session?
  playing,       \* has a PLAY started it?  It sends nothing before
  played,        \* PIDs that session delivers
  tunedTo,       \* transponder that session delivers
  \* history
  optionsUsed,   \* was the last SETUP sent with its server's own options?
  forbade,       \* requests answered by 403 and taken for done
  lost,          \* wanted PIDs a PLAY left out that are not to be sent again
  wanted,        \* what the last call asked for
  requests,      \* calls so far, at most MaxRequests
  upsets         \* failures so far, at most MaxUpsets

thread  == <<pc, state, internal, external, lastIdle>>
target  == <<streamAddr, streamParam, nextServer>>
client  == <<lastAddr, streamId, url, currentServer, hasLock>>
pidSets == <<pids, addPids, delPids>>
remote  == <<attached, alive, playing, played, tunedTo>>
history == <<optionsUsed, forbade, lost, wanted, requests, upsets>>
vars    == <<thread, target, client, pidSets, remote, history>>

States == {"tsIdle", "tsRelease", "tsSet", "tsTuned", "tsLocked"}
Points == {"update", "dispatch", "requestIdle", "connect", "connectFailed",
           "requestTuned", "forcePids", "status", "tuned", "tuningTimeout",
           "keepAlive", "watchdog", "requestSet"}
OrNone(S) == S \cup {None}

QueuesOK ==
  /\ pc \in Points /\ state \in States
  /\ internal \in Seq(States) /\ external \in Seq({"tsSet", "tsRelease"})
AddressesOK ==
  /\ streamAddr \in OrNone(Servers) /\ nextServer \in OrNone(Servers)
  /\ lastAddr \in OrNone(Servers) /\ streamId \in OrNone(Servers)
  /\ url \in OrNone(Servers) /\ currentServer \in OrNone(Servers)
  /\ attached \subseteq Servers
DataOK ==
  /\ streamParam \in OrNone(Params) /\ tunedTo \in OrNone(Params)
  /\ pids \subseteq Pids /\ addPids \subseteq Pids /\ delPids \subseteq Pids
  /\ played \subseteq Pids /\ lost \subseteq Pids
  /\ forbade \subseteq {"setup", "retuning"}
FlagsOK ==
  /\ lastIdle \in BOOLEAN /\ hasLock \in BOOLEAN /\ alive \in BOOLEAN
  /\ playing \in BOOLEAN /\ optionsUsed \in BOOLEAN
CountsOK ==
  /\ wanted \in {"nothing", "tuned", "released"}
  /\ requests \in Nat /\ upsets \in Nat
TypeOK == QueuesOK /\ AddressesOK /\ DataOK /\ FlagsOK /\ CountsOK

Init ==
  /\ pc = "update" /\ state = "tsIdle" /\ internal = <<>> /\ external = <<>>
  /\ lastIdle = FALSE
  /\ streamAddr = None /\ streamParam = None /\ nextServer = None
  /\ lastAddr = None /\ streamId = None /\ url = None
  /\ currentServer = None /\ hasLock = FALSE
  /\ pids = {} /\ addPids = {} /\ delPids = {}
  /\ attached = {} /\ alive = FALSE /\ playing = FALSE /\ played = {}
  /\ tunedTo = None
  /\ optionsUsed = TRUE /\ forbade = {} /\ lost = {} /\ wanted = "nothing"
  /\ requests = 0 /\ upsets = 0

-----------------------------------------------------------------------------
(* State requests. *)

LastRequested == IF internal = <<>> THEN state ELSE internal[Len(internal)]

\* A release is refused when the tuner is idle or about to be.
RequestInternal(s) ==
  internal' = IF LastRequested = "tsIdle" /\ s = "tsRelease"
              THEN internal ELSE Append(internal, s)

RequestExternal(s) == external' = Append(external, s)

\* Internal requests first, then external ones, each in arrival order.
UpdateCurrentState ==
  /\ pc = "update" /\ pc' = "dispatch"
  /\ \/ /\ internal # <<>>
        /\ state' = Head(internal) /\ internal' = Tail(internal)
        /\ UNCHANGED external
     \/ /\ internal = <<>> /\ external # <<>>
        /\ state' = Head(external) /\ external' = Tail(external)
        /\ UNCHANGED internal
     \/ /\ internal = <<>> /\ external = <<>>
        /\ UNCHANGED <<state, internal, external>>
  /\ UNCHANGED <<lastIdle, target, client, pidSets, remote, history>>

Goto(from, to) == pc = from /\ pc' = to

-----------------------------------------------------------------------------
(* The other end of the RTSP connection. *)

\* The request reaches the session it names.
Reaches == url = streamId /\ alive

Upset == upsets < MaxUpsets /\ upsets' = upsets + 1

\* A 200 answer to a request within the session.
Answers  == Reaches /\ (StrictHost => streamAddr = streamId)
Accepted == Answers /\ UNCHANGED upsets

\* A 403 answer, which ValidateLatestResponse takes for a success.
Forbidden == Forbids /\ Reaches /\ Upset

\* Any other answer, or none.
Refused ==
  \/ Answers /\ Upset
  \/ ~Answers /\ UNCHANGED upsets

\* The lock flag of a status report.  Losing a lock is an upset.
LockReport ==
  \/ hasLock' = TRUE /\ UNCHANGED upsets
  \/ hasLock' = FALSE /\ IF hasLock THEN Upset ELSE UNCHANGED upsets

\* Faulty: the stream id survives.
ForgetStreamButId ==
  /\ streamId' = streamId /\ url' = None
  /\ alive' = FALSE /\ playing' = FALSE /\ played' = {} /\ tunedTo' = None

\* The tuner forgets its stream; the server may keep the session.
ForgetStream ==
  /\ streamId' = None /\ url' = None
  /\ alive' = FALSE /\ playing' = FALSE /\ played' = {} /\ tunedTo' = None

-----------------------------------------------------------------------------
(* Tuner thread: tsIdle and tsRelease. *)

Idle ==
  /\ state = "tsIdle" /\ Goto("dispatch", "update")
  /\ UNCHANGED <<state, internal, external, lastIdle>>
  /\ UNCHANGED <<target, client, pidSets, remote, history>>

\* TEARDOWN names the server of the last SETUP but goes to the host in url.  A
\* server it misses ends the session itself after a while.
Teardown ==
  IF lastAddr # None /\ streamId # None
  THEN ForgetStream
  ELSE UNCHANGED <<streamId, url, alive, playing, played, tunedTo>>

\* Faulty: the frontend is not detached.
DisconnectWithoutDetach ==
  /\ Teardown
  /\ hasLock' = FALSE
  /\ addPids' = {} /\ delPids' = {}
  /\ UNCHANGED <<attached, pids, lastAddr, currentServer, history>>

Disconnect ==
  /\ Teardown
  /\ hasLock' = FALSE
  /\ attached' = attached \ {currentServer}
  /\ addPids' = {} /\ delPids' = {}
  /\ UNCHANGED <<pids, lastAddr, currentServer, history>>

Release ==
  /\ state = "tsRelease" /\ Goto("dispatch", "requestIdle")
  /\ Disconnect
  /\ UNCHANGED <<state, internal, external, lastIdle, target>>

\* Faulty: the request goes to the external queue.
RequestIdleExternally ==
  /\ Goto("requestIdle", "update")
  /\ RequestExternal("tsIdle")
  /\ UNCHANGED <<state, internal, lastIdle>>
  /\ UNCHANGED <<target, client, pidSets, remote, history>>

RequestIdle ==
  /\ Goto("requestIdle", "update")
  /\ RequestInternal("tsIdle")
  /\ UNCHANGED <<state, external, lastIdle>>
  /\ UNCHANGED <<target, client, pidSets, remote, history>>

-----------------------------------------------------------------------------
(* Tuner thread: tsSet. *)

Set ==
  /\ state = "tsSet" /\ Goto("dispatch", "connect")
  /\ \/ currentServer \in TearAndPlay /\ Disconnect
     \/ /\ currentServer \notin TearAndPlay
        /\ UNCHANGED <<client, pidSets, remote, history>>
  /\ UNCHANGED <<state, internal, external, lastIdle, target>>

\* "Just retune": a PLAY with the new parameters on the stream at hand.  A
\* server may or may not keep the PID filter over a change of transponder.
Retune ==
  /\ pc = "connect" /\ streamAddr # None /\ streamId # None
  /\ \/ /\ Accepted /\ pc' = "requestTuned"
        /\ playing' = TRUE /\ played' \in {played, {}} /\ lost' = {}
        /\ tunedTo' = streamParam
        /\ UNCHANGED <<streamId, url, alive, forbade>>
     \/ /\ Forbidden /\ pc' = "requestTuned"
        /\ forbade' = forbade \cup {"retuning"}
        /\ UNCHANGED <<streamId, url, alive, playing, played, lost, tunedTo>>
     \/ /\ Refused /\ pc' = "connectFailed"
        /\ ForgetStream /\ UNCHANGED <<lost, forbade>>
  /\ UNCHANGED <<state, internal, external, lastIdle, target, pidSets>>
  /\ UNCHANGED <<lastAddr, currentServer, hasLock, attached>>
  /\ UNCHANGED <<optionsUsed, wanted, requests>>

\* Faulty: lastAddrM keeps the address of the previous session.
SetupDoneOldAddress ==
  /\ pc' = "requestTuned"
  /\ url' = streamAddr /\ lastAddr' = IF lastAddr = None THEN streamAddr
                                                        ELSE lastAddr
  /\ currentServer' = IF nextServer = None THEN currentServer ELSE nextServer
  /\ nextServer' = None
  /\ attached' = attached \cup ({currentServer'} \ {None})

\* Faulty: current and next server are swapped.
SetupDoneSwapped ==
  /\ pc' = "requestTuned"
  /\ url' = streamAddr /\ lastAddr' = streamAddr
  /\ currentServer' = IF nextServer = None THEN currentServer ELSE nextServer
  /\ nextServer' = currentServer
  /\ attached' = attached \cup ({currentServer'} \ {None})

\* What every SETUP taken for successful does.
SetupDone ==
  /\ pc' = "requestTuned"
  /\ url' = streamAddr /\ lastAddr' = streamAddr
  /\ currentServer' = IF nextServer = None THEN currentServer ELSE nextServer
  /\ nextServer' = None
  /\ attached' = attached \cup ({currentServer'} \ {None})

\* OPTIONS, then SETUP, on a fresh handle.  Source address, TCP transport
\* and session id fix are taken from nextServer only.
Setup ==
  /\ pc = "connect" /\ streamAddr # None /\ streamId = None
  /\ \/ /\ SetupDone /\ UNCHANGED <<upsets, forbade>>
        /\ streamId' = streamAddr /\ alive' = TRUE
        /\ playing' = FALSE /\ played' = {} /\ tunedTo' = streamParam
        /\ lost' = {} /\ optionsUsed' = (nextServer = streamAddr)
     \/ /\ Forbids /\ Upset /\ SetupDone
        /\ forbade' = forbade \cup {"setup"}
        /\ optionsUsed' = (nextServer = streamAddr)
        /\ UNCHANGED <<streamId, alive, playing, played, lost, tunedTo>>
     \/ /\ Upset /\ pc' = "connectFailed" /\ ForgetStream
        /\ UNCHANGED <<lastAddr, currentServer, nextServer, attached>>
        /\ UNCHANGED <<lost, optionsUsed, forbade>>
  /\ UNCHANGED <<state, internal, external, lastIdle, streamAddr, streamParam>>
  /\ UNCHANGED <<hasLock, pidSets, wanted, requests>>

ConnectFailed ==
  /\ Goto("connectFailed", "update")
  /\ Disconnect
  /\ UNCHANGED <<state, internal, external, lastIdle, target>>

RequestTuned ==
  /\ Goto("requestTuned", "forcePids")
  /\ RequestInternal("tsTuned")
  /\ UNCHANGED <<state, external, lastIdle>>
  /\ UNCHANGED <<target, client, pidSets, remote, history>>

-----------------------------------------------------------------------------
(* UpdatePids(): the PID lists the server is sent. *)

Pending == addPids # {} \/ delPids # {}

\* A forced update, and a server with the PlayPids quirk, gets the whole list.
FullList(force) == force \/ currentServer \in PlayPids

AfterPlay(force) ==
  CASE ~FullList(force) -> (played \cup addPids) \ delPids
    [] FullList(force) /\ pids # {} -> pids
    [] OTHER -> played

\* The update sends nothing: no address or stream, or no cause.  An update
\* that is not forced may also find the cache timer still running.
PidsNotDue(force) ==
  /\ streamAddr = None \/ streamId = None \/ ~(force /\ pids # {})
  /\ UNCHANGED <<addPids, delPids, playing, played, lost, upsets>>

PidsDue(force) ==
  /\ streamAddr # None /\ streamId # None
  /\ (force /\ pids # {}) \/ Pending

\* The lists are cleared once the PLAY has been answered, or when there was
\* nothing to put in one.  ci: did a CI parameter go into the request?
PidsDone == addPids' = {} /\ delPids' = {}

UpdatePidsOk(force) ==
  \/ PidsNotDue(force)
  \/ /\ PidsDue(force)
     /\ \/ /\ FullList(force) /\ pids = {}
           /\ PidsDone /\ UNCHANGED <<playing, played, lost, upsets>>
        \/ /\ FullList(force) => pids # {} \/ currentServer \in CiServers
           /\ Accepted /\ PidsDone
           /\ playing' = TRUE /\ played' = AfterPlay(force)
           /\ lost' = lost \ AfterPlay(force)
        \/ /\ FullList(force) => pids # {} \/ currentServer \in CiServers
           /\ Forbidden /\ PidsDone /\ lost' = lost \cup (pids \ played)
           /\ UNCHANGED <<playing, played>>

UpdatePidsFailed(force) ==
  /\ PidsDue(force)
  /\ FullList(force) => pids # {} \/ currentServer \in CiServers
  /\ Refused
  /\ lost' = IF force THEN lost \cup (pids \ (addPids \cup played)) ELSE lost
  /\ UNCHANGED <<addPids, delPids, playing, played>>

\* The result of the forced update after a Connect is ignored: what was not
\* pending is not sent again.
ForcePids ==
  /\ Goto("forcePids", "update")
  /\ UpdatePidsOk(TRUE) \/ UpdatePidsFailed(TRUE)
  /\ UNCHANGED <<state, internal, external, lastIdle, target, client, pids>>
  /\ UNCHANGED <<attached, alive, tunedTo>>
  /\ UNCHANGED <<optionsUsed, forbade, wanted, requests>>

-----------------------------------------------------------------------------
(* Tuner thread: tsTuned. *)

\* SetChannelTuned() wakes VDR; then lock or a status report is waited for.
Tuned ==
  /\ state = "tsTuned" /\ pc = "dispatch"
  /\ pc' = IF hasLock THEN "tuned" ELSE "status"
  /\ lastIdle' = FALSE
  /\ UNCHANGED <<state, internal, external, target, client, pidSets>>
  /\ UNCHANGED <<remote, history>>

\* DESCRIBE, when due; its body is parsed for the lock flag.
StatusRead ==
  /\ streamAddr # None /\ streamId # None
  /\ Goto("status", "tuned")
  /\ \/ Answers /\ LockReport
     \/ Forbidden /\ UNCHANGED hasLock
  /\ UNCHANGED <<state, internal, external, lastIdle, target, pidSets, remote>>
  /\ UNCHANGED <<lastAddr, streamId, url, currentServer>>
  /\ UNCHANGED <<optionsUsed, forbade, lost, wanted, requests>>

\* Not due, no stream to ask about, or the DESCRIBE failed.
StatusNotRead ==
  /\ Goto("status", "tuningTimeout")
  /\ UNCHANGED upsets \/ (streamAddr # None /\ streamId # None /\ Refused)
  /\ UNCHANGED <<state, internal, external, lastIdle, target, client, pidSets>>
  /\ UNCHANGED <<remote, optionsUsed, forbade, lost, wanted, requests>>

TunedLock ==
  /\ Goto("tuned", "update")
  /\ hasLock' = (hasLock \/ currentServer \in ForceLock)
  /\ IF hasLock' THEN RequestInternal("tsLocked") ELSE UNCHANGED internal
  /\ UNCHANGED <<state, external, lastIdle, target, pidSets, remote, history>>
  /\ UNCHANGED <<lastAddr, streamId, url, currentServer>>

\* After 20 s without lock the tuner starts over.
TuningTimeout(expired) ==
  /\ Goto("tuningTimeout", "update")
  /\ IF expired THEN RequestInternal("tsSet") ELSE UNCHANGED internal
  /\ UNCHANGED <<state, external, lastIdle>>
  /\ UNCHANGED <<target, client, pidSets, remote, history>>

-----------------------------------------------------------------------------
(* Tuner thread: tsLocked. *)

Locked ==
  /\ state = "tsLocked" /\ pc = "dispatch"
  /\ \/ UpdatePidsOk(FALSE) /\ pc' = "keepAlive"
     \/ UpdatePidsFailed(FALSE) /\ pc' = "requestSet"
  /\ UNCHANGED <<state, internal, external, lastIdle, target, client, pids>>
  /\ UNCHANGED <<attached, alive, tunedTo>>
  /\ UNCHANGED <<optionsUsed, forbade, wanted, requests>>

\* OPTIONS to the wanted server, when due: it redirects the handle there.
\* A server that does not know the session may answer either way.
KeepAlive ==
  /\ pc = "keepAlive"
  /\ \/ pc' = "watchdog" /\ UNCHANGED <<url, upsets>>
     \/ /\ streamAddr # None /\ url' = streamAddr
        /\ \/ pc' = "watchdog" /\ UNCHANGED upsets
           \/ /\ pc' = "requestSet"
              /\ IF streamAddr = streamId /\ alive THEN Upset
                                                   ELSE UNCHANGED upsets
  /\ UNCHANGED <<state, internal, external, lastIdle, target, pidSets, remote>>
  /\ UNCHANGED <<lastAddr, streamId, currentServer, hasLock>>
  /\ UNCHANGED <<optionsUsed, forbade, lost, wanted, requests>>

RequestSet ==
  /\ Goto("requestSet", "update")
  /\ RequestInternal("tsSet")
  /\ UNCHANGED <<state, external, lastIdle>>
  /\ UNCHANGED <<target, client, pidSets, remote, history>>

\* Faulty: silence is noticed and nothing is done.
NoDataIgnored ==
  /\ Goto("watchdog", "update")
  /\ IF streamId # None /\ playing THEN Upset ELSE UNCHANGED upsets
  /\ UNCHANGED <<state, internal, external, lastIdle>>
  /\ UNCHANGED <<target, client, pidSets, remote>>
  /\ UNCHANGED <<optionsUsed, forbade, lost, wanted, requests>>

\* Five seconds without a packet.  A session that was started sends RTCP
\* reports, so silence on one is an upset.
NoData ==
  /\ Goto("watchdog", "update")
  /\ IF streamId # None /\ playing THEN Upset ELSE UNCHANGED upsets
  /\ RequestInternal("tsSet")
  /\ UNCHANGED <<state, external, lastIdle, target, client, pidSets, remote>>
  /\ UNCHANGED <<optionsUsed, forbade, lost, wanted, requests>>

\* Two idle checks in a row, 15 s apart, release the tuner.
IdleCheck ==
  /\ Goto("watchdog", "update")
  /\ \E idle \in IdleReports :
       /\ lastIdle' = idle
       /\ IF lastIdle /\ idle THEN RequestInternal("tsRelease")
                              ELSE UNCHANGED internal
  /\ UNCHANGED <<state, external>>
  /\ UNCHANGED <<target, client, pidSets, remote, history>>

\* Receive() sends an OPTIONS in TCP mode only; its result is ignored.
Receive ==
  /\ Goto("watchdog", "update")
  /\ url' \in {url} \cup ({streamAddr} \ {None})
  /\ UNCHANGED <<state, internal, external, lastIdle, target, pidSets, remote>>
  /\ UNCHANGED <<lastAddr, streamId, currentServer, hasLock, history>>

-----------------------------------------------------------------------------
(* Calls of VDR's threads. *)

Request(w) ==
  requests < MaxRequests /\ requests' = requests + 1 /\ wanted' = w

\* Another server than that of the last SETUP: release first.
SetSource(s, p) ==
  /\ Request("tuned")
  /\ nextServer' = s /\ streamAddr' = s /\ streamParam' = p
  /\ IF lastAddr # None /\ lastAddr # s THEN RequestInternal("tsRelease")
                                        ELSE UNCHANGED internal
  /\ RequestExternal("tsSet")
  /\ UNCHANGED <<pc, state, lastIdle, client, pidSets, remote>>
  /\ UNCHANGED <<optionsUsed, forbade, lost, upsets>>

\* Faulty: a pending deletion of p stays pending.
PidOnStillDeleted(p) ==
  pids' = pids \cup {p} /\ addPids' = addPids \cup {p} /\ UNCHANGED delPids

\* Faulty: p is wanted but never sent.
PidOnNotAdded(p) ==
  pids' = pids \cup {p} /\ delPids' = delPids \ {p} /\ UNCHANGED addPids

\* Faulty: a pending addition of p stays pending.
PidOffStillAdded(p) ==
  pids' = pids \ {p} /\ delPids' = delPids \cup {p} /\ UNCHANGED addPids

PidOn(p) ==
  /\ pids' = pids \cup {p}
  /\ addPids' = addPids \cup {p}
  /\ delPids' = delPids \ {p}

PidOff(p) ==
  /\ pids' = pids \ {p}
  /\ delPids' = delPids \cup {p}
  /\ addPids' = addPids \ {p}

SetPid(p) ==
  /\ PidOn(p) \/ PidOff(p)
  /\ lost' = lost \ {p}
  /\ UNCHANGED <<thread, target, client, remote>>
  /\ UNCHANGED <<optionsUsed, forbade, wanted, requests, upsets>>

\* Takes effect only once the two seconds after a SetSource have passed.
Close ==
  /\ Request("released")
  /\ RequestExternal("tsRelease")
  /\ UNCHANGED <<pc, state, internal, lastIdle, optionsUsed, forbade, lost>>
  /\ UNCHANGED <<target, client, pidSets, remote, upsets>>

SetPowerSaveMode ==
  /\ state \in {"tsSet", "tsTuned", "tsLocked"}
  /\ Request("released")
  /\ RequestExternal("tsRelease")
  /\ UNCHANGED <<pc, state, internal, lastIdle, optionsUsed, forbade, lost>>
  /\ UNCHANGED <<target, client, pidSets, remote, upsets>>

-----------------------------------------------------------------------------
(* Poller thread and servers. *)

\* The RTCP socket stays open between sessions: a report may come late.
ProcessApplicationData ==
  /\ lastAddr # None
  /\ LockReport
  /\ UNCHANGED <<thread, target, pidSets, remote>>
  /\ UNCHANGED <<lastAddr, streamId, url, currentServer>>
  /\ UNCHANGED <<optionsUsed, forbade, lost, wanted, requests>>

SessionLost ==
  /\ alive /\ Upset
  /\ alive' = FALSE /\ playing' = FALSE /\ played' = {} /\ tunedTo' = None
  /\ UNCHANGED <<thread, target, client, pidSets, attached>>
  /\ UNCHANGED <<optionsUsed, forbade, lost, wanted, requests>>

-----------------------------------------------------------------------------
Action ==
  \/ UpdateCurrentState
  \/ Idle \/ Release \/ RequestIdle
  \/ Set \/ Retune \/ Setup \/ ConnectFailed \/ RequestTuned \/ ForcePids
  \/ Tuned \/ StatusRead \/ StatusNotRead \/ TunedLock
  \/ \E expired \in BOOLEAN : TuningTimeout(expired)
  \/ Locked \/ KeepAlive \/ RequestSet \/ NoData \/ IdleCheck \/ Receive

Calls ==
  \/ \E s \in Servers, p \in Params : SetSource(s, p)
  \/ \E p \in Pids : SetPid(p)
  \/ Close \/ SetPowerSaveMode

Environment ==
  ProcessApplicationData \/ SessionLost

Next == Action \/ Calls \/ Environment

Spec == Init /\ [][Next]_vars

-----------------------------------------------------------------------------
(* Safety. *)

\* The two lists of pending changes never contradict each other or the set
\* of wanted PIDs (SetPid and the two places that clear the lists).
PidListsAgree == addPids \subseteq pids /\ delPids \cap pids = {}

\* While a session lasts, every wanted PID has been sent to the server or is
\* waiting to be sent: no interleaving of SetPid, retuning and the forced
\* update after it loses one, unless that very update failed, or a PLAY that
\* named it was answered by 403.
NoPidMissing ==
  streamId # None /\ alive /\ pc \notin {"requestTuned", "forcePids"}
  => pids \ (addPids \cup lost) \subseteq played

\* A stream always has the address its TEARDOWN names, the server whose
\* quirks apply to it and a host to send requests to, whatever SetSource
\* calls came since its SETUP.
StreamIsAddressable ==
  streamId # None => /\ lastAddr = streamId /\ currentServer = streamId
                     /\ url # None

\* An idle tuner with nothing left in its internal queue holds no stream,
\* although tsIdle may be queued behind a tsSet that connects again.
IdleHasNoStream ==
  state = "tsIdle" /\ internal = <<>> /\ pc \in {"update", "dispatch"}
  => streamId = None

\* The thread never tries to connect without an address, and the options
\* waiting in nextServerM are always those of the server it would reach.
ConnectKnowsServer ==
  /\ pc = "connect" => streamAddr # None
  /\ nextServer \in {None, streamAddr}

\* The device is marked on the frontends of one server at most, the current
\* one: each Attach of a Connect meets the Detach of a Disconnect, unless a SETUP
\* answered by 403 was taken for done.
AttachedIsCurrent == "setup" \in forbade \/ attached \subseteq {currentServer}

\* The abstract view of one tuner: SetSource only wishes, a stream is given
\* up before another is opened, and streamIdM, lastAddrM and currentServerM
\* change together.
Lease == INSTANCE TunerLease
         WITH wanted <- streamAddr, server <- currentServer, stream <- streamId
ImplementsLease == Lease!Spec

-----------------------------------------------------------------------------
(* Liveness. *)

\* The thread runs; a due status report, PID update or watchdog is not put
\* off for ever, and a server that keeps being asked reports lock at last.
Fairness ==
  /\ WF_vars(Action)
  /\ SF_vars(StatusRead /\ hasLock')
  /\ SF_vars(TuningTimeout(TRUE))
  /\ SF_vars(Locked /\ addPids' = {} /\ delPids' = {})
  /\ SF_vars(NoData /\ UNCHANGED upsets)

FairSpec == Spec /\ Fairness

\* The release after two idle checks in a row.
FoundIdle == state = "tsIdle" /\ streamId = None /\ lastIdle

Settled ==
  CASE wanted = "tuned"    -> \/ /\ state = "tsLocked" /\ streamId = streamAddr
                                 /\ playing /\ tunedTo = streamParam
                              \/ FoundIdle
    [] wanted = "released" -> state = "tsIdle" /\ streamId = None
    [] OTHER               -> TRUE

\* Once calls and failures stop, the tuner does what the last call asked:
\* it ends up locked on that server and transponder, or idle; or it is
\* released because the device was found idle twice.  There are two exceptions:
\* a retuning answered by 403 and taken for done; and a server with quirk 0x80 of
\* which no PID is wanted, whose sessions no PLAY ever starts, so that after five
\* silent seconds each is torn down and set up once more.
Settles ==
  <>[](/\ pids # {} \/ streamAddr \notin TearAndPlay
       /\ "retuning" \notin forbade)
  => <>[]Settled

\* What is asked of the tuner for a PID that stays wanted.
Served(p) == p \in played \/ p \notin pids \/ wanted # "tuned" \/ FoundIdle

\* A wanted PID is delivered in the end, although a forced update may fail: a
\* session no PLAY has started stays silent and is retuned.  The exception is a
\* PID that was lost in a session that goes on sending: the result of the forced
\* update after a Connect is ignored (tuner.c:141), and a 403 is taken for done.
PidServed ==
  \A p \in Pids : p \in pids ~> (Served(p) \/ (playing /\ p \in lost))

-----------------------------------------------------------------------------
(* What the repository's documents say, and the code does not keep. *)

\* README:82-83 and 98-101: source address, TCP transport and session id fix
\* are settings of a server, so each SETUP to it should use them.
ServerOptionsUsed == optionsUsed
=============================================================================
