# Verification of vdr-plugin-satip

TLA+ models of the SAT>IP plugin for the Video Disk Recorder, checked with TLC
and, where the result matters for every instance, proved with TLAPS. The models
are translated from the C++ sources in `src/`; `PROJECT.json` maps every
definition to the lines it stands for.

The plugin turns SAT>IP servers on the network into VDR devices. A device owns
one *tuner*; the tuner opens an RTSP session with a server, asks it for a
transponder and a set of PIDs, and receives the stream by RTP. A *discovery*
thread finds servers, a *registry* books their frontends, a *poller* thread
reads the sockets.

## Inventory

### Components, state and operations

| component | source | state | operations |
|---|---|---|---|
| Tuner | `tuner.c`, `tuner.h` | `currentStateM`, two queues of requested states, address and parameters wanted, address of the last SETUP, stream id, `currentServerM`, `nextServerM`, PID set and its pending additions and deletions, lock flag | its thread (`Action`: connect, retune, status, PID update, keep-alive, watchdog, idle check), calls of VDR (`SetSource`, `SetPid`, `Close`, `SetPowerSaveMode`), RTCP reports of the poller (`ProcessApplicationData`) |
| RTSP client | `rtsp.c` | a curl handle with the URL and the stream URI set last; answer buffers | OPTIONS, SETUP, DESCRIBE, PLAY, TEARDOWN, `Reset`, `ValidateLatestResponse` |
| Server registry | `server.c` | servers, and for each server and delivery system a list of frontends with transponder and device | `Assign`, `Matches`, `Attach`, `Detach`, `Activate`, `Add`, `Update`, `Cleanup` |
| Device | `device.c` | `deviceIdM`, TS buffer, section filter handler, `tunerLocked` condition | `SetChannelDevice`, `SetChannelTuned`, `ProvidesChannel`, filter handles, `GetData`/`SkipData` |
| Discovery | `discover.c` | probe list, servers, timers | `Action`, `AddServer`, `Assign`/`Attach`/`Detach` under its mutex, `Destroy` |
| Multicast search | `msearch.c` | a socket | `Probe`, `Read` |
| Section filters | `sectionfilter.c` | slots with socket pairs, continuity counter, partly built section | `Open`, `Close`, `Write`, its thread |
| RTP, RTCP | `rtp.c`, `rtcp.c` | sequence number, error count | `Process`, `GetHeaderLength`, `GetApplicationOffset` |
| Poller | `poller.c` | an epoll set | `Register`, `Unregister`, `Action` |
| Sockets | `socket.c` | a descriptor | open, close, read |
| Statistics | `statistics.c` | byte counts per PID, the most active PIDs | `AddPidStatistic`, `GetPidStatistic` |
| Plugin, configuration, menus | `satip.c`, `config.c`, `setup.c` | settings | command line, setup menu, start and shutdown |
| Transponder parameters, helpers | `param.c`, `common.c` | none | text conversion |

### How they interact

* VDR's threads call the device, the device calls its tuner under the tuner's
  recursive mutex. The tuner thread takes the same mutex for each method of one
  iteration of `Action()`, and lets go of it in between.
* `SetChannelDevice` holds `SetChannelMtx`, asks discovery to assign a frontend,
  gives the tuner its source and waits at most one second on `tunerLocked`,
  which the tuner thread signals through `SetChannelTuned`.
* The tuner thread attaches its device to a frontend after a SETUP and detaches
  it when it disconnects. Both calls take the mutex of discovery.
* The poller thread hands RTP data to the device's buffer and RTCP reports to
  the tuner; the latter set `hasLockM` without the tuner's mutex.
* The server at the other end may refuse a request, fail to answer, end the
  session on its own, or keep one the tuner has forgotten.

### What is hard, and what should hold

| component | hard behaviour | correct when |
|---|---|---|
| Tuner | calls of VDR between any two methods of an iteration; requests in two queues; sessions that end on either side; failed steps | a stream is always addressed with its own server's data; the last request wins; an idle tuner holds no stream; no wanted PID is lost |
| RTSP client | each request names a URI but reaches the host of the last `CURLOPT_URL` | requests reach the session they mean |
| Registry, device | a frontend is assigned by one thread, marked later by another; timeouts in between | no frontend given away twice, every tuned device marked on the frontend it was given, no mark left behind |
| Discovery | servers removed while tuners point at them; shutdown | pointers in use stay valid; the thread ends |
| Section filters | PIDs shared by filters and receivers; sections split over packets | a PID stays open as long as a filter wants it; a section comes out as it went in |
| Receivers, poller, buffer | wrap of sequence numbers, edge-triggered events, buffer full or cleared | every jump counted, no stalled socket, packets whole, in order and once |
| Sockets | ports of two devices in one range; transports that change while the poller runs; shutdown | a pair of ports for everyone, sockets where the data go, no event for a deleted device |

`PROJECT.json` lists the hazards one by one, each at its line, with the
properties that would catch it.

## Plan

1. `SatipTuner`, `TunerLease`: the tuner and what it promises the servers.
   Done, with proofs.
2. `SatipFrontends`: frontends of many servers shared by many devices. Done, with
   proofs.
3. `SatipDiscover`: servers added, refreshed and removed. Done, with proofs.
4. `SatipSections`: how one filter rebuilds sections from TS packets. Done, with
   proofs.
5. `SatipReceive`: sockets, poller, RTP and RTCP, TS buffer, the buffer of the
   section filters. Done, with proofs.
6. `SatipPidUse`: PIDs, slots and handles shared by receivers and filters. Done,
   with proofs.
7. `SatipTransport`: ports, changes of transport, shutdown. Done, with proofs.

Every safety property the passing runs check is a theorem. What the plan has left
is breadth: the parts listed as not modelled below.

## Modules

| module | models |
|---|---|
| `SatipTuner` | one `cSatipTuner` with its RTSP session, its callers and its servers |
| `TunerLease` | abstract: at most one stream, of the server opened last |
| `MCSatipTuner` | sets of servers for TLC |
| `SatipTunerProofs` | type correctness and the safety invariants of `SatipTuner`, the refinement of `TunerLease` |
| `SatipFrontends` | registry, `SetChannelDevice`, and when the tuners attach and detach |
| `MCSatipFrontends` | devices, frontend lists and channels for TLC |
| `SatipFrontendsProofs` | type correctness of `SatipFrontends`, the booking of frontends |
| `SatipDiscover` | the discovery thread, the hosts that answer it, and the list of servers |
| `MCSatipDiscover` | hosts for TLC |
| `SatipDiscoverProofs` | type correctness and the safety invariants of `SatipDiscover` |
| `SatipSections` | one section filter: packets in, sections out |
| `SatipSectionsProofs` | type correctness and the safety invariants of `SatipSections` |
| `SatipReceive` | from the sockets of one tuner to VDR and to the section filters |
| `SatipReceiveProofs` | its types, the poller, reports, sequence numbers, the packet VDR holds |
| `SatipReceiveFlowProofs` | order and damage of packets in `SatipReceive` |
| `SatipPidUse` | the PIDs of one device, used by receivers and section filters |
| `MCSatipPidUse` | PIDs and filters for TLC |
| `SatipPidUseProofs` | type correctness and the safety invariants of `SatipPidUse` |
| `SatipTransport` | the sockets of all tuners: ports, transports, poller, shutdown |
| `MCSatipTransport` | port ranges and groups for TLC |
| `SatipTransportProofs` | type correctness and the safety invariants of `SatipTransport` |

### SatipTuner

Each variable is a field of `cSatipTuner` or stands for the other end of the
connection; the declaration names the field. The tuner thread's iteration is
cut where it releases the mutex: `pc` names the method `Action()` calls next,
so that calls of VDR and RTCP reports come between any two of them. Methods are
atomic, network round trips included, because the mutex is held over them. The
wait at the end of an iteration (tuner.c:202-203) is timing only. A timer may
or may not have expired whenever it is read.

`UpdateCurrentState` takes the next state from the internal, then the external
queue. One group of actions follows for each state of the switch: `Idle`;
`Release`, `RequestIdle`; `Set`, `Retune` or `Setup`, `ConnectFailed`,
`RequestTuned`, `ForcePids`; `Tuned`, `StatusRead`, `StatusNotRead`,
`TunedLock`, `TuningTimeout`; `Locked`, `KeepAlive`, `RequestSet`, `NoData`,
`IdleCheck`, `Receive`.

Stream ids, addresses and servers are identified with the server they belong
to, so a property can say that the three agree. `url` is needed because only
OPTIONS and `Receive` set the host curl connects to; SETUP, PLAY, DESCRIBE and
TEARDOWN only set the stream URI. A server answers a request that reaches its
live session; when `StrictHost` holds it refuses a URI that names another host.
It sends nothing before the first PLAY (`playing`), and after a PLAY that sets
PIDs only those (`played`); over a change of transponder it may or may not keep
them. `lost` records the wanted PIDs that a PLAY left out although they are not
pending any more. A 403 counts as a success, as in `ValidateLatestResponse`;
`forbade` records when a SETUP or a retuning got one. A session that a TEARDOWN has
missed is not followed up, as nothing in the plugin depends on it. Losing lock, silence
on a live session, a lost answer and a session dropped are *upsets*, at most
`MaxUpsets`.

Left out: `SetSource` without a server, which nothing in the repository calls;
the content of the CI parameters (only whether some are sent); signal values;
`SetSessionTimeout`; which timer expires when. `SetupTransport` is in
`SatipTransport`. Servers stay listed in discovery.

### SatipFrontends

`frontends[s][k]` is the list of server `s` for delivery system `k`, and an
entry has the two fields the registry goes by, transponder and device. A call
into the registry is one step, as it holds the mutex of discovery.
`SetChannelDevice` is `AssignServer` and `SetSource`, both under `SetChannelMtx`
(`zapping` is set in between). The wait that follows is no step: it lets go of the
mutex and ends after one second whatever the tuner has done (device.c:452), so
the next call of any device may come at any time. Which device VDR asks for which
channel is any. Of a tuner there remains what it does to the registry: `Setup`
takes over `nextServerM` and attaches, `Retune` does neither, `Disconnect` detaches.

Frontends do get lost or overbooked when an assignment comes at a bad moment;
`NoMarkStolen`, for one, is violated then (`frontends_reuse`). `calm` records that every
assignment so far came at a good one: all tuners settled, no other device on the
transponder, neither device nor transponder in another list of the server
(`GoodMoment`). It also ends when `RequestState` refuses the release of a change of
server while the tuner has a connect under way, and when a tuner starts over
between `AssignServer` and `SetSource`, so that it attaches once more to what it
leaves. Everything else may happen at any time - failed requests, 403 answers,
lost sessions, releases, changes of server, servers switched off - and
`NoOverbooking` and `TunedIsMarked` say that none of it does harm. Left out: source
filters, model strings, the advice of `ProvidesChannel`, the early end of the wait
(`SetChannelTuned`), and servers that disappear.

### SatipDiscover

`pc` follows `cSatipDiscover::Action`: look at the timer, send a round of
queries, clean up, take over the list of URLs, fetch one after the other, sleep.
The poller's thread adds URLs at any time, the user asks for scans, hosts start,
stop or answer with errors. `stale` says that the buffers still hold an answer
that was not a 200. An entry of `servers` has what `Compare` goes by: the host,
and which of its servers; part 0 is the default description of a server whose
own could not be read. `Left` is a list without the elements `Cleanup` deletes, or
without the parts of an answer that are listed already. Ages are counted per entry, as `lastSeenM` is. Not
modelled: servers from the command line, as the thread is not started with them,
and fetches so slow that they hold up a round.

A host that answers with errors for ever keeps spoiling the next answer, so
`Converges` asks that this ends.

### SatipSections

One `cSatipSectionFilter`, from the packets of its PID to the sections VDR reads.
The bytes of the stream are numbered, so a section is right when it is a run of
numbers from a section's start to its end; stuffing is 0, whose length is always
too large. A multiplexer (external) packs sections in every legal way: a packet
with a pointer holds the end of one section and the start of others, one without
continues a section. Packets get lost - on the network or in the input buffer -
or arrive twice, or announce a discontinuity. `Process` is one packet up to the
copying, `CopyDump` the copying of a part, `Extract` one round of its loop.
`secLenM` lives only within a round and is left out; when bytes inside a section
are taken for a header, the length read is any of `Misread`. The ring buffer
counts sections instead of bytes.

### SatipReceive

A TS packet is `TsSize` numbered bytes, of which the first is the sync byte, so
that order, wholeness and repetition of packets can be stated. The server
(external) sends RTP or, without a header, bare TS packets; the network loses,
delays, repeats and damages datagrams. `ready` holds the events of an
edge-triggered epoll set. The poller's thread is `Wait`, `NextEvent`, `ReadMulti`,
`BatchDone`, `ProcessDatagram`, `WriteData`, `ReadReport`: one step for each lock
it takes or buffer it shares. VDR's thread opens, closes and reads the device,
`SetPowerSaveMode` clears the TS buffer of a device VDR has no use for, without
forgetting what was delivered of it, and
`FilterPacket` is the thread of the section filters.

VDR's `cRingBufferLinear` is external: a sequence with a capacity, of which the
writer takes the end and the reader the start. That `Get` may return only the
part before the wrap, and `WriteData` may take a packet in two parts then, is
abstracted. `checkTsBufferM` only spares the reader a wait and is left out, as are
the report of `packetErrorsM` and `Close` of the receivers. No datagram is empty
and no read fails.

`JumpsCounted` is as weak as the code makes it. Numbers are taken modulo 0xFFFF,
not 0x10000, with a special case that forgets the last number when 0xFFFF
follows: jumps from the two highest numbers may be missed, one may be counted
twice. `DamageContained` allows for a cut datagram of bare TS packets: it shifts
what follows in the buffer, so that a full buffer, whose size is made to hold whole
packets, cuts another one.

### SatipPidUse

VDR's side is external to the plugin: it counts the receivers of a PID and calls
`SetPid` when the first comes or the last goes (`AddPid`, `DelPid`), and it has the
handles it got from `OpenFilter`. Both call the tuner and the table of filters
several times, each time under another mutex, so `DelPid`/`GiveUp`,
`OpenFilter`/`Opened` and `CloseFilter`/`Removed`/`Closed` are steps of their own.
The tuner is only its set of wanted PIDs; what becomes of it is in `SatipTuner`.

The set is not counted, so what a step undoes may be needed by somebody else. The
properties say when: `cut` holds the PIDs that `CloseFilter` took from other users
(device.c:495), and those for which a filter was opened after `SetPid` had looked
for one (device.c:471); `late` holds those whose receiver came and went between the
halves of `CloseFilter` and left the PID open. Nothing else goes wrong.

### SatipTransport

Each tuner has an RTP and an RTCP socket. `Build` is the part of the constructor
that finds a pair of ports, with the arithmetic of `ParsePortRange` and of its own
loop, unsigned and signed, on words of `Word` values. An answer to SETUP names a
transport; `SetupTransport` then goes through both sockets in three steps,
`Unregister`, `Open`, `Register`, between which the poller's thread may handle an
event it has already fetched. `Stop` to `Destroy` is the end of the program; the
poller may be cancelled between two events or in the middle of one.

`ListensOtherwise` says that the sockets follow the transport, and names what the
code does not do: register a socket again after a session over TCP, and join a
new group on the old port.

## Runs

| run | result | shows |
|---|---|---|
| `tuner_session` | 369,000 states | two calls, a PID and two failures, 403 answers among them, between two servers, one with all quirks: stream, address, server, marks, queues and PID lists stay consistent, the tuner implements `TunerLease`, does in the end what the last call asked, and a wanted PID is delivered, unless it was in a forced update that failed or in a PLAY that got a 403 |
| `frontends_booking` | 1.3 million states | two devices, four lists on two servers, an upset: as long as assignments come at good moments no list is overbooked and every tuned device is marked once |
| `discover_servers` | 1.7 million states | two hosts that come, go and fail, lost rounds, scans: a server survives a lost round, none is listed twice, and in the end the list is right |
| `sections_rebuilt` | 1.1 million states | sections split over packets come out whole and in order, whatever is lost or repeated, and none that arrived unbroken is missed |
| `receive_stream` | 1.3 million states | loss, delay, repetition, damage, a new session, reports, closing, power saving and opening: no socket stalls, the newest report arrives, packets reach VDR in order, whole and once, and stay while VDR uses them; a jump of the sequence numbers is counted once or twice, from the two highest numbers perhaps not |
| `pid_use` | 252,000 states | receivers and filters in threads of their own: handles and slots in step, what is needed is asked for and nothing else, but for the races the properties name |
| `transport_sockets` | 2.2 million states | ports from a range, transports that change, shutdown: everyone served by a range of three ports or more with enough free pairs, sockets where the data go, no data left waiting, no event for a deleted device |
| `tuner_options` | violated | a SETUP repeated to the same server goes out without the options of the server |
| `frontends_reuse` | violated | two devices are assigned one frontend, the second before the first one's SETUP is through, and share one mark |
| `receive_multicast` | violated | with multicast no RTCP report reaches the tuner |
| `transport_changes` | violated | a unicast session after one over TCP finds its sockets unregistered |
| `transport_two_ports` | violated | the documented minimum of two ports per device leaves one device without sockets |

The violated runs compare the code with a sentence of its documentation or
comments; `PROJECT.json` quotes it under `findings`.

### What the properties except

A property that holds names what it does not say. Some of that is behaviour of the
code a maintainer should know of. The models contain each of these:

* A PID is lost for good (`lost`, tuner.c:141). A session that plays is retuned on its
  server, which gives up its PID filter with the old transponder; the PLAY with the
  full list that follows fails. Its result is ignored, the PID is not in `addPidsM`
  any more, and the session goes on sending, so no watchdog notices.
* A frontend is given away twice (`calm`, device.c:449-452). The second device is
  assigned it after the first one's wait of a second, and before the first one's
  SETUP is through. With one frontend and two transponders the list is overbooked.
* A mark stays behind (tuner.c:238). A device tuned to transponder 1 zaps to 2 on the
  same server; `Assign` puts its frontend on 2, the tuner retunes without taking over
  `nextServerM`, and the release detaches with transponder 1, which no frontend is
  on: all devices are idle, and the frontend stays taken.
* A range of ports given the wrong way round passes for a large one (satip.c:398),
  and no device has sockets (tuner.c:64).
* With the pairs of the range in use by others the loop of the constructor goes past
  its end, in steps of two but for as many turns as the range has ports (tuner.c:64,
  tuner.c:73), so a device may get ports outside of the range.

### Bounds

* Two servers and two requests change the server while a stream of the first is
  held, or open the same one again; two upsets let a second step fail while the
  first failure is being repaired. The queues are bounded by these. One PID, which
  may come and go at any time, starts the sessions that would stay silent without,
  and a full list is told from a partial one by the quirk of server `b`; server `a`
  has none. Fair cycles are searched for, which keeps the bounds small; the theorems
  say that the safety properties hold for any bounds.
* `frontends_booking` has two servers, one with a DVB-T and a DVB-T2 frontend, one
  with two for DVB-T2. A DVB-T channel is looked for in both lists, so devices move
  between lists and servers, and two devices compete for the single frontends. Four
  zaps and upsets let a device come back to a frontend another one has had. The
  violated run needs one server with one frontend and two zaps.
* `receive_stream` is as small as its steps allow: two datagrams of two packets
  of two bytes, buffers of three packets, so that a datagram finds no room, and
  reads of two datagrams at a time, so that a full read is followed by an empty
  one. Four sequence numbers show the wrap. Two troubles of
  `MaxTrouble` together - a loss and a reopening, a cut datagram and a full
  buffer - are what the properties are about.
* `pid_use` has two PIDs, one of them in VDR's slots for video and audio, two
  descriptors and three slots, so that slots run out while filters without a
  socket fill them; nothing else is bounded. Three receivers reach the count at
  which SetPid is not called.
* `transport_sockets` has two devices for a range of six ports, one that is
  the wrong way round, and none; another program may hold the first port of the
  range and one of the kernel's. Of three groups two are on one port, and alike
  (symmetry). Two setups are a change of transport, `Word` is 16.
* Three sections show a packet that ends one section, holds a second and starts
  a third; the lengths reach from the header to the longest section, and payloads
  are shorter than a section, so that sections span packets. The counter has
  three values, so two packets in a row are the longest loss it can tell; as with
  the real 16, losing a full turn goes unnoticed and is left out.
* Two hosts, one listed as two servers, show what the answer of one host does to
  the entry of another. The unit of time is half an interval: a server may be
  seen up to 124 s ago, four whole units.
* `MaxRequests`, `MaxUpsets`, `MaxZaps`, `MaxLost`, `MaxChanges`, `MaxScans`,
  `MaxDatagrams`, `MaxTrouble`, `MaxSetups`, `MaxUsed` only count; nothing else is
  cut off. Deadlock is checked for the tuner and for `SatipPidUse`. The other
  modules stop when the calls they are allowed are used up.

### Fairness

The tuner thread runs (`WF_vars(Action)`): it is a loop that never blocks for
ever, as curl requests have timeouts. The steps that wait for a timer - status
report, tuning timeout, PID update, watchdog - are strongly fair: they may find
their timer running any number of times, but not always, since time passes.
`StatusRead /\ hasLock'` says more: a server asked again and again reports a
lock at last, without which no tuner can settle. Nothing is assumed of the
callers.

The discovery thread and the poller's run (`WF_vars(Action)`, `WF_vars(SetUrl)`),
and time passes although the thread wakes every half second (`SF_vars(Tick)`).
`Drained` needs the poller's thread only (`WF_vars(Poll)` of `SatipReceive`).

`Settles` has two exceptions. A retuning that got a 403 is taken for done, and the
tuner locks on the old transponder. And on a server with quirk 0x80 a tuner of which
no PID is wanted never sends a PLAY, so the session stays silent, is torn down and set
up again, for ever. It needs `StrictHost`, too. Without it, a `SetSource` that comes after
`UpdateCurrentState` has picked the tsSet that follows a `tsIdle` still queued
finds its release refused (tuner.c:585, tuner.c:777), and the retuning goes to the old server,
which accepts it: the tuner locks there and stays.

## Proofs

All theorems hold for all servers, devices, quirks, lists, sizes and bounds. They
rest on the named assumptions on the constants; where one needs more than that,
it says so in an `ASSUME` or in front of `Spec`, and the reason is given here.

* `SatipTunerProofs!TypeCorrect`: one lemma per conjunct of `TypeOK`, one step
  per action.
* `Addressable`, `ConnectIsInformed`: `StreamIsAddressable` and
  `ConnectKnowsServer` are not inductive by themselves. `AddressInv` adds
  `Unaddressed` (before the first `SetSource` there is no session, and neither
  state nor queues hold anything that leads to Connect) and `NextTaken` (once
  `nextServerM` has been used up, the current server is the one wanted).
* `TunerImplementsLease` maps `streamAddrM`, `currentServerM` and `streamIdM` to
  the abstract tuner; every step is a step or a stutter under `AddressInv`.
* `IdleMeansNoStream`: `IdleInv` says that, while a stream is held, `tsIdle` is
  not the last request queued, except between the end of Connect and the
  `tsTuned` requested right after it.
* `PidListsConsistent`, `NoPidLost`: inductive with the types. What `NoPidLost`
  excepts is `lost`: PIDs of a forced update that failed, and of a PLAY that got a
  403, while the session goes on.
* `AttachedToCurrent`: `AttachInv` adds that without a stream nothing is
  attached, until the Disconnect after a failed Connect. It ends with a 403 to a SETUP
  (`forbade`), which lets the next SETUP attach to another server without a detach.
* `SatipFrontendsProofs!TypeCorrect`: `Inv` adds `Aimed` (a
  tuner that is not idle has been given a server) and `Held` (a tuner with a
  stream has a current server). Lemmas on lists say that assign, attach and
  detach only ever touch one frontend that exists: the minimum or maximum they
  take is that of a non-empty set of indices.
* `SatipPidUseProofs`: `TypeCorrect`, `HandlesCorrect`, `NeededCorrect`,
  `AskedCorrect`, all from one `Inv`, for any PIDs, descriptors, slots and
  receivers. `TableOK` adds to the handles the filter a call is about, which is in
  the table but not, or no longer, among the handles. `LeavingOK` says what `SetPid`
  has read is still so, unless the PID is in `cut`. `Needed` and `Asked` are the
  properties without their excuse for a call under way.
* `SatipTransportProofs`: `Inv` adds to the properties where `SetupTransport` is
  with a socket. `WorkOK` says that a socket is registered unless it is being opened
  or was unregistered for TCP, `PlacedOK` that a socket `SetupTransport` has passed is
  where the data go; one not reached yet may be on the right port in another group
  only if the tuner counts as strayed. `NothingWaits` is inductive with these: between
  `Unregister` and `Register` nothing is registered, and `Open` empties what waits.
  `AllServed` rests on the loop of the constructor, which takes the first pair of
  the range that is free: the devices built so far use as many pairs, so one of those
  others leave free is left, and the loop reaches it before the end of the range. It needs `PortsFit`, ports below half of `Word`, as all 16-bit ports are
  in an `int`; beyond that the signed counter of the loop would not turn at all
  (tuner.c:64).
* `SatipReceiveProofs`: one `Inv`. `WakeOK` says of data at a socket that an event
  is reported, fetched, or being handled by a read that will be repeated, and
  `NoStall` is what that means while the poller waits. `ReportsOK` says that the last
  report in the queue of the RTCP socket, if there is one, is the newest, and the
  tuner has it otherwise. `ReportIsLatest` needs `~Multicast`: with multicast no report
  is read at all, which is the finding of `receive_multicast`. `CountOK` relates
  `sequenceNumber` and the errors to the number seen last; an error that the highest
  number will bring is counted in advance. `LentOK` says that the packet VDR holds is
  at the start of the buffer and that exactly it will be deleted.
* `SatipReceiveFlowProofs!PacketsInOrder`: `OrderOK` follows the bytes on their way.
  The payload being written, the datagrams of the batch and those at the socket make
  one `Flow`; each of its parts is in order and precedes those behind it (`Steady`),
  both ring buffers precede the flow (`Fits`), and no packet handed out can come
  again (`Passed`). Steps only move bytes from the front of the flow to a buffer, cut
  them or throw them away, and a few lemmas on flows cover all actions.
* `SatipReceiveFlowProofs!PacketsAreHandedOn` and `!DamageIsContained`: `CountedOK`
  counts the places where a packet breaks off (`Breaks`) in what `GetData` will find,
  the payloads in the flow that break off, which they do at their end only, and the
  packets that came out damaged. Together these are at most the upsets and the splits:
  a cut datagram is an upset, a payload takes its break along into the buffer or adds
  a split, and a packet of the right length that is not as it was sent has a break
  within, which leaves the buffer with it. `UncutOK` says that there is nothing to
  count unless the network cuts: payloads and contents of the buffers are whole
  packets, whose lengths are multiples of `TsSize`, as is the capacity (device.c:33),
  so a full buffer never takes part of a packet, no byte is skipped, and each packet
  of `kept` is all there until it is delivered; closing the device empties `kept` of
  what the buffer holds, and only then is the buffer cleared. The arithmetic of lengths and
  remainders is in lemmas of their own (`DivModIs`, `ModAdd`, `PutBreaks`, `EntireIs`).
* `SatipDiscoverProofs`: `EntriesOK` says that an entry has a part its host
  has, or the default, and that host and part are a key. `NoneTwice` follows without
  hypotheses. `SeenServersStay` needs `AgesOK`, which bounds the age of an entry by
  the rounds its host has missed and the place the thread is at, and
  `Timeout >= 2 * Interval`, as discover.h:54-55 has it (124 s and 60 s). Most of the
  work is in `Left`: an order-preserving selection loses and doubles nothing.
* `SatipSectionsProofs`: `OnlyGenuine`, `NoneMissed`, `SectionsInOrder` and the
  types, from one `Inv`, for any sections, packings and losses. `Legal` is what is
  known of a packet: bytes in a row, stuffing only behind the end of a section, a
  pointer or a section it lies within. `CounterOK` says that the counters tell a loss
  from none, and that the same packet is never in sequence, which needs more than one
  counter value. `Fed` is the heart: once a start has been seen, the buffer holds the
  bytes from the start of a section to the last byte copied, the position is at a
  start, and there is room for the rest of the last section. The room needs
  `FeedSize` to be the largest section and a payload (sectionfilter.h:23): with a
  smaller buffer the end of a long section that starts late in a packet is cut off. `Waiting` says that
  no section that is complete has been left. `OrderOK` keeps what has come out behind
  `Cursor`; `MissOK` says of each section a byte of which has been copied that it is
  out, need not be, or is still in the buffer, and that those in the lost packets are
  broken.
* `NeverOverbooked`, `TunedOnOneFrontend`: `BookingOK` says what holds while `calm`
  does. No device has two marks in a list (`MarksOK`), no two devices are after one
  transponder (`Apart`), and each device that uses a frontend or is about to is in
  place (`InPlace`): in the lists of its server the one it was given is the only one
  that has its transponder, and the device has no frontend of that list on another.
  A tuned device is marked there (`Settled`), and so is one whose stream will be
  retuned and not set up again (`StreamOK`), as `Retune` does not attach. Nothing but
  the assumptions on the constants is needed; what a bad moment would break is in
  `GoodMoment`, and `frontends_reuse` shows some of it. `NeverOverbooked` then counts: devices given the same list are after
  different transponders, each of which one of its frontends stands on.

Model-checked only: `Settles`, `PidServed`, `Converges` and `Drained`, liveness
being out of the prover's reach.
The properties of the runs that expect a violation have no proof, of course.

## Not modelled

* Text: RTSP headers and bodies, transponder parameters (`param.c`), SSDP
  packets, model strings, menus (`setup.c`), the other arguments and SVDRP
  commands of the plugin, helpers (`common.c`). They parse and format, and keep
  no state; nearly two thousand lines of the implementation are of this kind.
* Statistics: sums of bytes and a sorted list, for display only.
* Settings (`config.c`) are constants of the models.
* Time: which timer expires when. A timer may or may not have expired whenever
  it is read; `SatipDiscover` alone counts time, in half intervals.
* Servers that disappear while tuners and devices hold pointers to them, and the
  menu walking the list of servers without the mutex: what a freed object reads
  is not a state of the program.
* The contents of the CI parameters: the models know only whether some are sent.
* The advice by which VDR picks a device (`ProvidesChannel`): the models let it
  pick any.
* A TEARDOWN sent after `curl_global_cleanup` (satip.c:254), handles VDR never
  opened (device.c:489).
* Failing system calls on a socket that is open: the plugin logs them and goes on.

`PROJECT.json` gives the reason for every component and every hazard no property
covers.
