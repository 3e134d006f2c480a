----------------------------- MODULE SatipReceive -----------------------------
(***************************************************************************)
(* The way of the stream from the network to VDR: the sockets of RTP and   *)
(* RTCP, the poller's thread that drains them when an edge-triggered event *)
(* says so (src/poller.c, src/rtp.c, src/rtcp.c, src/socket.c), the TS     *)
(* buffer and the input buffer of the section filters it fills             *)
(* (cSatipDevice::WriteData), and the threads that empty these.            *)
(*                                                                         *)
(* A TS packet is TsSize bytes, byte i of packet n being <<n, i>>; the     *)
(* first one is the sync byte, and no other byte looks like it.  The       *)
(* buffers are VDR's cRingBufferLinear, with one writer and one reader.    *)
(***************************************************************************)
EXTENDS Integers, FiniteSets, SequencesExt

CONSTANTS
  NumSeqs,       \* 0x10000: RTP sequence numbers
  ReadCount,     \* eRtpPacketReadCount: datagrams read at a time
  SockSize,      \* datagrams the kernel keeps for a socket
  TsSize,        \* TS_SIZE
  BufSize,       \* SATIP_BUFFER_SIZE
  Loads,         \* TS packets in a datagram
  Multicast,     \* isMulticastM
  None,
  MaxDatagrams,  \* bound: datagrams the server sends
  MaxTrouble     \* bound: calls of OpenDvr, RTCP datagrams, and upsets: losses,
                 \* delays, repetitions, restarts, damages

ASSUME ReceiveAssumption ==
  /\ {NumSeqs, ReadCount, SockSize, TsSize} \subseteq Nat \ {0} /\ NumSeqs > 2
  /\ {BufSize, MaxDatagrams, MaxTrouble} \subseteq Nat
  /\ Loads \subseteq Nat \ {0} /\ Multicast \in BOOLEAN

VARIABLES
  \* the server and the network
  bare,      \* does the server send TS packets without an RTP header?
  seq,       \* sequence number of the next datagram
  sent,      \* datagrams sent so far
  packets,   \* TS packets sent so far
  late,      \* a datagram held up on its way
  reports,   \* RTCP datagrams sent so far
  \* the kernel
  sock,      \* datagrams waiting at the RTP socket
  ctl,       \* datagrams waiting at the RTCP socket
  ready,     \* sockets with an event not yet fetched by epoll_wait
  \* the poller's thread
  pc,        \* wait, next (event), read, process, write, reports
  events,    \* sockets whose events are still to be handled
  batch,     \* datagrams of the last ReadMulti still to be processed
  full,      \* did the last ReadMulti return eRtpPacketReadCount datagrams?
  writing,   \* payload of the datagram at hand
  seenOpen,  \* dvrIsOpen, as WriteData found it
  sequenceNumber, \* sequenceNumberM
  packetErrors,   \* packetErrorsM
  report,    \* the report the tuner was given last, 0 at first
  \* the device
  dvrIsOpen,
  cleared,   \* OpenDvr has emptied the buffer, but not yet set dvrIsOpen
  bytesDelivered,
  tsBuffer,
  secBuffer, \* ringBufferM of the section filter handler
  lent,      \* the packet VDR was given last and may still use
  \* history
  out,       \* packets VDR was given
  filtered,  \* the packet the section filters were given last
  kept,      \* TS packets that found room in the TS buffer, without those
             \* the device was closed with
  splits,    \* times the TS buffer took a part of a packet only
  prev,      \* sequence number seen last, None at first
  gaps,      \* jumps in the sequence numbers seen
  blind,     \* those from one of the two highest numbers
  latest,    \* report sent last
  faults,    \* what the network did to order and contents of the stream
  opens, upsets

network == <<bare, seq, sent, packets, late, reports, latest, faults>>
kernel  == <<sock, ctl, ready>>
poller  == <<pc, events, batch, full, writing, seenOpen>>
rtp     == <<sequenceNumber, packetErrors, prev, gaps, blind>>
dvr     == <<dvrIsOpen, cleared, bytesDelivered, tsBuffer, lent, out, kept, splits>>
section == <<secBuffer, filtered>>
vars == <<network, kernel, poller, rtp, report, dvr, section, opens, upsets>>

Init ==
  /\ bare \in BOOLEAN
  /\ seq \in (IF bare THEN {0} ELSE 0 .. NumSeqs - 1)
  /\ sent = 0 /\ packets = 0 /\ late = None
  /\ reports = 0 /\ latest = 0 /\ faults = {}
  /\ sock = <<>> /\ ctl = <<>> /\ ready = {}
  /\ pc = "wait" /\ events = {} /\ batch = <<>> /\ full = FALSE
  /\ writing = <<>> /\ seenOpen = FALSE
  /\ sequenceNumber = -1 /\ packetErrors = 0 /\ prev = None
  /\ gaps = 0 /\ blind = 0
  /\ report = 0
  /\ dvrIsOpen = FALSE /\ cleared = FALSE /\ bytesDelivered = 0
  /\ tsBuffer = <<>> /\ secBuffer = <<>> /\ lent = <<>>
  /\ out = <<>> /\ filtered = 0 /\ kept = {} /\ splits = 0
  /\ opens = 0 /\ upsets = 0

-----------------------------------------------------------------------------
(* The server, the network and the kernel. *)

\* The bytes of k TS packets that follow packet n.
Bytes(n, k) ==
  [i \in 1 .. k * TsSize |->
     <<n + 1 + ((i - 1) \div TsSize), 1 + ((i - 1) % TsSize)>>]

\* Either an RTP packet with its number, or the bare TS packets.
Datagram(bytes) == [seq |-> IF bare THEN None ELSE seq, bytes |-> bytes]

\* With no room left a datagram is dropped, and causes no event.
Arrive(ds) ==
  LET room  == SockSize - Len(sock)
      taken == SubSeq(ds, 1, IF Len(ds) < room THEN Len(ds) ELSE room)
  IN  /\ sock' = sock \o taken
      /\ ready' = IF taken = <<>> THEN ready ELSE ready \cup {"rtp"}

Room == opens + reports + upsets < MaxTrouble

Upset == Room /\ upsets' = upsets + 1

\* A datagram is delivered, lost, held up, delivered twice, or damaged: the
\* RTP header is refused, or bare TS packets end early.
Send ==
  /\ sent < MaxDatagrams /\ sent' = sent + 1
  /\ \E k \in Loads :
       LET bytes == Bytes(packets, k)
           d == Datagram(bytes)
       IN  /\ packets' = packets + k
           /\ seq' = IF bare THEN seq ELSE (seq + 1) % NumSeqs
           /\ \/ Arrive(<<d>>) /\ UNCHANGED <<late, faults, upsets>>
              \/ Upset /\ UNCHANGED <<sock, ready, late, faults>>
              \/ /\ Upset /\ late = None /\ late' = d
                 /\ faults' = faults \cup {"shuffled"} /\ UNCHANGED <<sock, ready>>
              \/ /\ Upset /\ Arrive(<<d, d>>)
                 /\ faults' = faults \cup {"shuffled"} /\ UNCHANGED late
              \/ /\ Upset /\ ~bare /\ Arrive(<<[d EXCEPT !.bytes = <<>>]>>)
                 /\ UNCHANGED <<late, faults>>
              \/ /\ Upset /\ bare
                 /\ Arrive(<<[d EXCEPT !.bytes = Front(bytes)]>>)
                 /\ faults' = faults \cup {"cut"} /\ UNCHANGED late
  /\ UNCHANGED <<bare, reports, latest, ctl, poller, rtp, report, dvr, section>>
  /\ UNCHANGED opens

LateArrival ==
  /\ late # None /\ Arrive(<<late>>) /\ late' = None
  /\ UNCHANGED <<bare, seq, sent, packets, reports, latest, faults, ctl, poller, rtp>>
  /\ UNCHANGED <<report, dvr, section, opens, upsets>>

\* A new session starts at a sequence number of its own.
Restart ==
  /\ Upset /\ ~bare /\ seq' \in 0 .. NumSeqs - 1
  /\ UNCHANGED <<bare, sent, packets, late, reports, latest, faults, kernel, poller>>
  /\ UNCHANGED <<rtp, report, dvr, section, opens>>

\* An RTCP datagram is a list of packets: 0 is of a type or name that does not
\* matter, n > 0 is a report.  At a port of a multicast group datagrams of
\* other groups arrive as well.
SendReport ==
  /\ Room /\ reports' = reports + 1
  /\ \E parts \in {<<0>>, <<reports'>>, <<0, reports'>>},
        ours \in (IF Multicast THEN BOOLEAN ELSE {TRUE}) :
       /\ ctl' = Append(ctl, [parts |-> parts, ours |-> ours])
       /\ latest' = IF reports' \in ToSet(parts) /\ ours
                    THEN reports' ELSE latest
  /\ ready' = ready \cup {"rtcp"}
  /\ UNCHANGED <<bare, seq, sent, packets, late, faults, sock, poller, rtp, report>>
  /\ UNCHANGED <<dvr, section, opens, upsets>>

-----------------------------------------------------------------------------
(* The linear ring buffer of VDR, as the plugin uses it. *)

\* The size the device asks for holds whole TS packets only.
Capacity == BufSize - (BufSize % TsSize)

\* Faulty: without regard to the room.
PutAll(ring, bytes) == ring \o bytes

\* As much as there is room for.
Put(ring, bytes) ==
  LET room == Capacity - Len(ring)
  IN  ring \o SubSeq(bytes, 1, IF Len(bytes) < room THEN Len(bytes) ELSE room)

Del(ring, n) == SubSeq(ring, n + 1, Len(ring))

\* Get returns nothing unless there is a TS packet's worth.
Gets(ring) == Len(ring) >= TsSize

\* Faulty: packets are not aligned again.
AnyByte(byte) == byte[2] > 0

Sync(byte) == byte[2] = 1

\* What is left when the bytes before the next sync byte are skipped.
SkipToSync(ring) ==
  LET syncs == {i \in 2 .. Len(ring) : Sync(ring[i])}
  IN  IF syncs = {} THEN <<>>
      ELSE SubSeq(ring, CHOOSE i \in syncs : \A j \in syncs : i =< j, Len(ring))

-----------------------------------------------------------------------------
(* The poller's thread. *)

\* epoll_wait(): edge-triggered, an event is reported once.
Wait ==
  /\ pc = "wait" /\ ready # {} /\ pc' = "next"
  /\ events' = ready /\ ready' = {}
  /\ UNCHANGED <<network, sock, ctl, batch, full, writing, seenOpen, rtp>>
  /\ UNCHANGED <<report, dvr, section, opens, upsets>>

\* Process() of one receiver after the other.
NextEvent ==
  /\ pc = "next"
  /\ \/ events = {} /\ pc' = "wait" /\ UNCHANGED events
     \/ /\ "rtp" \in events /\ pc' = "read" /\ events' = events \ {"rtp"}
     \/ /\ "rtcp" \in events /\ pc' = "reports" /\ events' = events \ {"rtcp"}
  /\ UNCHANGED <<network, kernel, batch, full, writing, seenOpen, rtp>>
  /\ UNCHANGED <<report, dvr, section, opens, upsets>>

\* ReadMulti()
ReadMulti ==
  /\ pc = "read" /\ pc' = "process"
  /\ LET n == IF Len(sock) < ReadCount THEN Len(sock) ELSE ReadCount
     IN  /\ batch' = SubSeq(sock, 1, n)
         /\ sock' = SubSeq(sock, n + 1, Len(sock))
         /\ full' = (n >= ReadCount)
  /\ UNCHANGED <<network, ctl, ready, events, writing, seenOpen, rtp>>
  /\ UNCHANGED <<report, dvr, section, opens, upsets>>

\* Faulty: the socket is read only once.
ReadOnce == batch = <<>> /\ pc' = "next"

\* Datagrams are read until fewer come than were asked for.
ReadAgain == batch = <<>> /\ pc' = IF full THEN "read" ELSE "next"

BatchDone ==
  /\ pc = "process" /\ ReadAgain
  /\ UNCHANGED <<network, kernel, events, batch, full, writing, seenOpen, rtp>>
  /\ UNCHANGED <<report, dvr, section, opens, upsets>>

\* Faulty: without the case of the highest number.
CountPlain(s) ==
  /\ packetErrors' = packetErrors + (IF /\ sequenceNumber >= 0
                                        /\ (sequenceNumber + 1) % (NumSeqs - 1) # s
                                     THEN 1 ELSE 0)
  /\ sequenceNumber' = s

\* The sequence numbers, as GetHeaderLength() counts them.
Count(s) ==
  LET expected == (sequenceNumber + 1) % (NumSeqs - 1)
  IN  IF expected = 0 /\ s = NumSeqs - 1
      THEN sequenceNumber' = -1 /\ UNCHANGED packetErrors
      ELSE /\ sequenceNumber' = s
           /\ packetErrors' = IF sequenceNumber >= 0 /\ expected # s
                              THEN packetErrors + 1 ELSE packetErrors

\* GetHeaderLength(), and the test of dvrIsOpen in WriteData() if there is a
\* payload.
ProcessDatagram ==
  /\ pc = "process" /\ batch # <<>> /\ batch' = Tail(batch)
  /\ LET d == Head(batch)
     IN  /\ IF d.seq = None THEN UNCHANGED rtp
            ELSE /\ Count(d.seq) /\ prev' = d.seq
                 /\ IF prev # None /\ d.seq # (prev + 1) % NumSeqs
                    THEN /\ gaps' = gaps + 1
                         /\ blind' = IF prev >= NumSeqs - 2 THEN blind + 1 ELSE blind
                    ELSE UNCHANGED <<gaps, blind>>
         /\ writing' = d.bytes
         /\ IF d.bytes = <<>> THEN UNCHANGED <<pc, seenOpen>>
            ELSE pc' = "write" /\ seenOpen' = dvrIsOpen
  /\ UNCHANGED <<network, kernel, events, full, report, dvr, section>>
  /\ UNCHANGED <<opens, upsets>>

\* From OpenDvr() on; what comes to the buffer before, it throws away.
Opened == dvrIsOpen \/ cleared

\* The rest of WriteData(), and of ProcessVideoData().
WriteData ==
  /\ pc = "write" /\ pc' = "process" /\ writing' = <<>>
  /\ IF seenOpen
     THEN LET ring == Put(tsBuffer, writing)
          IN  /\ tsBuffer' = ring
              /\ kept' = IF Opened
                         THEN kept \cup {ring[i][1] : i \in Len(tsBuffer) + 1 .. Len(ring)}
                         ELSE kept
              /\ splits' = IF /\ Len(ring) - Len(tsBuffer) < Len(writing)
                               /\ (Len(ring) - Len(tsBuffer)) % TsSize # 0
                            THEN splits + 1 ELSE splits
     ELSE UNCHANGED <<tsBuffer, kept, splits>>
  /\ secBuffer' = Put(secBuffer, writing)
  /\ UNCHANGED <<network, kernel, events, batch, full, seenOpen, rtp, report>>
  /\ UNCHANGED <<dvrIsOpen, cleared, bytesDelivered, lent, out>>
  /\ UNCHANGED <<filtered, opens, upsets>>

\* Open() sets IP_PKTINFO to the value of reuseP, which no receiver asks for.
ReuseP == FALSE

\* Read() skips what was sent to another group, or does not say where to.
Readable == {i \in DOMAIN ctl : Multicast => ReuseP /\ ctl[i].ours}

\* GetApplicationOffset(): the first application packet with a report.
ApplicationData(parts) ==
  LET found == {i \in DOMAIN parts : parts[i] > 0}
  IN  IF found = {} THEN 0
      ELSE parts[CHOOSE i \in found : \A j \in found : i =< j]

\* Faulty: one report is read for an event.
ReportOnce == pc' = "next"

ReportAgain == UNCHANGED pc

\* cSatipRtcp::Process(): as long as Read() finds something.
ReadReport ==
  /\ pc = "reports"
  /\ IF Readable = {}
     THEN ctl' = <<>> /\ pc' = "next" /\ UNCHANGED report
     ELSE LET i == CHOOSE i \in Readable : \A j \in Readable : i =< j
              data == ApplicationData(ctl[i].parts)
          IN  /\ ctl' = SubSeq(ctl, i + 1, Len(ctl))
              /\ report' = IF data > 0 THEN data ELSE report
              /\ ReportAgain
  /\ UNCHANGED <<network, sock, ready, events, batch, full, writing, seenOpen>>
  /\ UNCHANGED <<rtp, dvr, section, opens, upsets>>

Poll == Wait \/ NextEvent \/ ReadMulti \/ BatchDone \/ ProcessDatagram
        \/ WriteData \/ ReadReport

-----------------------------------------------------------------------------
(* The thread of VDR's device, which opens the device, gets packets from it *)
(* and closes it; the plugin's Shutdown() closes it as well.                *)

\* Faulty: what was delivered of the old contents is deleted from the new.
KeepDelivered == UNCHANGED bytesDelivered

ResetDelivered == bytesDelivered' = 0

\* OpenDvr() up to the opening of the tuner.
ClearBuffer ==
  /\ ~dvrIsOpen /\ ~cleared /\ Room
  /\ cleared' = TRUE /\ opens' = opens + 1 /\ lent' = <<>>
  /\ ResetDelivered /\ tsBuffer' = <<>>
  /\ UNCHANGED <<network, kernel, poller, rtp, report, dvrIsOpen, out, kept>>
  /\ UNCHANGED <<splits, section, upsets>>

OpenDvr ==
  /\ cleared /\ cleared' = FALSE /\ dvrIsOpen' = TRUE
  /\ UNCHANGED <<network, kernel, poller, rtp, report, bytesDelivered>>
  /\ UNCHANGED <<tsBuffer, lent, out, kept, splits, section, opens, upsets>>

CloseDvr ==
  /\ dvrIsOpen /\ dvrIsOpen' = FALSE
  /\ kept' = kept \ {byte[1] : byte \in ToSet(tsBuffer)}
  /\ UNCHANGED <<network, kernel, poller, rtp, report, cleared, bytesDelivered>>
  /\ UNCHANGED <<tsBuffer, lent, out, splits, section, opens, upsets>>

\* SetPowerSaveMode(): VDR has no use for the device.  What was delivered of
\* the old contents is not forgotten.
SetPowerSaveMode ==
  /\ ~Opened /\ tsBuffer' = <<>> /\ lent' = <<>>
  /\ UNCHANGED <<network, kernel, poller, rtp, report, dvrIsOpen, cleared>>
  /\ UNCHANGED <<bytesDelivered, out, kept, splits, section, opens, upsets>>

\* Faulty: nothing is deleted before the next packet is looked for.
RestUndeleted == tsBuffer

\* What GetData() finds once the device has been opened, having deleted what
\* was delivered before.
Rest == IF Opened THEN Del(tsBuffer, bytesDelivered) ELSE <<>>

\* Faulty: the packet is deleted when it is delivered.
DeliverAtOnce ==
  /\ tsBuffer' = Del(Rest, TsSize) /\ bytesDelivered' = 0

\* The packet stays in the buffer until the next call.
DeliverDeferred == tsBuffer' = Rest /\ bytesDelivered' = TsSize

\* GetTSPacket(): there is a packet.  With a CAM it is SkipData() that says
\* what was used, the whole packet or nothing yet.
GetPacket ==
  /\ dvrIsOpen /\ Gets(Rest) /\ Sync(Rest[1])
  /\ \/ /\ lent' = SubSeq(Rest, 1, TsSize) /\ out' = Append(out, lent')
        /\ DeliverDeferred
     \/ /\ lent' = <<>> /\ tsBuffer' = Rest /\ bytesDelivered' = 0
        /\ UNCHANGED out
  /\ UNCHANGED <<network, kernel, poller, rtp, report, dvrIsOpen, cleared>>
  /\ UNCHANGED <<kept, splits, section, opens, upsets>>

\* GetTSPacket(): there is none, or the buffer does not start with one.
GetNothing ==
  /\ dvrIsOpen /\ lent' = <<>> /\ bytesDelivered' = 0
  /\ \/ ~Gets(Rest) /\ tsBuffer' = Rest
     \/ Gets(Rest) /\ ~Sync(Rest[1]) /\ tsBuffer' = SkipToSync(Rest)
  /\ UNCHANGED <<network, kernel, poller, rtp, report, dvrIsOpen, cleared, out>>
  /\ UNCHANGED <<kept, splits, section, opens, upsets>>

\* The thread of the section filter handler: one packet of its own buffer.
FilterPacket ==
  /\ Gets(secBuffer)
  /\ IF Sync(secBuffer[1])
     THEN /\ filtered' = secBuffer[1][1]
          /\ secBuffer' = Del(secBuffer, TsSize)
     ELSE secBuffer' = SkipToSync(secBuffer) /\ UNCHANGED filtered
  /\ UNCHANGED <<network, kernel, poller, rtp, report, dvr, opens, upsets>>

Next ==
  \/ Send \/ LateArrival \/ Restart \/ SendReport
  \/ Poll
  \/ ClearBuffer \/ OpenDvr \/ CloseDvr \/ SetPowerSaveMode \/ GetPacket \/ GetNothing
  \/ FilterPacket

Spec == Init /\ [][Next]_vars

\* The poller's thread runs.
FairSpec == Spec /\ WF_vars(Poll)
-----------------------------------------------------------------------------
TsBytes == (Nat \ {0}) \X (1 .. TsSize)
DatagramType == [seq : (0 .. NumSeqs - 1) \cup {None}, bytes : Seq(TsBytes)]

NetworkOK ==
  /\ bare \in BOOLEAN /\ seq \in 0 .. NumSeqs - 1
  /\ sent \in 0 .. MaxDatagrams /\ packets \in Nat
  /\ late \in DatagramType \cup {None} /\ reports \in Nat
  /\ latest \in 0 .. reports /\ faults \subseteq {"shuffled", "cut"}
  /\ opens \in Nat /\ upsets \in Nat /\ opens + reports + upsets =< MaxTrouble
KernelOK ==
  /\ sock \in Seq(DatagramType) /\ Len(sock) =< SockSize
  /\ ctl \in Seq([parts : Seq(Nat), ours : BOOLEAN])
  /\ ready \subseteq {"rtp", "rtcp"}
PollerOK ==
  /\ pc \in {"wait", "next", "read", "process", "write", "reports"}
  /\ events \subseteq {"rtp", "rtcp"}
  /\ batch \in Seq(DatagramType) /\ Len(batch) =< ReadCount
  /\ full \in BOOLEAN /\ writing \in Seq(TsBytes) /\ seenOpen \in BOOLEAN
  /\ report \in 0 .. reports
RtpOK ==
  /\ sequenceNumber \in -1 .. NumSeqs - 1 /\ packetErrors \in Nat
  /\ prev \in (0 .. NumSeqs - 1) \cup {None} /\ gaps \in Nat /\ blind \in 0 .. gaps
DeviceOK ==
  /\ dvrIsOpen \in BOOLEAN /\ cleared \in BOOLEAN
  /\ bytesDelivered \in {0, TsSize}
  /\ Opened => bytesDelivered =< Len(tsBuffer)
  /\ tsBuffer \in Seq(TsBytes) /\ Len(tsBuffer) =< Capacity
  /\ secBuffer \in Seq(TsBytes) /\ Len(secBuffer) =< Capacity
  /\ lent \in Seq(TsBytes) /\ out \in Seq(Seq(TsBytes))
  /\ filtered \in Nat /\ kept \subseteq Nat /\ splits \in Nat
TypeOK == NetworkOK /\ KernelOK /\ PollerOK /\ RtpOK /\ DeviceOK

\* No datagram is left at a socket unless an event for it is still to come:
\* an edge-triggered poller that stops reading early is not woken again.
NoStall ==
  pc = "wait" => /\ "rtp" \notin ready => sock = <<>>
                 /\ "rtcp" \notin ready => ctl = <<>>

\* Once the poller has nothing to do the tuner has the newest report, whatever
\* else is in the datagrams.  With multicast it has none: socket.c:91 means to
\* allow packet information to be fetched, and does not.
LatestReport ==
  pc = "wait" /\ "rtcp" \notin ready => report = latest

\* No error is counted unless a number was skipped, every jump is counted but
\* those from the two highest numbers, and none more than twice, although the
\* numbers are counted modulo 0xFFFF.
JumpsCounted == gaps - blind =< packetErrors /\ packetErrors =< 2 * gaps

\* As long as the network keeps the order and repeats nothing, VDR and the
\* section filters get the packets in order and none twice, whatever is lost,
\* cut, closed and opened in between.
InOrder ==
  "shuffled" \notin faults =>
    /\ \A i, j \in DOMAIN out : i < j => out[i][1][1] < out[j][1][1]
    /\ \A byte \in ToSet(secBuffer) : Sync(byte) => filtered < byte[1]

\* A packet that found room in the TS buffer of an open device is handed to VDR
\* sooner or later: it has been, or is still to be, unless the device is closed
\* first.
Packet(n) == Bytes(n - 1, 1)
NothingVanishes ==
  "cut" \notin faults =>
    \A n \in kept :
      \/ Packet(n) \in ToSet(out)
      \/ ToSet(Packet(n)) \subseteq ToSet(Rest)

\* After bytes got lost inside a packet one packet at most comes out damaged,
\* then the sync byte is found again.  The buffers split a packet only when
\* they are full and a packet cut on the network has shifted their contents.
Damaged == {i \in DOMAIN out : out[i] # Packet(out[i][1][1])}
Whole(ring) == \A i \in DOMAIN ring : ring[i][2] = 1 + ((i - 1) % TsSize)
DamageContained ==
  /\ Cardinality(Damaged) =< upsets + splits
  /\ "cut" \notin faults => Whole(tsBuffer) /\ Whole(secBuffer) /\ splits = 0

\* The packet VDR is working on stays where it is until VDR asks for the next,
\* however much the poller writes meanwhile.
LentStays == lent # <<>> => IsPrefix(lent, tsBuffer)

\* What has arrived is read in the end.
Drained == sock # <<>> ~> sock = <<>>
=============================================================================
