---------------------------- MODULE SatipSections ----------------------------
(***************************************************************************)
(* How one cSatipSectionFilter (src/sectionfilter.c) puts sections         *)
(* together again from the TS packets of its PID, when packets get lost    *)
(* or arrive twice, and hands them to VDR through its ring buffer.         *)
(*                                                                         *)
(* The bytes of the sections are numbered from 1 on; section n consists of *)
(* the bytes start[n] + 1 .. start[n + 1].  Stuffing is 0.  A packet is    *)
(* worked on in steps (copy a part of it, take out one section), which the *)
(* handler's thread makes without interruption; it sends to VDR when there *)
(* is no packet left.                                                      *)
(***************************************************************************)
EXTENDS Naturals, Sequences

CONSTANTS
  NumSections,   \* sections of the stream
  Lengths,       \* lengths of sections
  Payloads,      \* payload sizes of TS packets, TS_SIZE at most
  HeaderSize,    \* 3: bytes of a section that tell its length
  MaxSection,    \* eDmxMaxSectionSize
  FeedSize,      \* eDmxMaxSectionFeedSize, MaxSection and TS_SIZE
  CcMod,         \* 16: values of the continuity counter
  RingSize,      \* sections the ring buffer has room for
  Misread,       \* lengths that bytes inside a section may be mistaken for
  Unwanted,      \* sections of another table id
  None,
  MaxLost,       \* bound: packets lost
  MaxUpsets      \* bound: packets repeated, discontinuities announced

Sections == 1 .. NumSections
PacketType == [cc : 0 .. CcMod - 1, pusi : BOOLEAN, pointer : Nat, first : Nat,
               upto : Nat, data : Seq(Nat)]

ASSUME SectionsAssumption ==
  /\ {NumSections, MaxSection, FeedSize, RingSize, MaxLost, MaxUpsets} \subseteq Nat
  /\ HeaderSize \in Nat \ {0} /\ CcMod \in Nat \ {0, 1}
  /\ Lengths \subseteq HeaderSize .. MaxSection
  /\ Payloads \subseteq Nat \ {0, 1}
  /\ \A p \in Payloads : MaxSection + p =< FeedSize
  /\ Misread \subseteq Nat \ {0} /\ Unwanted \subseteq Sections
  /\ None \notin PacketType

VARIABLES
  start,     \* where each section of the stream starts
  misread,   \* the length read when a section is taken to start inside another
  \* the multiplexer of the broadcaster and the way to the filter
  sent,      \* bytes put into packets so far
  cc,        \* continuity counter of the next packet
  gap,       \* packets lost since the last one that arrived
  packet,    \* the last one that arrived
  \* the filter
  pusiSeen,  \* pusiSeenM
  feedCc,    \* feedCcM
  buf,       \* secBufBaseM up to tsFeedpM
  secBufp,   \* secBufpM
  parts,     \* what of the packet is still to be copied
  pc,        \* idle, copying, or taking out sections
  ring,      \* ringBufferM
  out,       \* sections VDR was sent
  \* history
  broken,    \* sections with lost packets, or interrupted
  dropped,   \* sections for which there was no room
  lost, upsets

stream  == <<start, misread>>
way     == <<sent, cc, gap, packet>>
filter  == <<pusiSeen, feedCc, buf, secBufp, parts, pc>>
history == <<broken, dropped, lost, upsets>>
vars    == <<stream, way, filter, ring, out, history>>

Bytes(n) == start[n] + 1 .. start[n + 1]
Total    == start[NumSections + 1]
Run(from, to) == [i \in 1 .. to - from + 1 |-> from + i - 1]
Section(n) == Run(start[n] + 1, start[n + 1])
Stuffing(n) == [i \in 1 .. n |-> 0]

Init ==
  /\ start \in [1 .. NumSections + 1 -> 0 .. NumSections * MaxSection]
  /\ start[1] = 0 /\ \A n \in Sections : start[n + 1] - start[n] \in Lengths
  /\ misread \in Misread
  /\ sent = 0 /\ cc \in 0 .. CcMod - 1 /\ gap = 0 /\ packet = None
  /\ pusiSeen = FALSE /\ feedCc = 0 /\ buf = <<>> /\ secBufp = 0
  /\ parts = <<>> /\ pc = "idle"
  /\ ring = <<>> /\ out = <<>>
  /\ broken = {} /\ dropped = {} /\ lost = 0 /\ upsets = 0

-----------------------------------------------------------------------------
(* The packets of the PID. *)

\* The section with bytes on either side of the point reached.
Interrupted == {n \in Sections : start[n] < sent /\ sent < start[n + 1]}
Remaining == IF Interrupted = {} THEN 0
             ELSE start[(CHOOSE n \in Interrupted : TRUE) + 1] - sent

\* A packet with the next m bytes, and stuffing if there is room for more.
Carry(room, m, pusi, pointer) ==
  [cc |-> cc, pusi |-> pusi, pointer |-> pointer, first |-> sent + 1,
   upto |-> sent + m, data |-> Run(sent + 1, sent + m) \o Stuffing(room - m)]

\* No section starts in the packet: it is full, or has the rest of one.
RestIn(p) == {m \in 1 .. Remaining : m = p \/ (m = Remaining /\ m < p)}
Continuations ==
  UNION {{Carry(p, m, FALSE, 0) : m \in RestIn(p)} : p \in Payloads}

\* A section starts: a pointer to it, then sections up to the end of the
\* packet, or to the end of one of them.
StartsIn(p) ==
  {m \in Remaining + 1 .. p - 1 :
     /\ sent + m =< Total
     /\ m = p - 1 \/ \E n \in Sections : start[n + 1] = sent + m}
Starts ==
  UNION {{Carry(p - 1, m, TRUE, Remaining) : m \in StartsIn(p)} : p \in Payloads}

Packets == Continuations \cup Starts

-----------------------------------------------------------------------------
(* cSatipSectionFilter::Process and what it calls. *)

\* Faulty: the position in the buffer is kept.
NewKeepsPosition == buf' = <<>> /\ UNCHANGED secBufp

New == buf' = <<>> /\ secBufp' = 0

\* Faulty: what precedes the first new section is thrown away.
PartsWithoutRest(p) ==
  <<[new |-> p.pusi, data |-> SubSeq(p.data, p.pointer + 1, Len(p.data))]>>

\* The end of the section at hand, and the sections that start; a packet
\* that points beyond its end is ignored.
Parts(p) ==
  CASE ~p.pusi -> <<[new |-> FALSE, data |-> p.data]>>
    [] p.pusi /\ p.pointer =< Len(p.data) /\ p.data # <<>> ->
         <<[new |-> FALSE, data |-> SubSeq(p.data, 1, p.pointer)],
           [new |-> TRUE, data |-> SubSeq(p.data, p.pointer + 1, Len(p.data))]>>
    [] OTHER -> <<>>

\* Faulty: sections are still fed after a discontinuity.
DiscontinuityIgnored(ok) == UNCHANGED pusiSeen /\ UNCHANGED <<buf, secBufp>>

\* After a discontinuity nothing is fed before the next start of a section.
Discontinuity(ok) ==
  IF ok THEN UNCHANGED <<pusiSeen, buf, secBufp>>
        ELSE pusiSeen' = FALSE /\ New

Process(p, announced) ==
  /\ pc = "idle" /\ pc' = "copy"
  /\ Discontinuity((feedCc + 1) % CcMod = p.cc /\ ~announced)
  /\ feedCc' = p.cc /\ parts' = Parts(p) /\ packet' = p
  /\ UNCHANGED <<stream, ring, out, dropped>>

Clipped(data, room) == IF Len(data) =< room THEN data
                                            ELSE SubSeq(data, 1, room)

\* CopyDump() up to its loop.  The part with the new sections starts afresh.
CopyDump ==
  /\ pc = "copy" /\ parts # <<>> /\ parts' = Tail(parts)
  /\ LET part == Head(parts)
         old  == IF part.new THEN <<>> ELSE buf
         more == Clipped(part.data, FeedSize - Len(old))
     IN  /\ buf' = old \o more
         /\ secBufp' = IF part.new THEN 0 ELSE secBufp
         /\ pusiSeen' = (pusiSeen \/ part.new)
         /\ pc' = IF more = <<>> THEN "copy" ELSE "extract"
  /\ UNCHANGED <<stream, way, feedCc, ring, out, history>>

Processed ==
  /\ pc = "copy" /\ parts = <<>> /\ pc' = "idle"
  /\ UNCHANGED <<stream, way, pusiSeen, feedCc, buf, secBufp, parts>>
  /\ UNCHANGED <<ring, out, history>>

\* GetLength(), when the byte is taken for the first one of a section.
GetLength(byte) ==
  CASE byte = 0 -> MaxSection + 1
    [] \E n \in Sections : byte = start[n] + 1 ->
         LET n == CHOOSE n \in Sections : byte = start[n] + 1
         IN  start[n + 1] - start[n]
    [] OTHER -> misread

\* The header is there, and so is the whole section.
Complete ==
  /\ secBufp + HeaderSize =< Len(buf)
  /\ GetLength(buf[secBufp + 1]) =< MaxSection
  /\ secBufp + GetLength(buf[secBufp + 1]) =< Len(buf)

\* Filter(): a section of the table goes to the ring buffer, if it has room.
Filter(section) ==
  LET ids == {n \in Sections : start[n] + 1 = section[1]}
  IN  IF ids # {} /\ ids \subseteq Unwanted
      THEN UNCHANGED <<ring, dropped>>
      ELSE \/ /\ Len(ring) < RingSize /\ ring' = Append(ring, section)
              /\ UNCHANGED dropped
           \/ /\ Len(ring) >= RingSize /\ dropped' = dropped \cup ids
              /\ UNCHANGED ring

\* One round of the loop of CopyDump().
Extract ==
  /\ pc = "extract" /\ Complete
  /\ LET seclen == GetLength(buf[secBufp + 1])
     IN  /\ IF pusiSeen
            THEN Filter(SubSeq(buf, secBufp + 1, secBufp + seclen))
            ELSE UNCHANGED <<ring, dropped>>
         /\ secBufp' = secBufp + seclen
  /\ UNCHANGED <<stream, way, pusiSeen, feedCc, buf, parts, pc>>
  /\ UNCHANGED <<out, broken, lost, upsets>>

ExtractEnds ==
  /\ pc = "extract" /\ ~Complete /\ pc' = "copy"
  /\ UNCHANGED <<stream, way, pusiSeen, feedCc, buf, secBufp, parts>>
  /\ UNCHANGED <<ring, out, history>>

-----------------------------------------------------------------------------
(* Arrival of packets, and SendAll(). *)

Upset == upsets < MaxUpsets /\ upsets' = upsets + 1

\* A packet may carry the discontinuity indicator.
Receive ==
  \E p \in Packets, announced \in BOOLEAN :
    /\ Process(p, announced)
    /\ sent' = p.upto /\ cc' = (cc + 1) % CcMod /\ gap' = 0
    /\ IF announced THEN Upset /\ broken' = broken \cup Interrupted
                    ELSE UNCHANGED <<upsets, broken>>
    /\ UNCHANGED lost

\* As many packets in a row as there are counter values go unnoticed.
Lose ==
  /\ pc = "idle" /\ lost < MaxLost /\ gap < CcMod - 1
  /\ \E p \in Packets :
       /\ sent' = p.upto
       /\ broken' = broken \cup
            {n \in Sections : Bytes(n) \cap p.first .. p.upto # {}}
  /\ cc' = (cc + 1) % CcMod /\ gap' = gap + 1 /\ lost' = lost + 1
  /\ UNCHANGED <<stream, packet, filter, ring, out, dropped, upsets>>

\* The packet that arrived last arrives again.
Repeat ==
  /\ packet # None /\ Upset
  /\ Process(packet, FALSE)
  /\ broken' = broken \cup {n \in Interrupted : start[n] + 1 < packet.first}
  /\ UNCHANGED <<sent, cc, gap, lost>>

\* Faulty: the section stays in the ring buffer.
KeepFirst == UNCHANGED ring

DropFirst == ring' = Tail(ring)

\* A section the socket refuses is not kept for another try.
Send ==
  /\ pc = "idle" /\ ring # <<>> /\ DropFirst
  /\ \/ out' = Append(out, Head(ring)) /\ UNCHANGED dropped
     \/ /\ dropped' = dropped \cup {n \in Sections : Section(n) = Head(ring)}
        /\ UNCHANGED out
  /\ UNCHANGED <<stream, way, filter, broken, lost, upsets>>

Next ==
  \/ Receive \/ Lose \/ Repeat
  \/ CopyDump \/ Processed \/ Extract \/ ExtractEnds
  \/ Send

Spec == Init /\ [][Next]_vars
-----------------------------------------------------------------------------
StreamOK ==
  /\ start \in [1 .. NumSections + 1 -> Nat] /\ misread \in Misread
  /\ start[1] = 0 /\ \A n \in Sections : start[n + 1] - start[n] \in Lengths
WayOK ==
  /\ sent \in 0 .. Total /\ cc \in 0 .. CcMod - 1 /\ gap \in 0 .. CcMod - 1
  /\ packet \in PacketType \cup {None}
FilterOK ==
  /\ pusiSeen \in BOOLEAN /\ feedCc \in 0 .. CcMod - 1
  /\ buf \in Seq(Nat) /\ Len(buf) =< FeedSize /\ secBufp \in 0 .. Len(buf)
  /\ parts \in Seq([new : BOOLEAN, data : Seq(Nat)])
  /\ pc \in {"idle", "copy", "extract"}
OutputOK ==
  /\ ring \in Seq(Seq(Nat)) /\ Len(ring) =< RingSize /\ out \in Seq(Seq(Nat))
  /\ broken \subseteq Sections /\ dropped \subseteq Sections
  /\ lost \in 0 .. MaxLost /\ upsets \in 0 .. MaxUpsets
TypeOK == StreamOK /\ WayOK /\ FilterOK /\ OutputOK

Found == ring \o out
Delivered == {Found[i] : i \in DOMAIN Found}

\* Whatever is lost or repeated, each section that comes out is one that went
\* in, from its first to its last byte, and of the table asked for.
Genuine == Delivered \subseteq {Section(n) : n \in Sections \ Unwanted}

\* A section that arrived without a break is found, wherever it lies in the
\* packets, unless there was no room for it.
NothingMissed ==
  pc = "idle" =>
    \A n \in Sections \ (Unwanted \cup broken \cup dropped) :
      start[n + 1] =< sent => Section(n) \in Delivered

\* Sections keep their order, and none comes out twice unless a packet did.
InOrder ==
  upsets = 0 =>
    LET all == out \o ring
    IN  \A i, j \in DOMAIN all : i < j => all[i][1] < all[j][1]
=============================================================================
