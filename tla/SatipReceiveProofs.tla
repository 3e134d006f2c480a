------------------------- MODULE SatipReceiveProofs -------------------------
(***************************************************************************)
(* Proofs about SatipReceive: the poller, the counting of RTP numbers, the *)
(* packet VDR holds and the order of packets, for any sizes of buffers,    *)
(* batches, datagrams and TS packets, and any number of datagrams.         *)
(***************************************************************************)
EXTENDS SatipReceive, WellFoundedInduction, SequenceTheorems, TLAPS

\* Only WriteData has a payload at hand, and datagrams are left of a batch only
\* while it is processed.
PcOK ==
  /\ pc # "write" => writing = <<>>
  /\ pc \notin {"process", "write"} => batch = <<>>
  /\ pc = "wait" => events = {}

\* Of what waits at a socket an event is still to be handled, or it is being
\* read, and will be again.
WakeOK ==
  /\ sock # <<>> => \/ "rtp" \in ready \cup events \/ pc = "read"
                    \/ pc \in {"process", "write"} /\ full
  /\ ctl # <<>> => "rtcp" \in ready \cup events \/ pc = "reports"

\* The newest of the datagrams at the RTCP socket that holds a report has the
\* one sent last; the tuner has it when there is none.
Data(i) == ApplicationData(ctl[i].parts)
ReportsOK ==
  /\ \A i \in DOMAIN ctl :
       /\ \E n \in 1 .. reports : ctl[i].parts \in {<<0>>, <<n>>, <<0, n>>}
       /\ ~Multicast => ctl[i].ours
  /\ ~Multicast =>
       /\ (\A i \in DOMAIN ctl : Data(i) = 0) => report = latest
       /\ \A i \in DOMAIN ctl :
            Data(i) > 0 /\ (\A j \in DOMAIN ctl : i < j => Data(j) = 0)
            => Data(i) = latest

\* The number expected follows the one seen last, unless that was the highest;
\* when the highest is kept, the error that comes next is counted already.
CountOK ==
  /\ IF prev = None THEN sequenceNumber = -1
     ELSE \/ sequenceNumber = prev
          \/ sequenceNumber = -1 /\ prev = NumSeqs - 1
  /\ gaps - blind =< packetErrors
  /\ packetErrors + (IF sequenceNumber = NumSeqs - 1 THEN 1 ELSE 0) =< 2 * gaps

\* The packet VDR holds is at the start of the buffer, and will be deleted.
LentOK ==
  lent # <<>> => /\ bytesDelivered = TsSize /\ Len(lent) = TsSize
                 /\ TsSize =< Len(tsBuffer)
                 /\ \A i \in 1 .. TsSize : lent[i] = tsBuffer[i]

Inv == TypeOK /\ PcOK /\ WakeOK /\ ReportsOK /\ CountOK /\ LentOK

-----------------------------------------------------------------------------
(* What the operators on buffers return. *)

\* A quotient and a remainder.
LEMMA DivMod ==
  ASSUME NEW a \in Nat, NEW t \in Nat \ {0}
  PROVE  /\ a \div t \in Nat /\ a % t \in 0 .. t - 1
         /\ a = t * (a \div t) + (a % t)
OBVIOUS

\* There is a least element in a set of natural numbers.
LEMMA LeastIn ==
  ASSUME NEW S \in SUBSET Nat, S # {}
  PROVE  \E x \in S : \A y \in S : x =< y
<1>1. PICK x \in S : \A y \in S : <<y, x>> \notin OpToRel(<, Nat)
  <2> HIDE DEF OpToRel
  <2> QED
    BY NatLessThanWellFounded, WFMin, Zenon
<1>2. ASSUME NEW y \in S
      PROVE  x =< y
  <2>1. <<y, x>> \in Nat \X Nat /\ <<y, x>>[1] = y /\ <<y, x>>[2] = x
    OBVIOUS
  <2>2. ~ (y < x)
    BY <1>1, <2>1, Zenon DEF OpToRel
  <2> QED
    BY <2>2
<1> QED
  BY <1>2

\* The buffers hold whole packets only.
LEMMA CapacityNat == Capacity \in Nat
<1>1. BufSize \in Nat /\ TsSize \in Nat \ {0}
  BY ReceiveAssumption
<1>2. BufSize % TsSize \in Nat /\ BufSize % TsSize =< BufSize
  BY <1>1
<1> QED
  BY <1>1, <1>2 DEF Capacity

\* The front of a sequence, and what is behind it.
LEMMA Parts ==
  ASSUME NEW S, NEW s \in Seq(S), NEW n \in 0 .. Len(s)
  PROVE  /\ SubSeq(s, 1, n) \in Seq(S) /\ Len(SubSeq(s, 1, n)) = n
         /\ \A i \in 1 .. n : SubSeq(s, 1, n)[i] = s[i]
         /\ SubSeq(s, n + 1, Len(s)) \in Seq(S)
         /\ Len(SubSeq(s, n + 1, Len(s))) = Len(s) - n
         /\ \A i \in 1 .. Len(s) - n : SubSeq(s, n + 1, Len(s))[i] = s[n + i]
<1>1. Len(s) \in Nat /\ n \in Nat /\ \A i \in 1 .. Len(s) : s[i] \in S
  BY ElementOfSeq
<1>2. /\ SubSeq(s, 1, n) \in Seq(S) /\ Len(SubSeq(s, 1, n)) = n
      /\ \A i \in 1 .. n : SubSeq(s, 1, n)[i] = s[i]
  <2>1. \A i \in 1 .. n : s[i] \in S
    BY <1>1
  <2> QED
    BY <1>1, <2>1, SubSeqProperties
<1>3. /\ SubSeq(s, n + 1, Len(s)) \in Seq(S)
      /\ Len(SubSeq(s, n + 1, Len(s))) = Len(s) - n
      /\ \A i \in 1 .. Len(s) - n : SubSeq(s, n + 1, Len(s))[i] = s[n + i]
  <2>1. \A i \in n + 1 .. Len(s) : s[i] \in S
    BY <1>1
  <2>2. /\ SubSeq(s, n + 1, Len(s)) \in Seq(S)
        /\ Len(SubSeq(s, n + 1, Len(s))) =
             IF n + 1 <= Len(s) THEN Len(s) - (n + 1) + 1 ELSE 0
        /\ \A i \in 1 .. Len(s) - (n + 1) + 1 :
             SubSeq(s, n + 1, Len(s))[i] = s[(n + 1) + i - 1]
    BY <1>1, <2>1, SubSeqProperties
  <2> QED
    BY <1>1, <2>2
<1> QED
  BY <1>2, <1>3

\* What is behind the bytes deleted.
LEMMA DelIs ==
  ASSUME NEW S, NEW ring \in Seq(S), NEW n \in 0 .. Len(ring)
  PROVE  /\ Del(ring, n) \in Seq(S) /\ Len(Del(ring, n)) = Len(ring) - n
         /\ \A i \in 1 .. Len(ring) - n : Del(ring, n)[i] = ring[n + i]
BY Parts DEF Del

\* The bytes there is room for are behind the others.
LEMMA PutIs ==
  ASSUME NEW S, NEW ring \in Seq(S), NEW bytes \in Seq(S), Len(ring) =< Capacity
  PROVE  /\ Put(ring, bytes) \in Seq(S)
         /\ Len(Put(ring, bytes)) =< Capacity
         /\ Len(Put(ring, bytes)) \in Len(ring) .. Len(ring) + Len(bytes)
         /\ Len(Put(ring, bytes)) < Len(ring) + Len(bytes)
              => Len(Put(ring, bytes)) = Capacity
         /\ \A i \in 1 .. Len(Put(ring, bytes)) :
              Put(ring, bytes)[i] = IF i =< Len(ring) THEN ring[i]
                                    ELSE bytes[i - Len(ring)]
<1> DEFINE room == Capacity - Len(ring)
           n == IF Len(bytes) < room THEN Len(bytes) ELSE room
<1>1. Len(ring) \in Nat /\ Len(bytes) \in Nat /\ Capacity \in Nat
  BY CapacityNat
<1>2. n \in 0 .. Len(bytes) /\ Len(ring) + n =< Capacity
      /\ (n < Len(bytes) => Len(ring) + n = Capacity)
  BY <1>1
<1>3. /\ SubSeq(bytes, 1, n) \in Seq(S) /\ Len(SubSeq(bytes, 1, n)) = n
      /\ \A i \in 1 .. n : SubSeq(bytes, 1, n)[i] = bytes[i]
  BY <1>2, Parts
<1>4. Put(ring, bytes) = ring \o SubSeq(bytes, 1, n)
  BY DEF Put
<1> HIDE DEF n, room
<1>5. /\ Put(ring, bytes) \in Seq(S) /\ Len(Put(ring, bytes)) = Len(ring) + n
      /\ \A i \in 1 .. Len(ring) + n :
           Put(ring, bytes)[i] = IF i <= Len(ring) THEN ring[i]
                                 ELSE SubSeq(bytes, 1, n)[i - Len(ring)]
  BY <1>3, <1>4, ConcatProperties
<1> QED
  BY <1>1, <1>2, <1>3, <1>5

\* Skipping to the next sync byte deletes one byte at least, and none of those
\* after the first that is deleted is a sync byte.
LEMMA SkipIs ==
  ASSUME NEW S, NEW ring \in Seq(S), ring # <<>>
  PROVE  \E n \in 1 .. Len(ring) :
           /\ SkipToSync(ring) = Del(ring, n)
           /\ n < Len(ring) => Sync(ring[n + 1])
           /\ \A i \in 2 .. n : ~Sync(ring[i])
<1> DEFINE syncs == {i \in 2 .. Len(ring) : Sync(ring[i])}
<1>1. Len(ring) \in Nat \ {0}
  BY EmptySeq
<1>2. CASE syncs = {}
  <2>1. Len(Del(ring, Len(ring))) = 0 /\ Del(ring, Len(ring)) \in Seq(S)
    BY <1>1, DelIs
  <2>2. SkipToSync(ring) = Del(ring, Len(ring))
    BY <1>2, <2>1, EmptySeq DEF SkipToSync
  <2> QED
    BY <1>1, <1>2, <2>2
<1>3. CASE syncs # {}
  <2> DEFINE i == CHOOSE i \in syncs : \A j \in syncs : i =< j
  <2>1. i \in syncs /\ \A j \in syncs : i =< j
    <3>1. syncs \in SUBSET Nat
      BY <1>1
    <3>2. \E x \in syncs : \A y \in syncs : x =< y
      BY <1>3, <3>1, LeastIn, Zenon
    <3> QED
      BY <3>2, Zenon
  <2>2. SkipToSync(ring) = SubSeq(ring, i, Len(ring))
    BY <1>3 DEF SkipToSync
  <2> HIDE DEF i
  <2>3. i \in 2 .. Len(ring) /\ Sync(ring[i]) /\ i - 1 \in 1 .. Len(ring)
        /\ (i - 1) + 1 = i
    BY <1>1, <2>1
  <2>4. SkipToSync(ring) = Del(ring, i - 1)
    BY <2>2, <2>3 DEF Del
  <2>5. \A j \in 2 .. i - 1 : ~Sync(ring[j])
    BY <1>1, <2>1, <2>3
  <2> QED
    BY <2>3, <2>4, <2>5
<1> QED
  BY <1>2, <1>3

\* The bytes the server sends are numbered by packet and place.
LEMMA BytesIs ==
  ASSUME NEW n \in Nat, NEW k \in Nat
  PROVE  /\ Bytes(n, k) \in Seq(TsBytes) /\ Len(Bytes(n, k)) = k * TsSize
         /\ \A i \in 1 .. k * TsSize :
              /\ Bytes(n, k)[i] = <<n + 1 + ((i - 1) \div TsSize),
                                    1 + ((i - 1) % TsSize)>>
              /\ (i - 1) \div TsSize \in 0 .. k - 1
              /\ (i - 1) % TsSize \in 0 .. TsSize - 1
<1>1. TsSize \in Nat \ {0} /\ k * TsSize \in Nat
  BY ReceiveAssumption
<1>2. ASSUME NEW i \in 1 .. k * TsSize
      PROVE  /\ (i - 1) \div TsSize \in 0 .. k - 1
             /\ (i - 1) % TsSize \in 0 .. TsSize - 1
  <2> DEFINE q == (i - 1) \div TsSize
             r == (i - 1) % TsSize
  <2>1. i - 1 \in Nat /\ i - 1 < k * TsSize
    BY <1>1
  <2>2. q \in Nat /\ r \in 0 .. TsSize - 1 /\ i - 1 = TsSize * q + r
    BY <1>1, <2>1, DivMod
  <2> HIDE DEF q, r
  <2>3. TsSize * q < k * TsSize
    BY <1>1, <2>1, <2>2
  <2>4. q < k
    BY <1>1, <2>2, <2>3
  <2>5. q \in 0 .. k - 1 /\ r \in 0 .. TsSize - 1
    BY <2>2, <2>4
  <2> QED
    BY <2>5 DEF q, r
<1>3. \A i \in 1 .. k * TsSize :
        <<n + 1 + ((i - 1) \div TsSize), 1 + ((i - 1) % TsSize)>> \in TsBytes
  BY <1>1, <1>2 DEF TsBytes
<1>4. Bytes(n, k) \in [1 .. k * TsSize -> TsBytes]
  BY <1>3 DEF Bytes
<1>5. Bytes(n, k) \in Seq(TsBytes) /\ Len(Bytes(n, k)) = k * TsSize
  BY <1>1, <1>4
<1> QED
  BY <1>2, <1>5 DEF Bytes

\* What arrives goes to the end of the queue, as far as there is room, and
\* causes an event.
LEMMA ArriveIs ==
  ASSUME KernelOK, NEW ds \in Seq(DatagramType), Arrive(ds)
  PROVE  /\ sock' \in Seq(DatagramType) /\ Len(sock') =< SockSize
         /\ ready' \in {ready, ready \cup {"rtp"}}
         /\ sock' = sock \/ "rtp" \in ready'
         /\ \E n \in 0 .. Len(ds) : sock' = sock \o SubSeq(ds, 1, n)
<1> DEFINE room == SockSize - Len(sock)
           n == IF Len(ds) < room THEN Len(ds) ELSE room
<1>1. Len(ds) \in Nat /\ room \in Nat /\ sock \in Seq(DatagramType)
  BY ReceiveAssumption DEF KernelOK
<1>2. n \in 0 .. Len(ds) /\ Len(sock) + n =< SockSize
  BY <1>1, ReceiveAssumption
<1>3. SubSeq(ds, 1, n) \in Seq(DatagramType) /\ Len(SubSeq(ds, 1, n)) = n
  BY <1>2, Parts
<1>4. /\ sock' = sock \o SubSeq(ds, 1, n)
      /\ ready' = IF SubSeq(ds, 1, n) = <<>> THEN ready ELSE ready \cup {"rtp"}
  BY DEF Arrive
<1> HIDE DEF n, room
<1>5. sock' \in Seq(DatagramType) /\ Len(sock') = Len(sock) + n
  BY <1>1, <1>3, <1>4, ConcatProperties
<1>6. SubSeq(ds, 1, n) = <<>> => sock' = sock
  BY <1>1, <1>4, ConcatEmptySeq
<1> QED
  BY <1>2, <1>4, <1>5, <1>6

\* A datagram that follows the others has a report or none.
LEMMA ApplicationDataIs ==
  ASSUME NEW n \in Nat \ {0}
  PROVE  /\ ApplicationData(<<0>>) = 0 /\ ApplicationData(<<n>>) = n
         /\ ApplicationData(<<0, n>>) = n
<1>1. ApplicationData(<<0>>) = 0
  <2>1. {i \in DOMAIN <<0>> : <<0>>[i] > 0} = {}
    OBVIOUS
  <2> QED
    BY <2>1 DEF ApplicationData
<1>2. ApplicationData(<<n>>) = n
  <2>1. {i \in DOMAIN <<n>> : <<n>>[i] > 0} = {1}
    OBVIOUS
  <2> QED
    BY <2>1 DEF ApplicationData
<1>3. ApplicationData(<<0, n>>) = n
  <2>1. {i \in DOMAIN <<0, n>> : <<0, n>>[i] > 0} = {2}
    OBVIOUS
  <2> QED
    BY <2>1 DEF ApplicationData
<1> QED
  BY <1>1, <1>2, <1>3

\* The number after the one expected, modulo one too few.
LEMMA ExpectedIs ==
  ASSUME NEW n \in -1 .. NumSeqs - 1
  PROVE  (n + 1) % (NumSeqs - 1) = IF n = NumSeqs - 2 THEN 0
                                   ELSE IF n = NumSeqs - 1 THEN 1 ELSE n + 1
<1>1. NumSeqs \in Nat /\ NumSeqs > 2
  BY ReceiveAssumption
<1>2. CASE n = NumSeqs - 2
  BY <1>1, <1>2
<1>3. CASE n = NumSeqs - 1
  <2>1. n + 1 = (NumSeqs - 1) + 1
    BY <1>1, <1>3
  <2>2. ((NumSeqs - 1) + 1) % (NumSeqs - 1) = 1
    BY <1>1
  <2> QED
    BY <1>1, <1>3, <2>1, <2>2
<1>4. CASE n < NumSeqs - 2
  <2>1. n + 1 \in 0 .. NumSeqs - 2
    BY <1>1, <1>4
  <2> QED
    BY <1>1, <1>4, <2>1
<1> QED
  BY <1>1, <1>2, <1>3, <1>4

\* So is the next number, modulo their count.
LEMMA NextIs ==
  ASSUME NEW n \in 0 .. NumSeqs - 1
  PROVE  (n + 1) % NumSeqs = IF n = NumSeqs - 1 THEN 0 ELSE n + 1
<1>1. NumSeqs \in Nat /\ NumSeqs > 2
  BY ReceiveAssumption
<1> QED
  BY <1>1

-----------------------------------------------------------------------------
\* At first nothing has been sent.
LEMMA InitInv == Init => Inv
<1> SUFFICES ASSUME Init PROVE Inv
  OBVIOUS
<1>1. /\ {NumSeqs, ReadCount, SockSize, TsSize} \subseteq Nat \ {0}
      /\ NumSeqs > 2 /\ MaxDatagrams \in Nat /\ MaxTrouble \in Nat
  BY ReceiveAssumption
<1>2. NetworkOK
  BY <1>1 DEF Init, NetworkOK
<1>3. KernelOK /\ PollerOK
  <2>1. /\ \A S : <<>> \in Seq(S)
        /\ Len(<<>>) = 0
    BY EmptySeq
  <2>2. KernelOK
    BY <1>1, <2>1 DEF Init, KernelOK
  <2>3. PollerOK
    <3>1. batch \in Seq(DatagramType) /\ Len(batch) = 0 /\ writing \in Seq(TsBytes)
      BY <2>1 DEF Init
    <3>2. report \in 0 .. reports /\ 0 =< ReadCount
      BY <1>1 DEF Init
    <3> QED
      BY <3>1, <3>2 DEF Init, PollerOK
  <2> QED
    BY <2>2, <2>3
<1>4. RtpOK
  BY <1>1 DEF Init, RtpOK
<1>5. DeviceOK
  <2>1. /\ \A S : <<>> \in Seq(S)
        /\ Len(<<>>) = 0
    BY EmptySeq
  <2> QED
    <3>1. /\ tsBuffer \in Seq(TsBytes) /\ Len(tsBuffer) = 0
          /\ secBuffer \in Seq(TsBytes) /\ Len(secBuffer) = 0
          /\ lent \in Seq(TsBytes) /\ out \in Seq(Seq(TsBytes))
      BY <2>1 DEF Init
    <3>2. 0 =< Capacity
      BY CapacityNat
    <3>3. /\ dvrIsOpen \in BOOLEAN /\ cleared \in BOOLEAN /\ bytesDelivered = 0
          /\ filtered \in Nat /\ kept \subseteq Nat /\ splits \in Nat
      BY DEF Init
    <3> QED
      BY <3>1, <3>2, <3>3 DEF DeviceOK, Opened
<1>6. PcOK /\ WakeOK /\ LentOK
  BY DEF Init, PcOK, WakeOK, LentOK
<1>7. ReportsOK
  BY DEF Init, ReportsOK
<1>8. CountOK
  BY <1>1 DEF Init, CountOK
<1> QED
  BY <1>2, <1>3, <1>4, <1>5, <1>6, <1>7, <1>8 DEF Inv, TypeOK

\* What the network brings to the RTP socket causes an event, and leaves the
\* program alone.
LEMMA NetworkStep ==
  ASSUME Inv, NetworkOK',
         UNCHANGED <<reports, latest, ctl, poller, rtp, report, dvr, section>>,
         sock' \in Seq(DatagramType), Len(sock') =< SockSize,
         ready' \in {ready, ready \cup {"rtp"}},
         sock' = sock \/ "rtp" \in ready'
  PROVE  Inv'
<1>1. /\ UNCHANGED <<pc, events, batch, full, writing, seenOpen>>
      /\ UNCHANGED <<sequenceNumber, packetErrors, prev, gaps, blind>>
      /\ UNCHANGED <<dvrIsOpen, cleared, bytesDelivered, tsBuffer, lent, out>>
      /\ UNCHANGED <<kept, splits, secBuffer, filtered>>
  BY DEF poller, rtp, dvr, section
<1>2. KernelOK'
  BY DEF Inv, TypeOK, KernelOK
<1>3. PollerOK' /\ RtpOK' /\ DeviceOK'
  BY <1>1 DEF Inv, TypeOK, PollerOK, RtpOK, DeviceOK, Opened
<1>4. PcOK' /\ CountOK' /\ LentOK'
  BY <1>1 DEF Inv, PcOK, CountOK, LentOK
<1>5. WakeOK'
  BY <1>1 DEF Inv, WakeOK
<1>6. ReportsOK'
  BY DEF Inv, ReportsOK, Data
<1> QED
  BY <1>2, <1>3, <1>4, <1>5, <1>6 DEF Inv, TypeOK

\* The datagrams Send may let arrive.
LEMMA SendDatagrams ==
  ASSUME Inv, NEW k \in Loads
  PROVE  LET bytes == Bytes(packets, k)
             d == Datagram(bytes)
         IN  /\ d \in DatagramType
             /\ [d EXCEPT !.bytes = <<>>] \in DatagramType
             /\ [d EXCEPT !.bytes = Front(bytes)] \in DatagramType
<1> DEFINE bytes == Bytes(packets, k)
<1>1. packets \in Nat /\ k \in Nat \ {0} /\ TsSize \in Nat \ {0}
      /\ seq \in 0 .. NumSeqs - 1
  BY ReceiveAssumption DEF Inv, TypeOK, NetworkOK
<1>2. bytes \in Seq(TsBytes) /\ Len(bytes) = k * TsSize
  BY <1>1, BytesIs
<1>3. <<>> \in Seq(TsBytes)
  BY EmptySeq
<1>4. Front(bytes) \in Seq(TsBytes)
  <2>1. k * TsSize \in Nat \ {0}
    BY <1>1
  <2>2. Len(bytes) - 1 \in 0 .. Len(bytes)
    BY <1>2, <2>1
  <2> QED
    BY <1>2, <2>2, Parts DEF Front
<1> HIDE DEF bytes
<1>5. \A b \in Seq(TsBytes) : Datagram(b) \in DatagramType
  BY <1>1 DEF Datagram, DatagramType
<1>6. \A b, c \in Seq(TsBytes) : [Datagram(b) EXCEPT !.bytes = c] \in DatagramType
  BY <1>1 DEF Datagram, DatagramType
<1> QED
  BY <1>2, <1>3, <1>4, <1>5, <1>6 DEF bytes

\* Whatever becomes of a datagram it is one of those.
LEMMA SendInv ==
  ASSUME Inv, Send
  PROVE  Inv'
<1>1. PICK k \in Loads :
        LET bytes == Bytes(packets, k)
            d == Datagram(bytes)
        IN  /\ packets' = packets + k
            /\ seq' = IF bare THEN seq ELSE (seq + 1) % NumSeqs
            /\ \/ Arrive(<<d>>) /\ UNCHANGED <<late, faults, upsets>>
               \/ Upset /\ UNCHANGED <<sock, ready, late, faults>>
               \/ /\ Upset /\ late = None /\ late' = d
                  /\ faults' = faults \cup {"shuffled"} /\ UNCHANGED <<sock, ready>>
               \/ /\ Upset /\ Arrive(<<d, d>>)
                  /\ faults' = faults \cup {"shuffled"} /\ UNCHANGED late
               \/ /\ Upset /\ ~bare /\ Arrive(<<[d EXCEPT !.bytes = <<>>]>>)
                  /\ UNCHANGED <<late, faults>>
               \/ /\ Upset /\ bare
                  /\ Arrive(<<[d EXCEPT !.bytes = Front(bytes)]>>)
                  /\ faults' = faults \cup {"cut"} /\ UNCHANGED late
  BY Zenon DEF Send
<1>2. /\ UNCHANGED <<bare, reports, latest, ctl, poller, rtp, report, dvr, section>>
      /\ UNCHANGED opens /\ sent < MaxDatagrams /\ sent' = sent + 1
  BY DEF Send
<1> DEFINE d == Datagram(Bytes(packets, k))
           e == [d EXCEPT !.bytes = <<>>]
           f == [d EXCEPT !.bytes = Front(Bytes(packets, k))]
<1>3. d \in DatagramType /\ e \in DatagramType /\ f \in DatagramType
  BY SendDatagrams
<1>4. /\ \/ UNCHANGED <<sock, ready>>
         \/ Arrive(<<d>>) \/ Arrive(<<d, d>>) \/ Arrive(<<e>>) \/ Arrive(<<f>>)
      /\ late' = late \/ late' = d
      /\ faults' \in {faults, faults \cup {"shuffled"}, faults \cup {"cut"}}
      /\ upsets' = upsets \/ Upset
  BY <1>1, Zenon
<1> HIDE DEF d, e, f
<1>11. packets' = packets + k /\ seq' = IF bare THEN seq ELSE (seq + 1) % NumSeqs
  BY <1>1, Zenon
<1>5. NetworkOK'
  <2>1. seq' \in 0 .. NumSeqs - 1
    <3>1. seq \in 0 .. NumSeqs - 1 /\ NumSeqs \in Nat /\ NumSeqs > 2
      BY ReceiveAssumption DEF Inv, TypeOK, NetworkOK
    <3>2. (seq + 1) % NumSeqs \in 0 .. NumSeqs - 1
      BY <3>1, NextIs
    <3> QED
      BY <1>11, <3>1, <3>2
  <2>2. packets' \in Nat /\ sent' \in 0 .. MaxDatagrams
    <3>1. k \in Nat /\ packets \in Nat /\ sent \in 0 .. MaxDatagrams
          /\ MaxDatagrams \in Nat
      BY ReceiveAssumption DEF Inv, TypeOK, NetworkOK
    <3> QED
      BY <1>11, <1>2, <3>1
  <2>3. upsets' \in Nat /\ opens + reports + upsets' =< MaxTrouble
    BY <1>4, ReceiveAssumption DEF Upset, Room, Inv, TypeOK, NetworkOK
  <2>4. late' \in DatagramType \cup {None} /\ faults' \subseteq {"shuffled", "cut"}
    BY <1>3, <1>4 DEF Inv, TypeOK, NetworkOK
  <2> QED
    BY <1>2, <2>1, <2>2, <2>3, <2>4 DEF Inv, TypeOK, NetworkOK
<1>6. /\ sock' \in Seq(DatagramType) /\ Len(sock') =< SockSize
      /\ ready' \in {ready, ready \cup {"rtp"}}
      /\ sock' = sock \/ "rtp" \in ready'
  <2>1. KernelOK
    BY DEF Inv, TypeOK
  <2>2. /\ <<d>> \in Seq(DatagramType) /\ <<d, d>> \in Seq(DatagramType)
        /\ <<e>> \in Seq(DatagramType) /\ <<f>> \in Seq(DatagramType)
    BY <1>3
  <2>3. CASE UNCHANGED <<sock, ready>>
    BY <2>1, <2>3 DEF KernelOK
  <2>4. ASSUME NEW ds \in Seq(DatagramType), Arrive(ds)
        PROVE  <1>6
    BY <2>1, <2>4, ArriveIs
  <2> QED
    BY <1>4, <2>2, <2>3, <2>4
<1> QED
  BY <1>2, <1>5, <1>6, NetworkStep

\* A datagram that was held up is delivered after all.
LEMMA LateArrivalInv ==
  ASSUME Inv, LateArrival
  PROVE  Inv'
<1>1. /\ late # None /\ Arrive(<<late>>) /\ late' = None
      /\ UNCHANGED <<bare, seq, sent, packets, reports, latest, faults, ctl, poller>>
      /\ UNCHANGED <<rtp, report, dvr, section, opens, upsets>>
  BY DEF LateArrival
<1>2. KernelOK /\ <<late>> \in Seq(DatagramType)
  BY <1>1 DEF Inv, TypeOK, NetworkOK
<1>3. NetworkOK'
  BY <1>1 DEF Inv, TypeOK, NetworkOK
<1> QED
  BY <1>1, <1>2, <1>3, ArriveIs, NetworkStep

\* A new session is nothing the program sees.
LEMMA RestartInv ==
  ASSUME Inv, Restart
  PROVE  Inv'
<1>1. /\ Upset /\ seq' \in 0 .. NumSeqs - 1
      /\ UNCHANGED <<bare, sent, packets, late, reports, latest, faults, sock, ctl>>
      /\ UNCHANGED <<ready, poller, rtp, report, dvr, section, opens>>
  BY DEF Restart, kernel
<1>2. NetworkOK'
  BY <1>1, ReceiveAssumption DEF Upset, Room, Inv, TypeOK, NetworkOK
<1>3. sock \in Seq(DatagramType) /\ Len(sock) =< SockSize
  BY DEF Inv, TypeOK, KernelOK
<1> QED
  BY <1>1, <1>2, <1>3, NetworkStep

\* A report is behind those that wait already, and is the newest.
LEMMA SendReportInv ==
  ASSUME Inv, SendReport
  PROVE  Inv'
<1>1. PICK parts \in {<<0>>, <<reports'>>, <<0, reports'>>},
           ours \in (IF Multicast THEN BOOLEAN ELSE {TRUE}) :
        /\ ctl' = Append(ctl, [parts |-> parts, ours |-> ours])
        /\ latest' = IF reports' \in ToSet(parts) /\ ours THEN reports' ELSE latest
  BY DEF SendReport
<1>2. /\ UNCHANGED <<bare, seq, sent, packets, late, faults, sock, report, opens, upsets>>
      /\ UNCHANGED <<pc, events, batch, full, writing, seenOpen>>
      /\ UNCHANGED <<sequenceNumber, packetErrors, prev, gaps, blind>>
      /\ UNCHANGED <<dvrIsOpen, cleared, bytesDelivered, tsBuffer, lent, out>>
      /\ UNCHANGED <<kept, splits, secBuffer, filtered>>
      /\ ready' = ready \cup {"rtcp"} /\ reports' = reports + 1 /\ Room
  BY DEF SendReport, poller, rtp, dvr, section
<1>3. reports \in Nat /\ reports' \in Nat \ {0} /\ latest \in 0 .. reports
  BY <1>2 DEF Inv, TypeOK, NetworkOK
<1>4. parts \in Seq(Nat) /\ ours \in BOOLEAN
  <2>1. <<0>> \in Seq(Nat) /\ <<reports'>> \in Seq(Nat) /\ <<0, reports'>> \in Seq(Nat)
    BY <1>3
  <2> QED
    BY <2>1
<1> DEFINE C == [parts : Seq(Nat), ours : BOOLEAN]
           c == [parts |-> parts, ours |-> ours]
<1>5. c \in C /\ c.parts = parts /\ c.ours = ours /\ ctl \in Seq(C)
  BY <1>4 DEF Inv, TypeOK, KernelOK
<1>6. /\ ctl' \in Seq(C) /\ Len(ctl) \in Nat /\ Len(ctl') = Len(ctl) + 1
      /\ \A i \in 1 .. Len(ctl) : ctl'[i] = ctl[i]
      /\ ctl'[Len(ctl) + 1] = c
      /\ DOMAIN ctl = 1 .. Len(ctl) /\ DOMAIN ctl' = 1 .. Len(ctl) + 1
  <2> HIDE DEF c, C
  <2>1. ctl' = Append(ctl, c)
    BY <1>1 DEF c
  <2>2. /\ ctl' \in Seq(C) /\ Len(ctl') = Len(ctl) + 1
        /\ \A i \in 1 .. Len(ctl) : ctl'[i] = ctl[i]
        /\ ctl'[Len(ctl) + 1] = c
    BY <1>5, <2>1, AppendProperties
  <2> QED
    BY <1>5, <2>2
<1>7. NetworkOK'
  BY <1>1, <1>2, <1>3, ReceiveAssumption DEF Room, Inv, TypeOK, NetworkOK
<1>8. KernelOK'
  BY <1>2, <1>6 DEF Inv, TypeOK, KernelOK
<1>9. PollerOK'
  BY <1>2, <1>3 DEF Inv, TypeOK, PollerOK
<1>10. RtpOK' /\ DeviceOK' /\ PcOK' /\ CountOK' /\ LentOK'
  BY <1>2 DEF Inv, TypeOK, RtpOK, DeviceOK, Opened, PcOK, CountOK, LentOK
<1>11. WakeOK'
  BY <1>2 DEF Inv, WakeOK
<1>12. ReportsOK'
  <2> DEFINE Old(i) == ApplicationData(ctl[i].parts)
             New(i) == ApplicationData(ctl'[i].parts)
             n == Len(ctl) + 1
  <2>1. ASSUME NEW i \in DOMAIN ctl'
        PROVE  /\ \E m \in 1 .. reports' : ctl'[i].parts \in {<<0>>, <<m>>, <<0, m>>}
               /\ ~Multicast => ctl'[i].ours
    <3>1. CASE i \in 1 .. Len(ctl)
      <4>1. PICK m \in 1 .. reports : ctl[i].parts \in {<<0>>, <<m>>, <<0, m>>}
        BY <1>6, <3>1 DEF Inv, ReportsOK
      <4>2. m \in 1 .. reports' /\ ctl'[i] = ctl[i]
        BY <1>2, <1>3, <1>6, <3>1
      <4>3. ~Multicast => ctl[i].ours
        BY <1>6, <3>1 DEF Inv, ReportsOK
      <4> QED
        BY <4>1, <4>2, <4>3
    <3>2. CASE i = n
      <4>1. ctl'[i].parts = parts /\ ctl'[i].ours = ours /\ reports' \in 1 .. reports'
        BY <1>3, <1>5, <1>6, <3>2
      <4> QED
        BY <4>1
    <3> QED
      BY <1>6, <2>1, <3>1, <3>2
  <2>2. ASSUME ~Multicast
        PROVE  /\ (\A i \in DOMAIN ctl' : New(i) = 0) => report' = latest'
               /\ \A i \in DOMAIN ctl' :
                    New(i) > 0 /\ (\A j \in DOMAIN ctl' : i < j => New(j) = 0)
                    => New(i) = latest'
    <3>1. \A i \in 1 .. Len(ctl) : New(i) = Old(i)
      BY <1>6
    <3>2. /\ New(n) = ApplicationData(parts)
          /\ latest' = IF parts = <<0>> THEN latest ELSE reports'
      <4>1. New(n) = ApplicationData(parts)
        BY <1>5, <1>6
      <4>2. ours
        BY <2>2
      <4>3. reports' \in ToSet(parts) <=> parts # <<0>>
        <5>1. CASE parts = <<0>>
          BY <1>3, <5>1 DEF ToSet
        <5>2. CASE parts = <<reports'>>
          BY <1>3, <5>2 DEF ToSet
        <5>3. CASE parts = <<0, reports'>>
          <6>1. parts[2] = reports' /\ 2 \in DOMAIN parts /\ parts # <<0>>
            BY <5>3
          <6> QED
            BY <6>1 DEF ToSet
        <5> QED
          BY <5>1, <5>2, <5>3
      <4> QED
        BY <1>1, <4>1, <4>2, <4>3
    <3>3. /\ (\A i \in DOMAIN ctl : Old(i) = 0) => report = latest
          /\ \A i \in DOMAIN ctl :
               Old(i) > 0 /\ (\A j \in DOMAIN ctl : i < j => Old(j) = 0)
               => Old(i) = latest
      BY <2>2 DEF Inv, ReportsOK, Data
    <3>4. parts = <<0>> => New(n) = 0
      BY <3>2, ApplicationDataIs, <1>3
    <3>5. parts # <<0>> => New(n) = reports'
      BY <3>2, ApplicationDataIs, <1>3
    <3> HIDE DEF Old, New
    <3>6. n \in Nat /\ DOMAIN ctl' = 1 .. n /\ DOMAIN ctl = 1 .. n - 1
      BY <1>6
    <3>7. CASE parts = <<0>>
      <4>1. New(n) = 0 /\ latest' = latest
        BY <3>2, <3>4, <3>7
      <4>2. (\A i \in DOMAIN ctl' : New(i) = 0) => \A i \in DOMAIN ctl : Old(i) = 0
        BY <3>1, <3>6
      <4>3. ASSUME NEW i \in DOMAIN ctl', New(i) > 0,
                   \A j \in DOMAIN ctl' : i < j => New(j) = 0
            PROVE  New(i) = latest'
        <5>1. i \in DOMAIN ctl /\ Old(i) = New(i)
          BY <3>1, <3>6, <4>1, <4>3
        <5>2. \A j \in DOMAIN ctl : i < j => Old(j) = 0
          BY <3>1, <3>6, <4>3
        <5> QED
          BY <3>3, <4>1, <4>3, <5>1, <5>2
      <4> QED
        BY <1>2, <3>3, <4>1, <4>2, <4>3
    <3>8. CASE parts # <<0>>
      <4>1. New(n) = reports' /\ latest' = reports'
        BY <3>2, <3>5, <3>8
      <4>2. n \in DOMAIN ctl' /\ reports' > 0
        BY <1>3, <3>6
      <4>3. ASSUME NEW i \in DOMAIN ctl', \A j \in DOMAIN ctl' : i < j => New(j) = 0
            PROVE  i = n
        <5>1. ~(i < n)
          BY <4>1, <4>2, <4>3
        <5> QED
          BY <3>6, <5>1
      <4> QED
        BY <4>1, <4>2, <4>3
    <3> QED
      BY <3>7, <3>8
  <2> QED
    BY <2>1, <2>2 DEF ReportsOK, Data
<1> QED
  BY <1>7, <1>8, <1>9, <1>10, <1>11, <1>12 DEF Inv, TypeOK

-----------------------------------------------------------------------------
\* The poller leaves the network and the device alone while it looks for work.
LEMMA PollStep ==
  ASSUME Inv, UNCHANGED <<network, ctl, writing, rtp, report, dvr, section>>,
         UNCHANGED <<opens, upsets>>,
         KernelOK', PollerOK', PcOK', WakeOK'
  PROVE  Inv'
<1>1. /\ UNCHANGED <<bare, seq, sent, packets, late, reports, latest, faults>>
      /\ UNCHANGED <<sequenceNumber, packetErrors, prev, gaps, blind>>
      /\ UNCHANGED <<dvrIsOpen, cleared, bytesDelivered, tsBuffer, lent, out>>
      /\ UNCHANGED <<kept, splits, secBuffer, filtered>>
  BY DEF network, rtp, dvr, section
<1>2. NetworkOK' /\ RtpOK' /\ DeviceOK'
  BY <1>1 DEF Inv, TypeOK, NetworkOK, RtpOK, DeviceOK, Opened
<1>3. CountOK' /\ LentOK'
  BY <1>1 DEF Inv, CountOK, LentOK
<1>4. ReportsOK'
  BY <1>1 DEF Inv, ReportsOK, Data
<1> QED
  BY <1>2, <1>3, <1>4 DEF Inv, TypeOK

\* epoll_wait() hands over everything that is ready, and Process() takes one.
LEMMA WaitInv ==
  ASSUME Inv, Wait \/ NextEvent
  PROVE  Inv'
<1>1. /\ UNCHANGED <<network, sock, ctl, batch, full, writing, seenOpen, rtp, report>>
      /\ UNCHANGED <<dvr, section, opens, upsets>>
      /\ pc \in {"wait", "next"}
      /\ \/ /\ pc = "wait" /\ pc' = "next" /\ events' = ready /\ ready' = {}
         \/ pc = "next" /\ ready' = ready /\ events = {} /\ pc' = "wait" /\ events' = {}
         \/ /\ pc = "next" /\ ready' = ready
            /\ "rtp" \in events /\ pc' = "read" /\ events' = events \ {"rtp"}
         \/ /\ pc = "next" /\ ready' = ready
            /\ "rtcp" \in events /\ pc' = "reports" /\ events' = events \ {"rtcp"}
  BY DEF Wait, NextEvent, kernel
<1>2. KernelOK' /\ PollerOK'
  BY <1>1 DEF Inv, TypeOK, KernelOK, PollerOK, network
<1>3. PcOK'
  BY <1>1 DEF Inv, PcOK
<1>4. WakeOK'
  BY <1>1 DEF Inv, PcOK, WakeOK
<1> QED
  BY <1>1, <1>2, <1>3, <1>4, PollStep

\* Fewer datagrams than were asked for are all there were.
LEMMA ReadMultiInv ==
  ASSUME Inv, ReadMulti
  PROVE  Inv'
<1> DEFINE n == IF Len(sock) < ReadCount THEN Len(sock) ELSE ReadCount
<1>1. /\ UNCHANGED <<network, ctl, ready, events, writing, seenOpen, rtp, report>>
      /\ UNCHANGED <<dvr, section, opens, upsets>>
      /\ pc = "read" /\ pc' = "process"
      /\ batch' = SubSeq(sock, 1, n) /\ sock' = SubSeq(sock, n + 1, Len(sock))
      /\ full' = (n >= ReadCount)
  BY DEF ReadMulti
<1>2. /\ sock \in Seq(DatagramType) /\ Len(sock) \in Nat /\ Len(sock) =< SockSize
      /\ ReadCount \in Nat \ {0} /\ SockSize \in Nat
  BY ReceiveAssumption DEF Inv, TypeOK, KernelOK
<1>3. n \in 0 .. Len(sock) /\ n =< ReadCount /\ (~(n >= ReadCount) => n = Len(sock))
  BY <1>2
<1> HIDE DEF n
<1>4. /\ batch' \in Seq(DatagramType) /\ Len(batch') = n
      /\ sock' \in Seq(DatagramType) /\ Len(sock') = Len(sock) - n
  BY <1>1, <1>2, <1>3, Parts
<1>5. ~full' => sock' = <<>>
  <2>1. ~(n >= ReadCount) => Len(sock') = 0
    BY <1>2, <1>3, <1>4
  <2>2. Len(sock') = 0 => sock' = <<>>
    BY <1>4, EmptySeq
  <2> QED
    BY <1>1, <2>1, <2>2
<1>6. full' \in BOOLEAN
  BY <1>1
<1>7. KernelOK' /\ PollerOK'
  BY <1>1, <1>2, <1>3, <1>4, <1>6 DEF Inv, TypeOK, KernelOK, PollerOK, network
<1>8. PcOK' /\ WakeOK'
  BY <1>1, <1>5 DEF Inv, PcOK, WakeOK
<1> QED
  BY <1>1, <1>7, <1>8, PollStep

\* The poller goes on to the next event when no more was there to be read.
LEMMA BatchDoneInv ==
  ASSUME Inv, BatchDone
  PROVE  Inv'
<1>1. /\ UNCHANGED <<network, sock, ctl, ready, events, batch, full, writing, seenOpen>>
      /\ UNCHANGED <<rtp, report, dvr, section, opens, upsets>>
      /\ pc = "process" /\ batch = <<>> /\ pc' = IF full THEN "read" ELSE "next"
  BY DEF BatchDone, ReadAgain, kernel
<1>2. KernelOK' /\ PollerOK'
  BY <1>1 DEF Inv, TypeOK, KernelOK, PollerOK, network
<1>3. PcOK' /\ WakeOK'
  BY <1>1 DEF Inv, PcOK, WakeOK
<1> QED
  BY <1>1, <1>2, <1>3, PollStep

\* A jump is counted unless it starts at the two highest numbers.
LEMMA CountInv ==
  ASSUME RtpOK, CountOK, NEW s \in 0 .. NumSeqs - 1, Count(s), prev' = s, s # None,
         IF prev # None /\ s # (prev + 1) % NumSeqs
         THEN /\ gaps' = gaps + 1
              /\ blind' = IF prev >= NumSeqs - 2 THEN blind + 1 ELSE blind
         ELSE UNCHANGED <<gaps, blind>>
  PROVE  RtpOK' /\ CountOK'
<1> DEFINE n == sequenceNumber
           x == IF n = NumSeqs - 2 THEN 0 ELSE IF n = NumSeqs - 1 THEN 1 ELSE n + 1
<1>1. /\ n \in -1 .. NumSeqs - 1 /\ packetErrors \in Nat
      /\ gaps \in Nat /\ blind \in 0 .. gaps
      /\ NumSeqs \in Nat /\ NumSeqs > 2
  BY ReceiveAssumption DEF RtpOK
<1>2. prev # None => prev \in 0 .. NumSeqs - 1
  BY DEF RtpOK
<1>3. \/ x = 0 /\ s = NumSeqs - 1 /\ sequenceNumber' = -1 /\ packetErrors' = packetErrors
      \/ /\ ~(x = 0 /\ s = NumSeqs - 1) /\ sequenceNumber' = s
         /\ packetErrors' = IF n >= 0 /\ x # s THEN packetErrors + 1 ELSE packetErrors
  <2>1. (n + 1) % (NumSeqs - 1) = x
    BY <1>1, ExpectedIs
  <2> HIDE DEF x
  <2> QED
    BY <2>1 DEF Count
<1>4. CASE prev = None
  <2>1. n = -1 /\ UNCHANGED <<gaps, blind>>
    BY <1>4 DEF CountOK
  <2> QED
    BY <1>1, <1>3, <2>1 DEF RtpOK, CountOK
<1>5. CASE prev # None
  <2>1. prev \in 0 .. NumSeqs - 1 /\ (n = prev \/ (n = -1 /\ prev = NumSeqs - 1))
    <3>1. prev \in 0 .. NumSeqs - 1
      BY <1>2, <1>5
    <3>2. n = prev \/ (n = -1 /\ prev = NumSeqs - 1)
      BY <1>5, Zenon DEF CountOK
    <3> QED
      BY <3>1, <3>2
  <2>2. (prev + 1) % NumSeqs = IF prev = NumSeqs - 1 THEN 0 ELSE prev + 1
    BY <2>1, NextIs
  <2>3. \/ /\ s # (IF prev = NumSeqs - 1 THEN 0 ELSE prev + 1) /\ gaps' = gaps + 1
           /\ blind' = IF prev >= NumSeqs - 2 THEN blind + 1 ELSE blind
        \/ /\ s = (IF prev = NumSeqs - 1 THEN 0 ELSE prev + 1)
           /\ gaps' = gaps /\ blind' = blind
    BY <1>5, <2>2
  <2>4. /\ gaps - blind =< packetErrors
        /\ packetErrors + (IF n = NumSeqs - 1 THEN 1 ELSE 0) =< 2 * gaps
    BY DEF CountOK
  <2>5. RtpOK'
    BY <1>1, <1>3, <2>1, <2>3 DEF RtpOK
  <2>6. gaps' - blind' =< packetErrors'
    BY <1>1, <1>3, <2>1, <2>3, <2>4
  <2>7. packetErrors' + (IF sequenceNumber' = NumSeqs - 1 THEN 1 ELSE 0) =< 2 * gaps'
    BY <1>1, <1>3, <2>1, <2>3, <2>4
  <2>8. sequenceNumber' = s \/ (sequenceNumber' = -1 /\ s = NumSeqs - 1)
    BY <1>3
  <2> QED
    BY <2>5, <2>6, <2>7, <2>8 DEF CountOK
<1> QED
  BY <1>4, <1>5

\* A datagram is counted, and its payload is at hand.
LEMMA ProcessDatagramInv ==
  ASSUME Inv, ProcessDatagram
  PROVE  Inv'
<1> DEFINE d == Head(batch)
<1>1. /\ UNCHANGED <<bare, seq, sent, packets, late, reports, latest, faults>>
      /\ UNCHANGED <<sock, ctl, ready, events, full, report, opens, upsets>>
      /\ UNCHANGED <<dvrIsOpen, cleared, bytesDelivered, tsBuffer, lent, out>>
      /\ UNCHANGED <<kept, splits, secBuffer, filtered>>
      /\ pc = "process" /\ batch # <<>> /\ batch' = Tail(batch)
      /\ writing' = d.bytes
      /\ \/ d.bytes = <<>> /\ UNCHANGED <<pc, seenOpen>>
         \/ pc' = "write" /\ seenOpen' = dvrIsOpen
  BY DEF ProcessDatagram, network, kernel, dvr, section
<1>2. IF d.seq = None THEN UNCHANGED rtp
      ELSE /\ Count(d.seq) /\ prev' = d.seq
           /\ IF prev # None /\ d.seq # (prev + 1) % NumSeqs
              THEN /\ gaps' = gaps + 1
                   /\ blind' = IF prev >= NumSeqs - 2 THEN blind + 1 ELSE blind
              ELSE UNCHANGED <<gaps, blind>>
  BY DEF ProcessDatagram
<1>3. batch \in Seq(DatagramType) /\ Len(batch) =< ReadCount
  BY DEF Inv, TypeOK, PollerOK
<1>4. /\ d \in DatagramType /\ Tail(batch) \in Seq(DatagramType)
      /\ Len(Tail(batch)) = Len(batch) - 1 /\ Len(batch) \in Nat
  BY <1>1, <1>3, HeadTailProperties
<1>5. d.seq \in (0 .. NumSeqs - 1) \cup {None} /\ d.bytes \in Seq(TsBytes)
  BY <1>4 DEF DatagramType
<1> HIDE DEF d
<1>6. RtpOK' /\ CountOK'
  <2>1. RtpOK /\ CountOK
    BY DEF Inv, TypeOK
  <2>2. CASE d.seq = None
    BY <1>2, <2>1, <2>2 DEF rtp, RtpOK, CountOK
  <2>3. CASE d.seq # None
    <3>1. d.seq \in 0 .. NumSeqs - 1
      BY <1>5, <2>3
    <3> QED
      BY <1>2, <2>1, <2>3, <3>1, CountInv
  <2> QED
    BY <2>2, <2>3
<1>7. NetworkOK' /\ KernelOK' /\ DeviceOK'
  BY <1>1 DEF Inv, TypeOK, NetworkOK, KernelOK, DeviceOK, Opened
<1>8. PollerOK'
  <2>1. batch' \in Seq(DatagramType) /\ Len(batch') =< ReadCount
    BY <1>1, <1>3, <1>4, ReceiveAssumption
  <2>2. seenOpen' \in BOOLEAN
    BY <1>1 DEF Inv, TypeOK, PollerOK, DeviceOK, Opened
  <2> QED
    BY <1>1, <1>5, <2>1, <2>2 DEF Inv, TypeOK, PollerOK
<1>9. PcOK' /\ WakeOK' /\ LentOK'
  BY <1>1 DEF Inv, PcOK, WakeOK, LentOK
<1>10. ReportsOK'
  BY <1>1 DEF Inv, ReportsOK, Data
<1> QED
  BY <1>6, <1>7, <1>8, <1>9, <1>10 DEF Inv, TypeOK

\* What goes to the buffers goes to their end: the packet VDR holds stays.
LEMMA WriteDataInv ==
  ASSUME Inv, WriteData
  PROVE  Inv'
<1>1. /\ UNCHANGED <<bare, seq, sent, packets, late, reports, latest, faults>>
      /\ UNCHANGED <<sock, ctl, ready, events, batch, full, seenOpen, report>>
      /\ UNCHANGED <<sequenceNumber, packetErrors, prev, gaps, blind>>
      /\ UNCHANGED <<dvrIsOpen, cleared, bytesDelivered, lent, out, filtered>>
      /\ UNCHANGED <<opens, upsets>>
      /\ pc = "write" /\ pc' = "process" /\ writing' = <<>>
      /\ secBuffer' = Put(secBuffer, writing)
  BY DEF WriteData, network, kernel, rtp
<1>2. \/ UNCHANGED <<tsBuffer, kept, splits>>
      \/ /\ tsBuffer' = Put(tsBuffer, writing)
         /\ kept' \in {kept, kept \cup {tsBuffer'[i][1] :
                                         i \in Len(tsBuffer) + 1 .. Len(tsBuffer')}}
         /\ splits' \in {splits, splits + 1}
  BY DEF WriteData
<1>3. /\ tsBuffer \in Seq(TsBytes) /\ Len(tsBuffer) =< Capacity
      /\ secBuffer \in Seq(TsBytes) /\ Len(secBuffer) =< Capacity
      /\ writing \in Seq(TsBytes) /\ Len(tsBuffer) \in Nat
      /\ bytesDelivered \in {0, TsSize} /\ (Opened => bytesDelivered =< Len(tsBuffer))
      /\ TsSize \in Nat
  BY ReceiveAssumption DEF Inv, TypeOK, PollerOK, DeviceOK, Opened
<1>4. secBuffer' \in Seq(TsBytes) /\ Len(secBuffer') =< Capacity
  BY <1>1, <1>3, PutIs
<1>5. /\ tsBuffer' \in Seq(TsBytes) /\ Len(tsBuffer') =< Capacity
      /\ Len(tsBuffer') \in Nat /\ Len(tsBuffer) =< Len(tsBuffer')
      /\ \A i \in 1 .. Len(tsBuffer) : tsBuffer'[i] = tsBuffer[i]
  <2>1. CASE UNCHANGED tsBuffer
    BY <1>3, <2>1
  <2>2. CASE tsBuffer' = Put(tsBuffer, writing)
    <3> DEFINE ring == Put(tsBuffer, writing)
    <3>1. /\ ring \in Seq(TsBytes) /\ Len(ring) =< Capacity
          /\ Len(ring) \in Len(tsBuffer) .. Len(tsBuffer) + Len(writing)
          /\ \A i \in 1 .. Len(ring) :
               ring[i] = IF i =< Len(tsBuffer) THEN tsBuffer[i]
                         ELSE writing[i - Len(tsBuffer)]
      BY <1>3, PutIs
    <3> HIDE DEF ring
    <3>2. tsBuffer' = ring
      BY <2>2 DEF ring
    <3> QED
      BY <1>3, <3>1, <3>2
  <2> QED
    BY <1>2, <2>1, <2>2
<1>6. kept' \subseteq Nat /\ splits' \in Nat
  <2>1. \A i \in Len(tsBuffer) + 1 .. Len(tsBuffer') : tsBuffer'[i][1] \in Nat
    <3>1. \A i \in 1 .. Len(tsBuffer') : tsBuffer'[i] \in TsBytes
      BY <1>5, ElementOfSeq
    <3> QED
      BY <1>3, <1>5, <3>1 DEF TsBytes
  <2> QED
    <3>1. kept \subseteq Nat /\ splits \in Nat
      BY DEF Inv, TypeOK, DeviceOK, Opened
    <3>2. {tsBuffer'[i][1] : i \in Len(tsBuffer) + 1 .. Len(tsBuffer')} \subseteq Nat
      BY <2>1
    <3>3. kept' \subseteq Nat
      BY <1>2, <3>1, <3>2
    <3>4. splits' \in Nat
      BY <1>2, <3>1
    <3> QED
      BY <3>3, <3>4
<1>7. DeviceOK'
  BY <1>1, <1>3, <1>4, <1>5, <1>6 DEF Inv, TypeOK, DeviceOK, Opened
<1>8. NetworkOK' /\ KernelOK' /\ RtpOK' /\ CountOK'
  BY <1>1 DEF Inv, TypeOK, NetworkOK, KernelOK, RtpOK, CountOK
<1>9. PollerOK'
  <2>1. writing' \in Seq(TsBytes)
    BY <1>1, EmptySeq
  <2> QED
    BY <1>1, <2>1 DEF Inv, TypeOK, PollerOK
<1>10. PcOK' /\ WakeOK'
  BY <1>1 DEF Inv, PcOK, WakeOK
<1>11. ReportsOK'
  BY <1>1 DEF Inv, ReportsOK, Data
<1>12. LentOK'
  BY <1>1, <1>3, <1>5 DEF Inv, LentOK
<1> QED
  BY <1>7, <1>8, <1>9, <1>10, <1>11, <1>12 DEF Inv, TypeOK

\* The RTCP receiver has no part in anything else.
LEMMA ReadReportFrame ==
  ASSUME Inv,
         UNCHANGED <<bare, seq, sent, packets, late, reports, latest, faults>>,
         UNCHANGED <<sequenceNumber, packetErrors, prev, gaps, blind>>,
         UNCHANGED <<dvrIsOpen, cleared, bytesDelivered, tsBuffer, lent, out>>,
         UNCHANGED <<kept, splits, secBuffer, filtered, opens, upsets>>,
         KernelOK', PollerOK', PcOK', WakeOK', ReportsOK'
  PROVE  Inv'
<1>1. NetworkOK' /\ RtpOK' /\ DeviceOK'
  BY DEF Inv, TypeOK, NetworkOK, RtpOK, DeviceOK, Opened
<1>2. CountOK' /\ LentOK'
  BY DEF Inv, CountOK, LentOK
<1> QED
  BY <1>1, <1>2 DEF Inv, TypeOK

\* Reports are read in the order they came in.
LEMMA ReadReportInv ==
  ASSUME Inv, ReadReport
  PROVE  Inv'
<1> DEFINE C == [parts : Seq(Nat), ours : BOOLEAN]
           i == CHOOSE i \in Readable : \A j \in Readable : i =< j
<1>1. /\ UNCHANGED <<bare, seq, sent, packets, late, reports, latest, faults>>
      /\ UNCHANGED <<sock, ready, events, batch, full, writing, seenOpen>>
      /\ UNCHANGED <<sequenceNumber, packetErrors, prev, gaps, blind>>
      /\ UNCHANGED <<dvrIsOpen, cleared, bytesDelivered, tsBuffer, lent, out>>
      /\ UNCHANGED <<kept, splits, secBuffer, filtered, opens, upsets>>
      /\ pc = "reports"
      /\ \/ Readable = {} /\ ctl' = <<>> /\ pc' = "next" /\ report' = report
         \/ /\ Readable # {} /\ ctl' = SubSeq(ctl, i + 1, Len(ctl)) /\ pc' = pc
            /\ report' = IF Data(i) > 0 THEN Data(i) ELSE report
  BY DEF ReadReport, ReportAgain, Data, network, rtp, dvr, section
<1>2. /\ ctl \in Seq(C) /\ Len(ctl) \in Nat /\ DOMAIN ctl = 1 .. Len(ctl)
      /\ reports \in Nat /\ report \in 0 .. reports
  BY DEF Inv, TypeOK, KernelOK, PollerOK, NetworkOK
<1>3. Readable \subseteq 1 .. Len(ctl) /\ (~Multicast => Readable = 1 .. Len(ctl))
  BY <1>2 DEF Readable
<1>4. ASSUME NEW j \in DOMAIN ctl
      PROVE  Data(j) \in 0 .. reports
  <2>1. PICK m \in 1 .. reports : ctl[j].parts \in {<<0>>, <<m>>, <<0, m>>}
    BY <1>4 DEF Inv, ReportsOK
  <2> QED
    <3>1. m \in Nat \ {0} /\ m =< reports
      BY <1>2
    <3>2. /\ ApplicationData(<<0>>) = 0 /\ ApplicationData(<<m>>) = m
          /\ ApplicationData(<<0, m>>) = m
      BY <3>1, ApplicationDataIs
    <3>3. Data(j) \in {0, m}
      BY <2>1, <3>2 DEF Data
    <3> QED
      BY <1>2, <3>1, <3>3
<1>5. CASE Readable = {}
  <2>1. ctl' = <<>> /\ pc' = "next" /\ report' = report
    BY <1>1, <1>5
  <2>2. ctl' \in Seq(C) /\ DOMAIN ctl' = {}
    BY <2>1, EmptySeq
  <2>3. ~Multicast => report = latest
    <3>1. ~Multicast => DOMAIN ctl = {}
      BY <1>2, <1>3, <1>5
    <3> QED
      BY <3>1 DEF Inv, ReportsOK
  <2>4. ReportsOK'
    BY <1>1, <2>1, <2>2, <2>3 DEF ReportsOK
  <2>5. KernelOK' /\ PollerOK'
    BY <1>1, <2>1, <2>2 DEF Inv, TypeOK, KernelOK, PollerOK
  <2>6. PcOK' /\ WakeOK'
    BY <1>1, <2>1 DEF Inv, PcOK, WakeOK
  <2> QED
    BY <1>1, <2>4, <2>5, <2>6, ReadReportFrame
<1>6. CASE Readable # {}
  <2>1. /\ ctl' = SubSeq(ctl, i + 1, Len(ctl)) /\ pc' = pc
        /\ report' = IF Data(i) > 0 THEN Data(i) ELSE report
    BY <1>1, <1>6
  <2>2. i \in Readable /\ \A j \in Readable : i =< j
    <3>1. Readable \in SUBSET Nat
      BY <1>2, <1>3
    <3>2. \E x \in Readable : \A y \in Readable : x =< y
      BY <1>6, <3>1, LeastIn, Zenon
    <3> QED
      BY <3>2, Zenon
  <2> HIDE DEF i
  <2>3. i \in 1 .. Len(ctl) /\ i \in Nat /\ (~Multicast => i = 1)
    BY <1>2, <1>3, <2>2
  <2>4. /\ ctl' \in Seq(C) /\ Len(ctl') = Len(ctl) - i
        /\ \A j \in 1 .. Len(ctl) - i : ctl'[j] = ctl[i + j]
        /\ DOMAIN ctl' = 1 .. Len(ctl) - i
    <3>1. i \in 0 .. Len(ctl)
      BY <1>2, <2>3
    <3>2. /\ ctl' \in Seq(C) /\ Len(ctl') = Len(ctl) - i
          /\ \A j \in 1 .. Len(ctl) - i : ctl'[j] = ctl[i + j]
      BY <1>2, <2>1, <3>1, Parts
    <3> QED
      BY <3>2
  <2>5. report' \in 0 .. reports
    BY <1>2, <1>4, <2>1, <2>3
  <2>6. KernelOK' /\ PollerOK'
    BY <1>1, <2>1, <2>4, <2>5 DEF Inv, TypeOK, KernelOK, PollerOK
  <2>7. PcOK' /\ WakeOK'
    BY <1>1, <2>1 DEF Inv, PcOK, WakeOK
  <2>8. ReportsOK'
    <3> DEFINE New(j) == ApplicationData(ctl'[j].parts)
    <3>1. ASSUME NEW j \in DOMAIN ctl'
          PROVE  /\ \E n \in 1 .. reports : ctl'[j].parts \in {<<0>>, <<n>>, <<0, n>>}
                 /\ ~Multicast => ctl'[j].ours
      <4>1. ctl'[j] = ctl[i + j] /\ i + j \in DOMAIN ctl
        BY <1>2, <2>3, <2>4
      <4> QED
        BY <4>1 DEF Inv, ReportsOK
    <3>2. ASSUME ~Multicast
          PROVE  /\ (\A j \in DOMAIN ctl' : New(j) = 0) => report' = latest
                 /\ \A j \in DOMAIN ctl' :
                      New(j) > 0 /\ (\A l \in DOMAIN ctl' : j < l => New(l) = 0)
                      => New(j) = latest
      <4>1. \A j \in 1 .. Len(ctl) - 1 : New(j) = Data(j + 1)
        BY <1>2, <2>3, <2>4, <3>2 DEF Data
      <4>2. /\ (\A j \in DOMAIN ctl : Data(j) = 0) => report = latest
            /\ \A j \in DOMAIN ctl :
                 Data(j) > 0 /\ (\A l \in DOMAIN ctl : j < l => Data(l) = 0)
                 => Data(j) = latest
        BY <3>2 DEF Inv, ReportsOK
      <4> HIDE DEF New
      <4>3. i = 1 /\ DOMAIN ctl' = 1 .. Len(ctl) - 1 /\ Len(ctl) >= 1
        BY <1>2, <2>3, <2>4, <3>2
      <4>4. ASSUME \A j \in DOMAIN ctl' : New(j) = 0
            PROVE  report' = latest
        <5>1. \A l \in DOMAIN ctl : 1 < l => Data(l) = 0
          <6> SUFFICES ASSUME NEW l \in DOMAIN ctl, 1 < l PROVE Data(l) = 0
            OBVIOUS
          <6>1. l - 1 \in DOMAIN ctl' /\ (l - 1) + 1 = l
            BY <1>2, <4>3
          <6>2. New(l - 1) = Data(l)
            BY <4>1, <4>3, <6>1
          <6> QED
            BY <4>4, <6>1, <6>2
        <5>2. 1 \in DOMAIN ctl /\ Data(1) \in Nat
          BY <1>2, <1>4, <4>3
        <5>3. CASE Data(1) > 0
          BY <2>1, <4>2, <4>3, <5>1, <5>2, <5>3
        <5>4. CASE Data(1) = 0
          <6>1. \A j \in DOMAIN ctl : Data(j) = 0
            BY <1>2, <5>1, <5>2, <5>4
          <6> QED
            BY <2>1, <4>2, <4>3, <5>4, <6>1
        <5> QED
          BY <5>2, <5>3, <5>4
      <4>5. ASSUME NEW j \in DOMAIN ctl', New(j) > 0,
                   \A l \in DOMAIN ctl' : j < l => New(l) = 0
            PROVE  New(j) = latest
        <5>1. j + 1 \in DOMAIN ctl /\ New(j) = Data(j + 1) /\ j \in Nat
          BY <1>2, <4>1, <4>3
        <5>2. ASSUME NEW l \in DOMAIN ctl, j + 1 < l
              PROVE  Data(l) = 0
          <6>1. l - 1 \in DOMAIN ctl' /\ (l - 1) + 1 = l /\ j < l - 1
            BY <1>2, <4>3, <5>1, <5>2
          <6>2. New(l - 1) = Data(l)
            BY <4>1, <4>3, <6>1
          <6> QED
            BY <4>5, <6>1, <6>2
        <5> QED
          BY <4>2, <4>5, <5>1, <5>2
      <4> QED
        BY <4>4, <4>5
    <3> QED
      BY <1>1, <3>1, <3>2 DEF ReportsOK, Data
  <2> QED
    BY <1>1, <2>6, <2>7, <2>8, ReadReportFrame
<1> QED
  BY <1>5, <1>6

-----------------------------------------------------------------------------
\* VDR's threads take from the buffers and leave the poller alone.
LEMMA DeviceStep ==
  ASSUME Inv, UNCHANGED <<network, kernel, poller, rtp, report, upsets>>,
         \/ opens' = opens
         \/ Room /\ opens' = opens + 1,
         DeviceOK', LentOK'
  PROVE  Inv'
<1>1. /\ UNCHANGED <<bare, seq, sent, packets, late, reports, latest, faults>>
      /\ UNCHANGED <<sock, ctl, ready, pc, events, batch, full, writing, seenOpen>>
      /\ UNCHANGED <<sequenceNumber, packetErrors, prev, gaps, blind>>
  BY DEF network, kernel, poller, rtp
<1>2. opens' \in Nat /\ opens' + reports + upsets =< MaxTrouble
  BY ReceiveAssumption DEF Room, Inv, TypeOK, NetworkOK
<1>3. NetworkOK'
  BY <1>1, <1>2 DEF Inv, TypeOK, NetworkOK
<1>4. KernelOK' /\ PollerOK' /\ RtpOK'
  BY <1>1 DEF Inv, TypeOK, KernelOK, PollerOK, RtpOK
<1>5. PcOK' /\ WakeOK' /\ CountOK'
  BY <1>1 DEF Inv, PcOK, WakeOK, CountOK
<1>6. ReportsOK'
  BY <1>1 DEF Inv, ReportsOK, Data
<1> QED
  BY <1>3, <1>4, <1>5, <1>6 DEF Inv, TypeOK

\* What GetData() finds is a part of the buffer.
LEMMA RestIs ==
  ASSUME Inv
  PROVE  /\ Rest \in Seq(TsBytes) /\ Len(Rest) =< Capacity /\ Len(Rest) \in Nat
         /\ ~Opened => Rest = <<>>
         /\ Opened => /\ Rest = Del(tsBuffer, bytesDelivered)
                      /\ bytesDelivered \in 0 .. Len(tsBuffer)
                      /\ Len(Rest) = Len(tsBuffer) - bytesDelivered
                      /\ \A i \in 1 .. Len(Rest) : Rest[i] = tsBuffer[bytesDelivered + i]
<1>1. /\ tsBuffer \in Seq(TsBytes) /\ Len(tsBuffer) =< Capacity
      /\ Len(tsBuffer) \in Nat /\ Capacity \in Nat
  BY CapacityNat DEF Inv, TypeOK, DeviceOK
<1>2. CASE Opened
  <2>1. bytesDelivered \in 0 .. Len(tsBuffer)
    BY <1>2, ReceiveAssumption DEF Inv, TypeOK, DeviceOK
  <2>2. Rest = Del(tsBuffer, bytesDelivered)
    BY <1>2 DEF Rest
  <2>3. /\ Del(tsBuffer, bytesDelivered) \in Seq(TsBytes)
        /\ Len(Del(tsBuffer, bytesDelivered)) = Len(tsBuffer) - bytesDelivered
        /\ \A i \in 1 .. Len(tsBuffer) - bytesDelivered :
             Del(tsBuffer, bytesDelivered)[i] = tsBuffer[bytesDelivered + i]
    BY <1>1, <2>1, DelIs
  <2>4. /\ Len(tsBuffer) - bytesDelivered \in Nat
        /\ Len(tsBuffer) - bytesDelivered =< Capacity
    BY <1>1, <2>1
  <2> QED
    BY <1>2, <2>1, <2>2, <2>3, <2>4
<1>3. CASE ~Opened
  <2>1. Rest = <<>>
    BY <1>3 DEF Rest
  <2> QED
    BY <1>1, <1>3, <2>1, EmptySeq
<1> QED
  BY <1>2, <1>3

\* What is skipped leaves a part of the buffer.
LEMMA SkipType ==
  ASSUME NEW ring \in Seq(TsBytes), ring # <<>>
  PROVE  SkipToSync(ring) \in Seq(TsBytes) /\ Len(SkipToSync(ring)) =< Len(ring)
<1>1. PICK n \in 1 .. Len(ring) : SkipToSync(ring) = Del(ring, n)
  BY SkipIs
<1>2. Len(ring) \in Nat /\ n \in 0 .. Len(ring)
  OBVIOUS
<1>3. Del(ring, n) \in Seq(TsBytes) /\ Len(Del(ring, n)) = Len(ring) - n
  BY <1>2, DelIs
<1> QED
  BY <1>1, <1>2, <1>3

\* OpenDvr() empties the buffer and forgets what was delivered of it.
LEMMA ClearBufferInv ==
  ASSUME Inv, ClearBuffer
  PROVE  Inv'
<1>1. /\ UNCHANGED <<network, kernel, poller, rtp, report, upsets, dvrIsOpen, out>>
      /\ UNCHANGED <<splits, secBuffer, filtered>>
      /\ cleared' = TRUE /\ Room /\ opens' = opens + 1 /\ lent' = <<>>
      /\ bytesDelivered' = 0 /\ tsBuffer' = <<>> /\ kept' = kept
  BY DEF ClearBuffer, ResetDelivered, section
<1>2. /\ tsBuffer' \in Seq(TsBytes) /\ Len(tsBuffer') = 0 /\ lent' \in Seq(TsBytes)
      /\ 0 =< Capacity
  BY <1>1, EmptySeq, CapacityNat
<1>3. DeviceOK'
  BY <1>1, <1>2 DEF Inv, TypeOK, DeviceOK, Opened
<1>4. LentOK'
  BY <1>1 DEF LentOK
<1> QED
  BY <1>1, <1>3, <1>4, DeviceStep

\* Opening and closing are noted.
LEMMA OpenCloseInv ==
  ASSUME Inv, OpenDvr \/ CloseDvr
  PROVE  Inv'
<1>1. /\ UNCHANGED <<network, kernel, poller, rtp, report, upsets, opens, bytesDelivered>>
      /\ UNCHANGED <<tsBuffer, lent, out, splits, secBuffer, filtered>>
      /\ dvrIsOpen' \in BOOLEAN /\ cleared' \in BOOLEAN /\ Opened /\ kept' \subseteq kept
  BY DEF OpenDvr, CloseDvr, section, Inv, TypeOK, DeviceOK, Opened
<1>2. DeviceOK' /\ LentOK'
  BY <1>1 DEF Inv, TypeOK, DeviceOK, Opened, LentOK
<1> QED
  BY <1>1, <1>2, DeviceStep

\* Nothing is lent while the device is closed, nor left in the buffer.
LEMMA PowerSaveInv ==
  ASSUME Inv, SetPowerSaveMode
  PROVE  Inv'
<1>1. /\ UNCHANGED <<network, kernel, poller, rtp, report, upsets, opens, bytesDelivered>>
      /\ UNCHANGED <<dvrIsOpen, cleared, out, kept, splits, secBuffer, filtered>>
      /\ ~Opened /\ tsBuffer' = <<>> /\ lent' = <<>>
  BY DEF SetPowerSaveMode, section
<1>2. /\ tsBuffer' \in Seq(TsBytes) /\ Len(tsBuffer') = 0 /\ lent' \in Seq(TsBytes)
      /\ 0 =< Capacity
  BY <1>1, EmptySeq, CapacityNat
<1>3. DeviceOK'
  BY <1>1, <1>2 DEF Inv, TypeOK, DeviceOK, Opened
<1>4. LentOK'
  BY <1>1 DEF LentOK
<1> QED
  BY <1>1, <1>3, <1>4, DeviceStep

\* The packet VDR is given starts what is left in the buffer.
LEMMA GetPacketInv ==
  ASSUME Inv, GetPacket
  PROVE  Inv'
<1>1. /\ UNCHANGED <<network, kernel, poller, rtp, report, upsets, opens, dvrIsOpen>>
      /\ UNCHANGED <<cleared, kept, splits, secBuffer, filtered>>
      /\ Len(Rest) >= TsSize /\ tsBuffer' = Rest
      /\ \/ /\ lent' = SubSeq(Rest, 1, TsSize) /\ out' = Append(out, lent')
            /\ bytesDelivered' = TsSize
         \/ lent' = <<>> /\ bytesDelivered' = 0 /\ out' = out
  BY DEF GetPacket, DeliverDeferred, Gets, section
<1>2. /\ Rest \in Seq(TsBytes) /\ Len(Rest) \in Nat /\ Len(Rest) =< Capacity
      /\ TsSize \in 0 .. Len(Rest)
  BY <1>1, RestIs, ReceiveAssumption
<1>3. /\ SubSeq(Rest, 1, TsSize) \in Seq(TsBytes)
      /\ Len(SubSeq(Rest, 1, TsSize)) = TsSize
      /\ \A i \in 1 .. TsSize : SubSeq(Rest, 1, TsSize)[i] = Rest[i]
  BY <1>2, Parts
<1>4. lent' \in Seq(TsBytes) /\ out' \in Seq(Seq(TsBytes))
  <2>1. lent' \in Seq(TsBytes)
    BY <1>1, <1>3, EmptySeq
  <2>2. out \in Seq(Seq(TsBytes))
    BY DEF Inv, TypeOK, DeviceOK, Opened
  <2>3. Append(out, lent') \in Seq(Seq(TsBytes))
    BY <2>1, <2>2, AppendProperties
  <2> QED
    BY <1>1, <2>1, <2>2, <2>3
<1>5. DeviceOK'
  BY <1>1, <1>2, <1>4 DEF Inv, TypeOK, DeviceOK, Opened
<1>6. LentOK'
  BY <1>1, <1>3 DEF LentOK
<1> QED
  BY <1>1, <1>5, <1>6, DeviceStep

\* Bytes that start no packet are skipped.
LEMMA GetNothingInv ==
  ASSUME Inv, GetNothing
  PROVE  Inv'
<1>1. /\ UNCHANGED <<network, kernel, poller, rtp, report, upsets, opens, dvrIsOpen>>
      /\ UNCHANGED <<cleared, out, kept, splits, secBuffer, filtered>>
      /\ lent' = <<>> /\ bytesDelivered' = 0
      /\ \/ tsBuffer' = Rest
         \/ Len(Rest) >= TsSize /\ tsBuffer' = SkipToSync(Rest)
  BY DEF GetNothing, Gets, section
<1>2. Rest \in Seq(TsBytes) /\ Len(Rest) \in Nat /\ Len(Rest) =< Capacity
  BY RestIs
<1>3. tsBuffer' \in Seq(TsBytes) /\ Len(tsBuffer') \in Nat /\ Len(tsBuffer') =< Capacity
  <2>1. CASE tsBuffer' = Rest
    BY <1>2, <2>1
  <2>2. CASE Len(Rest) >= TsSize /\ tsBuffer' = SkipToSync(Rest)
    <3>1. Rest # <<>>
      BY <1>2, <2>2, ReceiveAssumption, EmptySeq
    <3>2. SkipToSync(Rest) \in Seq(TsBytes) /\ Len(SkipToSync(Rest)) =< Len(Rest)
      BY <1>2, <3>1, SkipType
    <3>3. Len(SkipToSync(Rest)) \in Nat /\ Capacity \in Nat
      BY <3>2, CapacityNat
    <3> QED
      BY <1>2, <2>2, <3>2, <3>3
  <2> QED
    BY <1>1, <2>1, <2>2
<1>4. lent' \in Seq(TsBytes)
  BY <1>1, EmptySeq
<1>5. DeviceOK' /\ LentOK'
  BY <1>1, <1>3, <1>4 DEF Inv, TypeOK, DeviceOK, Opened, LentOK
<1> QED
  BY <1>1, <1>5, DeviceStep

\* The section filters have a buffer of their own.
LEMMA FilterPacketInv ==
  ASSUME Inv, FilterPacket
  PROVE  Inv'
<1>1. /\ UNCHANGED <<network, kernel, poller, rtp, report, upsets, opens, dvrIsOpen>>
      /\ UNCHANGED <<cleared, bytesDelivered, tsBuffer, lent, out, kept, splits>>
      /\ Len(secBuffer) >= TsSize
      /\ \/ filtered' = secBuffer[1][1] /\ secBuffer' = Del(secBuffer, TsSize)
         \/ filtered' = filtered /\ secBuffer' = SkipToSync(secBuffer)
  BY DEF FilterPacket, Gets, dvr
<1>2. /\ secBuffer \in Seq(TsBytes) /\ Len(secBuffer) \in Nat
      /\ Len(secBuffer) =< Capacity /\ TsSize \in 1 .. Len(secBuffer)
      /\ Capacity \in Nat
  BY <1>1, ReceiveAssumption, CapacityNat DEF Inv, TypeOK, DeviceOK, Opened
<1>3. secBuffer[1] \in TsBytes
  BY <1>2, ElementOfSeq
<1>4. filtered' \in Nat
  BY <1>1, <1>3 DEF TsBytes, Inv, TypeOK, DeviceOK, Opened
<1>5. secBuffer' \in Seq(TsBytes) /\ Len(secBuffer') =< Capacity
  <2>1. CASE secBuffer' = Del(secBuffer, TsSize)
    <3>1. TsSize \in 0 .. Len(secBuffer)
      BY <1>2
    <3> QED
      BY <1>2, <2>1, <3>1, DelIs
  <2>2. CASE secBuffer' = SkipToSync(secBuffer)
    <3>1. secBuffer # <<>>
      BY <1>2, EmptySeq
    <3>2. Len(SkipToSync(secBuffer)) =< Len(secBuffer)
          /\ SkipToSync(secBuffer) \in Seq(TsBytes)
      BY <1>2, <3>1, SkipType
    <3>3. Len(SkipToSync(secBuffer)) \in Nat
      BY <3>2
    <3> QED
      BY <1>2, <2>2, <3>2, <3>3
  <2> QED
    BY <1>1, <2>1, <2>2
<1>6. DeviceOK' /\ LentOK'
  BY <1>1, <1>4, <1>5 DEF Inv, TypeOK, DeviceOK, Opened, LentOK
<1> QED
  BY <1>1, <1>6, DeviceStep

\* Every step keeps the invariant.
LEMMA NextInv == Inv /\ [Next]_vars => Inv'
<1> SUFFICES ASSUME Inv, [Next]_vars PROVE Inv'
  OBVIOUS
<1>1. CASE UNCHANGED vars
  <2>1. /\ UNCHANGED <<network, kernel, poller, rtp, report, dvr, section, opens, upsets>>
    BY <1>1 DEF vars
  <2>2. /\ UNCHANGED <<dvrIsOpen, cleared, bytesDelivered, tsBuffer, lent, out>>
        /\ UNCHANGED <<kept, splits, secBuffer, filtered>>
    BY <2>1 DEF dvr, section
  <2>3. DeviceOK' /\ LentOK'
    BY <2>2 DEF Inv, TypeOK, DeviceOK, Opened, LentOK
  <2> QED
    BY <2>1, <2>3, DeviceStep
<1>2. CASE Next
  BY <1>2, SendInv, LateArrivalInv, RestartInv, SendReportInv, WaitInv, ReadMultiInv,
     BatchDoneInv, ProcessDatagramInv, WriteDataInv, ReadReportInv, ClearBufferInv,
     OpenCloseInv, PowerSaveInv, GetPacketInv, GetNothingInv, FilterPacketInv
     DEF Next, Poll
<1> QED
  BY <1>1, <1>2

\* The invariant holds throughout.
THEOREM Invariance == Spec => []Inv
BY InitInv, NextInv, PTL DEF Spec

-----------------------------------------------------------------------------
\* Every variable has its type, and the buffers never hold more than they can,
\* src/device.c and src/sectionfilter.c.
THEOREM TypeCorrect == Spec => []TypeOK
<1>1. Inv => TypeOK
  BY DEF Inv
<1> QED
  BY <1>1, Invariance, PTL

\* The edge-triggered poller (src/poller.c, src/rtp.c, src/rtcp.c) never waits
\* while data are left at a socket of which it will not be told.
THEOREM NeverStalls == Spec => []NoStall
<1>1. Inv => NoStall
  BY DEF Inv, PcOK, WakeOK, NoStall
<1> QED
  BY <1>1, Invariance, PTL

\* Without multicast the tuner has the newest report when the poller is done,
\* src/rtcp.c.
THEOREM ReportIsLatest ==
  ASSUME ~Multicast
  PROVE  Spec => []LatestReport
<1>1. Inv => LatestReport
  <2> SUFFICES ASSUME Inv, pc = "wait", "rtcp" \notin ready
               PROVE  report = latest
    BY DEF LatestReport
  <2>1. DOMAIN ctl = {}
    BY DEF Inv, PcOK, WakeOK
  <2> QED
    BY <2>1 DEF Inv, ReportsOK
<1> QED
  BY <1>1, Invariance, PTL

\* The errors GetHeaderLength() of src/rtp.c counts are the jumps in the
\* sequence numbers, but for those from the two highest, and none is counted
\* more than twice.
THEOREM JumpsAreCounted == Spec => []JumpsCounted
<1>1. Inv => JumpsCounted
  BY ReceiveAssumption DEF Inv, TypeOK, RtpOK, CountOK, JumpsCounted
<1> QED
  BY <1>1, Invariance, PTL

\* The packet VDR was given stays where it is, src/device.c:597-663.
THEOREM LentPacketStays == Spec => []LentStays
<1>1. Inv => LentStays
  <2> SUFFICES ASSUME Inv, lent # <<>>
               PROVE  IsPrefix(lent, tsBuffer)
    BY DEF LentStays
  <2>1. /\ Len(lent) = TsSize /\ TsSize =< Len(tsBuffer) /\ TsSize \in Nat
        /\ \A i \in 1 .. TsSize : lent[i] = tsBuffer[i]
        /\ lent \in Seq(TsBytes) /\ tsBuffer \in Seq(TsBytes)
    BY ReceiveAssumption DEF Inv, TypeOK, DeviceOK, Opened, LentOK
  <2>2. TsSize \in 0 .. Len(lent) /\ TsSize \in 0 .. Len(tsBuffer)
    BY <2>1
  <2>3. /\ SubSeq(lent, 1, TsSize) \in Seq(TsBytes)
        /\ Len(SubSeq(lent, 1, TsSize)) = TsSize
        /\ \A i \in 1 .. TsSize : SubSeq(lent, 1, TsSize)[i] = lent[i]
    BY <2>1, <2>2, Parts
  <2>4. /\ SubSeq(tsBuffer, 1, TsSize) \in Seq(TsBytes)
        /\ Len(SubSeq(tsBuffer, 1, TsSize)) = TsSize
        /\ \A i \in 1 .. TsSize : SubSeq(tsBuffer, 1, TsSize)[i] = tsBuffer[i]
    BY <2>1, <2>2, Parts
  <2>5. SubSeq(lent, 1, TsSize) = SubSeq(tsBuffer, 1, TsSize)
    BY <2>1, <2>3, <2>4, SeqEqual
  <2> QED
    BY <2>1, <2>5 DEF IsPrefix
<1> QED
  BY <1>1, Invariance, PTL
=============================================================================
