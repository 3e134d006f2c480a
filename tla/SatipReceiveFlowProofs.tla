------------------------ MODULE SatipReceiveFlowProofs ------------------------
(***************************************************************************)
(* What becomes of the bytes on their way from the socket to VDR, for any  *)
(* sizes of buffers, datagrams and TS packets.                             *)
(*                                                                         *)
(* Their order: as long as the network keeps it, the bytes in a ring       *)
(* buffer come before those being written, these before those of the       *)
(* batch, and these before those at the socket.                            *)
(*                                                                         *)
(* Their damage: each place where a packet breaks off, in the TS buffer or *)
(* on its way to it, has a cause of its own, and leaves the buffer with    *)
(* one packet; when the network cuts nothing there is no such place.       *)
(***************************************************************************)
EXTENDS SatipReceiveProofs, FiniteSetTheorems

\* The order of bytes in the stream.
Less(a, b)     == a[1] < b[1] \/ (a[1] = b[1] /\ a[2] < b[2])
Rising(r)      == \A i, j \in 1 .. Len(r) : i < j => Less(r[i], r[j])
Precedes(r, q) == \A i \in 1 .. Len(r), j \in 1 .. Len(q) : Less(r[i], q[j])
UpTo(r, n)     == \A i \in 1 .. Len(r) : r[i][1] =< n

\* No packet starts in r that is numbered m or less.
Clear(m, r) == \A i \in 1 .. Len(r) : Sync(r[i]) => m < r[i][1]

\* What is on its way to the ring buffers: the payload being written and the
\* datagrams that follow.
FlowOf(w, b, s) ==
  [i \in 1 .. 1 + Len(b) + Len(s) |->
     IF i = 1 THEN w
     ELSE IF i - 1 =< Len(b) THEN b[i - 1].bytes ELSE s[i - 1 - Len(b)].bytes]
Flow == FlowOf(writing, batch, sock)

\* A flow of bytes of the first n packets, in order.
Steady(F, n) ==
  \A i \in 1 .. Len(F) :
    /\ Rising(F[i]) /\ UpTo(F[i], n)
    /\ \A j \in 1 .. Len(F) : i < j => Precedes(F[i], F[j])

\* A ring buffer with what the flow has brought so far.
Fits(r, F, n) ==
  Rising(r) /\ UpTo(r, n) /\ \A i \in 1 .. Len(F) : Precedes(r, F[i])

\* Packet m has been taken from the ring buffer and is not to come again.
Passed(m, r, F, n) ==
  m \in 0 .. n /\ Clear(m, r) /\ \A i \in 1 .. Len(F) : Clear(m, F[i])

OrderOK ==
  "shuffled" \notin faults =>
    /\ late = None /\ Steady(Flow, packets)
    /\ Fits(tsBuffer, Flow, packets) /\ Fits(secBuffer, Flow, packets)
    /\ Passed(filtered, secBuffer, Flow, packets)
    /\ \A i \in 1 .. Len(out) : Passed(out[i][1][1], Rest, Flow, packets)
    /\ \A i, j \in 1 .. Len(out) : i < j => out[i][1][1] < out[j][1][1]

-----------------------------------------------------------------------------
(* How a flow goes on. *)

Flows == Seq(Seq(TsBytes))

\* The bytes compared are numbers.
LEMMA BytesNat ==
  ASSUME NEW r \in Seq(TsBytes)
  PROVE  /\ Len(r) \in Nat
         /\ \A i \in 1 .. Len(r) : r[i][1] \in Nat /\ r[i][2] \in Nat
<1>1. \A i \in 1 .. Len(r) : r[i] \in TsBytes
  BY ElementOfSeq
<1> QED
  BY <1>1, ReceiveAssumption DEF TsBytes

\* Of an empty sequence everything holds.
LEMMA EmptyIs ==
  ASSUME NEW r, r = <<>>
  PROVE  /\ Rising(r)
         /\ \A n : UpTo(r, n) /\ Clear(n, r)
         /\ \A q : Precedes(r, q) /\ Precedes(q, r)
<1>1. 1 .. Len(r) = {}
  BY EmptySeq
<1> QED
  BY <1>1 DEF Rising, UpTo, Clear, Precedes

\* Datagrams that are taken from the front, or emptied, leave a flow.
LEMMA FlowShrinks ==
  ASSUME NEW F \in Flows, NEW G \in Flows, NEW s \in {0, 1}, NEW n,
         Len(G) + s =< Len(F),
         \A i \in 1 .. Len(G) : G[i] = <<>> \/ G[i] = F[i + s]
  PROVE  /\ Steady(F, n) => Steady(G, n)
         /\ \A r : Fits(r, F, n) => Fits(r, G, n)
         /\ \A m, r : Passed(m, r, F, n) => Passed(m, r, G, n)
<1>1. Len(F) \in Nat /\ Len(G) \in Nat
  BY DEF Flows
<1>2. \A i \in 1 .. Len(G) : i + s \in 1 .. Len(F)
  BY <1>1
<1>3. ASSUME Steady(F, n), NEW i \in 1 .. Len(G)
      PROVE  /\ Rising(G[i]) /\ UpTo(G[i], n)
             /\ \A j \in 1 .. Len(G) : i < j => Precedes(G[i], G[j])
  <2>1. Rising(G[i]) /\ UpTo(G[i], n)
    BY <1>2, <1>3, EmptyIs DEF Steady
  <2>2. ASSUME NEW j \in 1 .. Len(G), i < j
        PROVE  Precedes(G[i], G[j])
    <3>1. CASE G[i] = <<>> \/ G[j] = <<>>
      BY <3>1, EmptyIs
    <3>2. CASE G[i] = F[i + s] /\ G[j] = F[j + s]
      <4>1. i + s < j + s
        BY <1>1, <2>2
      <4> QED
        BY <1>2, <1>3, <3>2, <4>1 DEF Steady
    <3> QED
      BY <3>1, <3>2
  <2> QED
    BY <2>1, <2>2
<1>4. ASSUME NEW r, Fits(r, F, n) PROVE Fits(r, G, n)
  BY <1>2, <1>4, EmptyIs DEF Fits
<1>5. ASSUME NEW m, NEW r, Passed(m, r, F, n) PROVE Passed(m, r, G, n)
  BY <1>2, <1>5, EmptyIs DEF Passed
<1> QED
  BY <1>3, <1>4, <1>5 DEF Steady

\* So does a datagram of new packets at its end.
LEMMA FlowGrows ==
  ASSUME NEW F \in Flows, NEW G \in Flows, NEW n \in Nat, NEW n2 \in Nat, n =< n2,
         \A i \in 1 .. Len(F) : G[i] = F[i],
         \/ Len(G) = Len(F)
         \/ /\ Len(G) = Len(F) + 1 /\ Rising(G[Len(G)])
            /\ \A i \in 1 .. Len(G[Len(G)]) :
                 n < G[Len(G)][i][1] /\ G[Len(G)][i][1] =< n2
  PROVE  /\ Steady(F, n) => Steady(G, n2)
         /\ \A r \in Seq(TsBytes) : Fits(r, F, n) => Fits(r, G, n2)
         /\ \A m, r : Passed(m, r, F, n) => Passed(m, r, G, n2)
<1>1. Len(F) \in Nat /\ Len(G) \in Nat
  BY DEF Flows
<1>2. \A i \in 1 .. Len(G) : G[i] \in Seq(TsBytes)
  BY ElementOfSeq DEF Flows
<1>3. ASSUME NEW r \in Seq(TsBytes), UpTo(r, n)
      PROVE  UpTo(r, n2)
  BY <1>3, BytesNat DEF UpTo
<1>4. ASSUME NEW r \in Seq(TsBytes), UpTo(r, n), Len(G) = Len(F) + 1
      PROVE  Precedes(r, G[Len(G)])
  <2> DEFINE b == G[Len(G)]
  <2>1. b \in Seq(TsBytes) /\ \A i \in 1 .. Len(b) : n < b[i][1]
    BY <1>1, <1>2, <1>4
  <2> HIDE DEF b
  <2>2. Precedes(r, b)
    BY <1>4, <2>1, BytesNat DEF Precedes, Less, UpTo
  <2> QED
    BY <2>2 DEF b
<1>5. ASSUME NEW m \in Nat, m =< n, Len(G) = Len(F) + 1
      PROVE  Clear(m, G[Len(G)])
  <2> DEFINE b == G[Len(G)]
  <2>1. b \in Seq(TsBytes) /\ \A i \in 1 .. Len(b) : n < b[i][1]
    BY <1>1, <1>2, <1>5
  <2> HIDE DEF b
  <2>2. Clear(m, b)
    BY <1>5, <2>1, BytesNat DEF Clear
  <2> QED
    BY <2>2 DEF b
<1>6. Len(G) = Len(F) + 1 => Rising(G[Len(G)]) /\ UpTo(G[Len(G)], n2)
  BY <1>1 DEF UpTo
<1>7. \A i \in 1 .. Len(G) : i \in 1 .. Len(F) \/ (i = Len(G) /\ Len(G) = Len(F) + 1)
  BY <1>1
<1>8. ASSUME Steady(F, n) PROVE Steady(G, n2)
  <2> SUFFICES ASSUME NEW i \in 1 .. Len(G)
               PROVE  /\ Rising(G[i]) /\ UpTo(G[i], n2)
                      /\ \A j \in 1 .. Len(G) : i < j => Precedes(G[i], G[j])
    BY DEF Steady
  <2>1. Rising(G[i]) /\ UpTo(G[i], n2)
    <3>1. CASE i \in 1 .. Len(F)
      BY <1>2, <1>3, <1>8, <3>1 DEF Steady
    <3> QED
      BY <1>6, <1>7, <3>1
  <2>2. ASSUME NEW j \in 1 .. Len(G), i < j
        PROVE  Precedes(G[i], G[j])
    <3>1. i \in 1 .. Len(F)
      BY <1>1, <1>7, <2>2
    <3>2. G[i] = F[i] /\ Rising(F[i]) /\ UpTo(F[i], n)
      BY <1>8, <3>1 DEF Steady
    <3>3. CASE j \in 1 .. Len(F)
      BY <1>8, <2>2, <3>1, <3>2, <3>3 DEF Steady
    <3>4. CASE j = Len(G) /\ Len(G) = Len(F) + 1
      BY <1>2, <1>4, <3>2, <3>4
    <3> QED
      BY <1>7, <3>3, <3>4
  <2> QED
    BY <2>1, <2>2
<1>9. ASSUME NEW r \in Seq(TsBytes), Fits(r, F, n) PROVE Fits(r, G, n2)
  BY <1>3, <1>4, <1>7, <1>9 DEF Fits
<1>10. ASSUME NEW m, NEW r, Passed(m, r, F, n) PROVE Passed(m, r, G, n2)
  <2>1. m \in 0 .. n /\ m =< n /\ m \in 0 .. n2
    BY <1>10 DEF Passed
  <2> QED
    BY <1>5, <1>7, <1>10, <2>1 DEF Passed
<1> QED
  BY <1>8, <1>9, <1>10

\* The front of the payload goes to the end of a buffer.
LEMMA FlowIsPut ==
  ASSUME NEW F \in Flows, NEW G \in Flows, NEW n,
         NEW r \in Seq(TsBytes), NEW q \in Seq(TsBytes),
         Len(F) >= 1, Len(G) = Len(F), G[1] = <<>>,
         \A i \in 2 .. Len(F) : G[i] = F[i],
         Len(q) \in Len(r) .. Len(r) + Len(F[1]),
         \A i \in 1 .. Len(q) : q[i] = IF i =< Len(r) THEN r[i] ELSE F[1][i - Len(r)]
  PROVE  /\ Steady(F, n) /\ Fits(r, F, n) => Fits(q, G, n)
         /\ \A m : Passed(m, r, F, n) => Passed(m, q, G, n)
<1> DEFINE w == F[1]
<1>1. /\ Len(F) \in Nat /\ Len(r) \in Nat /\ w \in Seq(TsBytes) /\ Len(w) \in Nat
      /\ Len(q) \in Nat /\ Len(q) =< Len(r) + Len(w)
  <2>1. w \in Seq(TsBytes) /\ Len(F) \in Nat
    BY ElementOfSeq DEF Flows
  <2> QED
    BY <2>1
<1>2. \A i \in 1 .. Len(q) :
        \/ i \in 1 .. Len(r) /\ q[i] = r[i]
        \/ /\ ~(i =< Len(r)) /\ i - Len(r) \in 1 .. Len(w)
           /\ q[i] = w[i - Len(r)]
  BY <1>1
<1>3. 1 \in 1 .. Len(F) /\ \A i \in 1 .. Len(F) : i = 1 \/ i \in 2 .. Len(F)
  BY <1>1
<1> HIDE DEF w
<1>4. w = F[1]
  BY DEF w
<1>5. ASSUME Steady(F, n), Fits(r, F, n) PROVE Fits(q, G, n)
  <2>1. Rising(w) /\ UpTo(w, n) /\ Precedes(r, w) /\ Rising(r) /\ UpTo(r, n)
    BY <1>3, <1>4, <1>5 DEF Steady, Fits
  <2>2. Rising(q)
    <3> SUFFICES ASSUME NEW i \in 1 .. Len(q), NEW j \in 1 .. Len(q), i < j
                 PROVE  Less(q[i], q[j])
      BY DEF Rising
    <3>1. CASE j =< Len(r)
      <4>1. i \in 1 .. Len(r) /\ j \in 1 .. Len(r) /\ q[i] = r[i] /\ q[j] = r[j]
        BY <1>1, <1>2, <3>1
      <4> QED
        BY <2>1, <4>1 DEF Rising
    <3>2. CASE ~(j =< Len(r)) /\ i =< Len(r)
      <4>1. i \in 1 .. Len(r) /\ q[i] = r[i]
            /\ j - Len(r) \in 1 .. Len(w) /\ q[j] = w[j - Len(r)]
        BY <1>1, <1>2, <3>2
      <4> QED
        BY <2>1, <4>1 DEF Precedes
    <3>3. CASE ~(j =< Len(r)) /\ ~(i =< Len(r))
      <4>1. /\ i - Len(r) \in 1 .. Len(w) /\ q[i] = w[i - Len(r)]
            /\ j - Len(r) \in 1 .. Len(w) /\ q[j] = w[j - Len(r)]
            /\ i - Len(r) < j - Len(r)
        BY <1>1, <1>2, <3>3
      <4> QED
        BY <2>1, <4>1 DEF Rising
    <3> QED
      BY <3>1, <3>2, <3>3
  <2>3. UpTo(q, n)
    BY <1>2, <2>1 DEF UpTo
  <2>4. ASSUME NEW i \in 1 .. Len(G) PROVE Precedes(q, G[i])
    <3>1. CASE i = 1
      BY <3>1, EmptyIs
    <3>2. CASE i \in 2 .. Len(F)
      <4>1. Precedes(r, F[i]) /\ Precedes(w, F[i]) /\ G[i] = F[i]
        <5>1. 1 < i /\ i \in 1 .. Len(F)
          BY <1>1, <3>2
        <5> QED
          BY <1>3, <1>4, <1>5, <3>2, <5>1 DEF Steady, Fits
      <4> QED
        BY <1>2, <4>1 DEF Precedes
    <3> QED
      BY <1>3, <3>1, <3>2
  <2> QED
    BY <2>2, <2>3, <2>4 DEF Fits
<1>6. ASSUME NEW m, Passed(m, r, F, n) PROVE Passed(m, q, G, n)
  <2>1. m \in 0 .. n /\ Clear(m, r) /\ Clear(m, w)
    BY <1>3, <1>4, <1>6 DEF Passed
  <2>2. Clear(m, q)
    BY <1>2, <2>1 DEF Clear
  <2>3. ASSUME NEW i \in 1 .. Len(G) PROVE Clear(m, G[i])
    <3>1. CASE i = 1
      BY <3>1, EmptyIs
    <3>2. CASE i \in 2 .. Len(F)
      BY <1>3, <1>6, <3>2 DEF Passed
    <3> QED
      BY <1>3, <3>1, <3>2
  <2> QED
    BY <2>1, <2>2, <2>3 DEF Passed
<1> QED
  BY <1>5, <1>6

\* Bytes are deleted at the start of a buffer.
LEMMA FlowIsDeleted ==
  ASSUME NEW F, NEW n, NEW r \in Seq(TsBytes), NEW k \in 0 .. Len(r)
  PROVE  /\ Fits(r, F, n) => Fits(Del(r, k), F, n)
         /\ \A m : Passed(m, r, F, n) => Passed(m, Del(r, k), F, n)
<1> DEFINE q == Del(r, k)
<1>1. Len(r) \in Nat /\ Len(q) = Len(r) - k /\ \A i \in 1 .. Len(q) : q[i] = r[k + i]
  <2>1. Len(q) = Len(r) - k /\ \A i \in 1 .. Len(r) - k : q[i] = r[k + i]
    BY DelIs
  <2> QED
    BY <2>1
<1>2. \A i \in 1 .. Len(q) : k + i \in 1 .. Len(r)
  BY <1>1
<1>3. \A i, j \in 1 .. Len(q) : i < j => k + i < k + j
  BY <1>1
<1> HIDE DEF q
<1>4. ASSUME Fits(r, F, n) PROVE Fits(q, F, n)
  <2>1. Rising(q)
    BY <1>1, <1>2, <1>3, <1>4 DEF Fits, Rising
  <2>2. UpTo(q, n)
    BY <1>1, <1>2, <1>4 DEF Fits, UpTo
  <2>3. \A i \in 1 .. Len(F) : Precedes(q, F[i])
    BY <1>1, <1>2, <1>4 DEF Fits, Precedes
  <2> QED
    BY <2>1, <2>2, <2>3 DEF Fits
<1>5. ASSUME NEW m, Passed(m, r, F, n) PROVE Passed(m, q, F, n)
  BY <1>1, <1>2, <1>5 DEF Passed, Clear
<1> QED
  BY <1>4, <1>5 DEF q

\* The packet at the start of a buffer comes after those taken before, and is
\* the only one of its number.
LEMMA FlowIsTaken ==
  ASSUME NEW F \in Flows, NEW n \in Nat, NEW r \in Seq(TsBytes), Len(r) >= TsSize, Sync(r[1]),
         Fits(r, F, n)
  PROVE  /\ Passed(r[1][1], Del(r, TsSize), F, n)
         /\ \A m : Passed(m, r, F, n) => m < r[1][1]
<1>1. TsSize \in Nat \ {0} /\ Len(r) \in Nat /\ TsSize \in 0 .. Len(r)
      /\ 1 \in 1 .. Len(r)
  BY ReceiveAssumption
<1>2. r[1][1] \in 0 .. n
  BY <1>1, BytesNat DEF Fits, UpTo
<1>3. ASSUME NEW b, Less(r[1], b), Sync(b)
      PROVE  r[1][1] < b[1]
  BY <1>1, <1>3, BytesNat DEF Less, Sync
<1>4. Clear(r[1][1], Del(r, TsSize))
  <2>1. ASSUME NEW i \in 1 .. Len(Del(r, TsSize)), Sync(Del(r, TsSize)[i])
        PROVE  r[1][1] < Del(r, TsSize)[i][1]
    <3>1. /\ Len(Del(r, TsSize)) = Len(r) - TsSize
          /\ Del(r, TsSize)[i] = r[TsSize + i]
      BY <1>1, <2>1, DelIs
    <3>2. TsSize + i \in 1 .. Len(r) /\ 1 < TsSize + i
      BY <1>1, <3>1
    <3>3. Less(r[1], r[TsSize + i])
      BY <1>1, <3>2 DEF Fits, Rising
    <3> QED
      BY <1>3, <2>1, <3>1, <3>3
  <2> QED
    BY <2>1 DEF Clear
<1>5. ASSUME NEW i \in 1 .. Len(F) PROVE Clear(r[1][1], F[i])
  BY <1>1, <1>3 DEF Fits, Precedes, Clear
<1>6. ASSUME NEW m, Passed(m, r, F, n) PROVE m < r[1][1]
  BY <1>1, <1>6 DEF Passed, Clear
<1> QED
  BY <1>2, <1>4, <1>5, <1>6 DEF Passed

-----------------------------------------------------------------------------
(* How the steps change it. *)

\* The payload at hand, the batch and the socket make a flow.
LEMMA FlowIs ==
  ASSUME NEW w \in Seq(TsBytes), NEW b \in Seq(DatagramType),
         NEW s \in Seq(DatagramType)
  PROVE  /\ FlowOf(w, b, s) \in Flows /\ Len(FlowOf(w, b, s)) = 1 + Len(b) + Len(s)
         /\ FlowOf(w, b, s)[1] = w
         /\ \A i \in 1 .. Len(b) : FlowOf(w, b, s)[1 + i] = b[i].bytes
         /\ \A i \in 1 .. Len(s) : FlowOf(w, b, s)[1 + Len(b) + i] = s[i].bytes
<1> DEFINE n == 1 + Len(b) + Len(s)
<1>1. Len(b) \in Nat /\ Len(s) \in Nat /\ n \in Nat
  OBVIOUS
<1>2. /\ \A i \in 1 .. Len(b) : b[i].bytes \in Seq(TsBytes)
      /\ \A i \in 1 .. Len(s) : s[i].bytes \in Seq(TsBytes)
  <2>1. /\ \A i \in 1 .. Len(b) : b[i] \in DatagramType
        /\ \A i \in 1 .. Len(s) : s[i] \in DatagramType
    BY ElementOfSeq
  <2> QED
    BY <2>1 DEF DatagramType
<1>3. FlowOf(w, b, s) \in [1 .. n -> Seq(TsBytes)]
  <2> SUFFICES ASSUME NEW i \in 1 .. n
               PROVE  (IF i = 1 THEN w
                       ELSE IF i - 1 =< Len(b) THEN b[i - 1].bytes
                       ELSE s[i - 1 - Len(b)].bytes) \in Seq(TsBytes)
    BY DEF FlowOf
  <2>1. i # 1 /\ i - 1 =< Len(b) => i - 1 \in 1 .. Len(b)
    BY <1>1
  <2>2. i # 1 /\ ~(i - 1 =< Len(b)) => i - 1 - Len(b) \in 1 .. Len(s)
    BY <1>1
  <2> QED
    BY <1>2, <2>1, <2>2
<1>4. FlowOf(w, b, s) \in Flows /\ Len(FlowOf(w, b, s)) = n
  <2> DEFINE S == Seq(TsBytes)
             f == FlowOf(w, b, s)
  <2>1. f \in [1 .. n -> S] /\ n \in Nat
    BY <1>1, <1>3
  <2> HIDE DEF S, f, n
  <2>2. f \in Seq(S) /\ Len(f) = n
    BY <2>1
  <2> QED
    BY <2>2 DEF S, f, Flows
<1>5. \A i \in 1 .. n : FlowOf(w, b, s)[i] =
        IF i = 1 THEN w
        ELSE IF i - 1 =< Len(b) THEN b[i - 1].bytes ELSE s[i - 1 - Len(b)].bytes
  BY DEF FlowOf
<1> HIDE DEF FlowOf
<1>6. FlowOf(w, b, s)[1] = w
  BY <1>1, <1>5
<1>7. ASSUME NEW i \in 1 .. Len(b) PROVE FlowOf(w, b, s)[1 + i] = b[i].bytes
  <2>1. 1 + i \in 1 .. n /\ 1 + i # 1 /\ (1 + i) - 1 = i /\ i =< Len(b)
    BY <1>1
  <2> QED
    BY <1>5, <2>1
<1>8. ASSUME NEW i \in 1 .. Len(s) PROVE FlowOf(w, b, s)[1 + Len(b) + i] = s[i].bytes
  <2>1. /\ 1 + Len(b) + i \in 1 .. n /\ 1 + Len(b) + i # 1
        /\ (1 + Len(b) + i) - 1 - Len(b) = i /\ ~((1 + Len(b) + i) - 1 =< Len(b))
    BY <1>1
  <2> QED
    BY <1>5, <2>1
<1> QED
  BY <1>4, <1>6, <1>7, <1>8

\* The flow of a state the program can be in.
LEMMA FlowNow ==
  ASSUME Inv
  PROVE  /\ writing \in Seq(TsBytes) /\ batch \in Seq(DatagramType)
         /\ sock \in Seq(DatagramType) /\ packets \in Nat
         /\ tsBuffer \in Seq(TsBytes) /\ secBuffer \in Seq(TsBytes)
         /\ Flow \in Flows /\ Len(Flow) = 1 + Len(batch) + Len(sock)
BY FlowIs DEF Inv, TypeOK, NetworkOK, KernelOK, PollerOK, DeviceOK, Flow

\* Most steps touch neither flow nor buffers.
LEMMA QuietOrder ==
  ASSUME OrderOK,
         UNCHANGED <<writing, batch, sock, packets, late, faults>>,
         UNCHANGED <<dvrIsOpen, cleared, tsBuffer, bytesDelivered>>,
         UNCHANGED <<secBuffer, filtered, out>>
  PROVE  OrderOK'
<1>1. Flow' = Flow /\ Rest' = Rest
  BY DEF Flow, Rest, Opened
<1> QED
  BY <1>1 DEF OrderOK

\* Datagrams that move on leave the buffers alone.
LEMMA ShrinkOrder ==
  ASSUME OrderOK, Flow \in Flows, Flow' \in Flows, NEW s \in {0, 1},
         Len(Flow') + s =< Len(Flow),
         \A i \in 1 .. Len(Flow') : Flow'[i] = Flow[i + s],
         UNCHANGED <<packets, late, faults>>,
         UNCHANGED <<dvrIsOpen, cleared, tsBuffer, bytesDelivered>>,
         UNCHANGED <<secBuffer, filtered, out>>
  PROVE  OrderOK'
<1> SUFFICES ASSUME "shuffled" \notin faults PROVE OrderOK'
  BY DEF OrderOK
<1> DEFINE F == Flow
           G == Flow'
<1>1. /\ F \in Flows /\ G \in Flows /\ Len(G) + s =< Len(F)
      /\ \A i \in 1 .. Len(G) : G[i] = <<>> \/ G[i] = F[i + s]
  OBVIOUS
<1> HIDE DEF F, G
<1>2. /\ Steady(F, packets) => Steady(G, packets)
      /\ \A r : Fits(r, F, packets) => Fits(r, G, packets)
      /\ \A m, r : Passed(m, r, F, packets) => Passed(m, r, G, packets)
  BY <1>1, FlowShrinks
<1>3. Rest' = Rest
  BY DEF Rest, Opened
<1> QED
  BY <1>2, <1>3 DEF OrderOK, F, G

\* ReadMulti() takes datagrams from the socket in their order.
LEMMA ReadMultiFlow ==
  ASSUME Inv, Inv', ReadMulti
  PROVE  /\ Flow \in Flows /\ Flow' \in Flows /\ Len(Flow') + 0 =< Len(Flow)
         /\ \A i \in 1 .. Len(Flow') : Flow'[i] = Flow[i + 0]
<1> DEFINE n == IF Len(sock) < ReadCount THEN Len(sock) ELSE ReadCount
<1>1. /\ UNCHANGED writing
      /\ batch' = SubSeq(sock, 1, n) /\ sock' = SubSeq(sock, n + 1, Len(sock))
      /\ batch = <<>>
  BY DEF ReadMulti, Inv, PcOK
<1>2. /\ writing \in Seq(TsBytes) /\ batch \in Seq(DatagramType)
      /\ sock \in Seq(DatagramType) /\ Len(sock) \in Nat /\ Len(batch) = 0
      /\ batch' \in Seq(DatagramType) /\ sock' \in Seq(DatagramType)
  BY <1>1, EmptySeq DEF Inv, TypeOK, PollerOK, KernelOK
<1>3. n \in 0 .. Len(sock)
  BY <1>2, ReceiveAssumption
<1> HIDE DEF n
<1>4. /\ Len(batch') = n /\ \A i \in 1 .. n : batch'[i] = sock[i]
      /\ Len(sock') = Len(sock) - n
      /\ \A i \in 1 .. Len(sock) - n : sock'[i] = sock[n + i]
  BY <1>1, <1>2, <1>3, Parts
<1> DEFINE F == FlowOf(writing, batch, sock)
           G == FlowOf(writing, batch', sock')
<1>5. /\ F \in Flows /\ Len(F) = 1 + Len(sock) /\ F[1] = writing
      /\ \A i \in 1 .. Len(sock) : F[1 + i] = sock[i].bytes
  <2>1. /\ F \in Flows /\ Len(F) = 1 + Len(batch) + Len(sock) /\ F[1] = writing
        /\ \A i \in 1 .. Len(sock) : F[1 + Len(batch) + i] = sock[i].bytes
    <3>1. /\ writing \in Seq(TsBytes) /\ batch \in Seq(DatagramType)
          /\ sock \in Seq(DatagramType)
      BY <1>2
    <3>2. F \in Flows /\ Len(F) = 1 + Len(batch) + Len(sock)
      BY <3>1, FlowIs
    <3>3. F[1] = writing
      BY <3>1, FlowIs
    <3>4. \A i \in 1 .. Len(sock) : F[1 + Len(batch) + i] = sock[i].bytes
      BY <3>1, FlowIs
    <3> QED
      BY <3>2, <3>3, <3>4
  <2> HIDE DEF F
  <2> QED
    BY <1>2, <2>1
<1>6. /\ G \in Flows /\ Len(G) = 1 + Len(sock) /\ G[1] = writing
      /\ \A i \in 1 .. n : G[1 + i] = sock[i].bytes
      /\ \A i \in 1 .. Len(sock) - n : G[1 + n + i] = sock[n + i].bytes
  <2>1. /\ G \in Flows /\ Len(G) = 1 + Len(batch') + Len(sock') /\ G[1] = writing
        /\ \A i \in 1 .. Len(batch') : G[1 + i] = batch'[i].bytes
        /\ \A i \in 1 .. Len(sock') : G[1 + Len(batch') + i] = sock'[i].bytes
    <3>1. /\ writing \in Seq(TsBytes) /\ batch' \in Seq(DatagramType)
          /\ sock' \in Seq(DatagramType)
      BY <1>2
    <3>2. G \in Flows /\ Len(G) = 1 + Len(batch') + Len(sock')
      BY <3>1, FlowIs
    <3>3. G[1] = writing
      BY <3>1, FlowIs
    <3>4. \A i \in 1 .. Len(batch') : G[1 + i] = batch'[i].bytes
      BY <3>1, FlowIs
    <3>5. \A i \in 1 .. Len(sock') : G[1 + Len(batch') + i] = sock'[i].bytes
      BY <3>1, FlowIs
    <3> QED
      BY <3>2, <3>3, <3>4, <3>5
  <2> HIDE DEF G
  <2>2. Len(G) = 1 + Len(sock)
    BY <1>2, <1>3, <1>4, <2>1
  <2>3. \A i \in 1 .. n : G[1 + i] = sock[i].bytes
    BY <1>4, <2>1
  <2>4. ASSUME NEW i \in 1 .. Len(sock) - n PROVE G[1 + n + i] = sock[n + i].bytes
    BY <1>4, <2>1
  <2> QED
    BY <2>1, <2>2, <2>3, <2>4
<1> HIDE DEF F, G
<1>7. ASSUME NEW i \in 1 .. Len(G) PROVE G[i] = F[i]
  <2>1. CASE i = 1
    BY <1>5, <1>6, <2>1
  <2>2. CASE i # 1 /\ i - 1 =< n
    <3>1. i - 1 \in 1 .. n /\ i - 1 \in 1 .. Len(sock) /\ 1 + (i - 1) = i
      BY <1>2, <1>3, <1>6, <2>2
    <3> QED
      BY <1>5, <1>6, <3>1
  <2>3. CASE i # 1 /\ ~(i - 1 =< n)
    <3>1. /\ i - 1 - n \in 1 .. Len(sock) - n /\ 1 + n + (i - 1 - n) = i
          /\ i - 1 \in 1 .. Len(sock) /\ n + (i - 1 - n) = i - 1 /\ 1 + (i - 1) = i
      BY <1>2, <1>3, <1>6, <2>3
    <3> QED
      BY <1>5, <1>6, <3>1
  <2> QED
    BY <2>1, <2>2, <2>3
<1>8. Flow = F /\ Flow' = G
  BY <1>1 DEF Flow, F, G
<1>9. \A i \in 1 .. Len(G) : G[i] = F[i + 0]
  BY <1>2, <1>5, <1>6, <1>7
<1>10. Len(G) + 0 =< Len(F)
  BY <1>2, <1>5, <1>6
<1> QED
  BY <1>5, <1>6, <1>8, <1>9, <1>10

\* So the order stays the same.
LEMMA ReadMultiOrder ==
  ASSUME Inv, Inv', OrderOK, ReadMulti
  PROVE  OrderOK'
<1>1. /\ UNCHANGED <<packets, late, faults>>
      /\ UNCHANGED <<dvrIsOpen, cleared, tsBuffer, bytesDelivered>>
      /\ UNCHANGED <<secBuffer, filtered, out>>
  BY DEF ReadMulti, network, dvr, section
<1>2. 0 \in {0, 1}
  OBVIOUS
<1> QED
  BY <1>1, <1>2, ReadMultiFlow, ShrinkOrder

\* The first datagram of the batch is the payload at hand.
LEMMA ProcessDatagramFlow ==
  ASSUME Inv, Inv', ProcessDatagram
  PROVE  /\ Flow \in Flows /\ Flow' \in Flows /\ Len(Flow') + 1 =< Len(Flow)
         /\ \A i \in 1 .. Len(Flow') : Flow'[i] = Flow[i + 1]
<1>1. /\ UNCHANGED sock
      /\ batch # <<>> /\ batch' = Tail(batch) /\ writing' = Head(batch).bytes
  BY DEF ProcessDatagram, kernel
<1>2. /\ writing \in Seq(TsBytes) /\ batch \in Seq(DatagramType)
      /\ sock \in Seq(DatagramType) /\ Len(sock) \in Nat /\ Len(batch) \in Nat
      /\ writing' \in Seq(TsBytes) /\ batch' \in Seq(DatagramType)
  BY DEF Inv, TypeOK, PollerOK, KernelOK
<1>3. /\ Len(batch') = Len(batch) - 1 /\ Head(batch) = batch[1] /\ Len(batch) >= 1
      /\ \A i \in 1 .. Len(batch) - 1 : batch'[i] = batch[i + 1]
  <2>1. /\ Len(batch') = Len(batch) - 1
        /\ \A i \in 1 .. Len(batch') : batch'[i] = batch[i + 1]
    BY <1>1, <1>2, HeadTailProperties
  <2>2. Len(batch) >= 1
    BY <1>1, <1>2, EmptySeq
  <2> QED
    BY <1>2, <2>1, <2>2
<1> DEFINE F == FlowOf(writing, batch, sock)
           G == FlowOf(writing', batch', sock)
<1>4. /\ F \in Flows /\ Len(F) = 1 + Len(batch) + Len(sock)
      /\ \A i \in 1 .. Len(batch) : F[1 + i] = batch[i].bytes
      /\ \A i \in 1 .. Len(sock) : F[1 + Len(batch) + i] = sock[i].bytes
  <2>1. /\ writing \in Seq(TsBytes) /\ batch \in Seq(DatagramType)
        /\ sock \in Seq(DatagramType)
    BY <1>2
  <2>2. F \in Flows /\ Len(F) = 1 + Len(batch) + Len(sock)
    BY <2>1, FlowIs
  <2>3. \A i \in 1 .. Len(batch) : F[1 + i] = batch[i].bytes
    BY <2>1, FlowIs
  <2>4. \A i \in 1 .. Len(sock) : F[1 + Len(batch) + i] = sock[i].bytes
    BY <2>1, FlowIs
  <2> QED
    BY <2>2, <2>3, <2>4
<1>5. /\ G \in Flows /\ Len(G) = 1 + Len(batch') + Len(sock) /\ G[1] = writing'
      /\ \A i \in 1 .. Len(batch') : G[1 + i] = batch'[i].bytes
      /\ \A i \in 1 .. Len(sock) : G[1 + Len(batch') + i] = sock[i].bytes
  <2>1. /\ writing' \in Seq(TsBytes) /\ batch' \in Seq(DatagramType)
        /\ sock \in Seq(DatagramType)
    BY <1>2
  <2>2. G \in Flows /\ Len(G) = 1 + Len(batch') + Len(sock)
    BY <2>1, FlowIs
  <2>3. G[1] = writing'
    BY <2>1, FlowIs
  <2>4. \A i \in 1 .. Len(batch') : G[1 + i] = batch'[i].bytes
    BY <2>1, FlowIs
  <2>5. \A i \in 1 .. Len(sock) : G[1 + Len(batch') + i] = sock[i].bytes
    BY <2>1, FlowIs
  <2> QED
    BY <2>2, <2>3, <2>4, <2>5
<1> HIDE DEF F, G
<1>6. ASSUME NEW i \in 1 .. Len(G) PROVE G[i] = F[i + 1]
  <2>1. CASE i = 1
    <3>1. 1 \in 1 .. Len(batch) /\ i + 1 = 1 + 1
      BY <1>2, <1>3, <2>1
    <3> QED
      BY <1>1, <1>3, <1>4, <1>5, <2>1, <3>1
  <2>2. CASE i # 1 /\ i =< Len(batch)
    <3>1. /\ i - 1 \in 1 .. Len(batch') /\ i - 1 \in 1 .. Len(batch) - 1
          /\ 1 + (i - 1) = i /\ (i - 1) + 1 = i
          /\ i \in 1 .. Len(batch) /\ 1 + i = i + 1
      BY <1>2, <1>3, <1>5, <2>2
    <3>2. G[i] = batch'[i - 1].bytes
      BY <1>5, <3>1
    <3>3. batch'[i - 1] = batch[i]
      BY <1>3, <3>1
    <3>4. F[i + 1] = batch[i].bytes
      BY <1>4, <3>1
    <3> QED
      BY <3>2, <3>3, <3>4
  <2>3. CASE i # 1 /\ ~(i =< Len(batch))
    <3>1. /\ i - Len(batch) \in 1 .. Len(sock)
          /\ 1 + Len(batch') + (i - Len(batch)) = i
          /\ 1 + Len(batch) + (i - Len(batch)) = i + 1
      BY <1>2, <1>3, <1>5, <2>3
    <3> QED
      BY <1>4, <1>5, <3>1
  <2> QED
    BY <2>1, <2>2, <2>3
<1>7. Flow = F /\ Flow' = G
  BY <1>1 DEF Flow, F, G
<1>8. Len(G) + 1 =< Len(F)
  BY <1>2, <1>3, <1>4, <1>5
<1> QED
  BY <1>4, <1>5, <1>6, <1>7, <1>8

\* So the order stays the same.
LEMMA ProcessDatagramOrder ==
  ASSUME Inv, Inv', OrderOK, ProcessDatagram
  PROVE  OrderOK'
<1>1. /\ UNCHANGED <<packets, late, faults>>
      /\ UNCHANGED <<dvrIsOpen, cleared, tsBuffer, bytesDelivered>>
      /\ UNCHANGED <<secBuffer, filtered, out>>
  BY DEF ProcessDatagram, network, dvr, section
<1>2. 1 \in {0, 1}
  OBVIOUS
<1> QED
  BY <1>1, <1>2, ProcessDatagramFlow, ShrinkOrder

\* VDR's thread changes the TS buffer only.
LEMMA DeviceOrder ==
  ASSUME OrderOK, UNCHANGED <<writing, batch, sock, packets, late, faults>>,
         UNCHANGED <<secBuffer, filtered, out>>,
         Fits(tsBuffer, Flow, packets) => Fits(tsBuffer', Flow, packets),
         \A m : Passed(m, Rest, Flow, packets) => Passed(m, Rest', Flow, packets)
  PROVE  OrderOK'
<1>1. Flow' = Flow
  BY DEF Flow
<1> QED
  BY <1>1 DEF OrderOK

\* When the device is opened, closed or put aside GetData() finds the same or
\* nothing.
LEMMA RestAfter ==
  ASSUME Inv, ClearBuffer \/ OpenDvr \/ CloseDvr \/ SetPowerSaveMode
  PROVE  /\ UNCHANGED <<writing, batch, sock, packets, late, faults, upsets>>
         /\ UNCHANGED <<splits, secBuffer, filtered, out>>
         /\ tsBuffer' \in {tsBuffer, <<>>} /\ Rest' \in {Rest, <<>>}
<1>1. /\ UNCHANGED <<writing, batch, sock, packets, late, faults, upsets>>
      /\ UNCHANGED <<splits, secBuffer, filtered, out>>
      /\ tsBuffer' \in {tsBuffer, <<>>}
  BY DEF ClearBuffer, OpenDvr, CloseDvr, SetPowerSaveMode, network, kernel, poller,
         section
<1>2. Del(<<>>, 0) = <<>>
  <2>1. <<>> \in Seq(TsBytes) /\ Len(<<>>) = 0 /\ 0 \in 0 .. Len(<<>>)
    BY EmptySeq
  <2>2. Del(<<>>, 0) \in Seq(TsBytes) /\ Len(Del(<<>>, 0)) = Len(<<>>) - 0
    BY <2>1, DelIs
  <2>3. Len(Del(<<>>, 0)) = 0
    BY <2>1, <2>2
  <2> QED
    BY <2>2, <2>3, EmptySeq
<1>3. CASE ClearBuffer
  <2>1. tsBuffer' = <<>> /\ bytesDelivered' = 0
    BY <1>3 DEF ClearBuffer, ResetDelivered
  <2> QED
    BY <1>1, <1>2, <2>1 DEF Rest
<1>4. CASE OpenDvr \/ CloseDvr
  <2>1. UNCHANGED <<tsBuffer, bytesDelivered>> /\ (Opened' => Opened)
    BY <1>4 DEF OpenDvr, CloseDvr, Opened
  <2> QED
    BY <1>1, <2>1 DEF Rest
<1>5. CASE SetPowerSaveMode
  <2>1. ~Opened'
    BY <1>5 DEF SetPowerSaveMode, Opened
  <2> QED
    BY <1>1, <2>1 DEF Rest
<1> QED
  BY <1>3, <1>4, <1>5

\* An empty buffer is in order.
LEMMA OpenCloseOrder ==
  ASSUME Inv, OrderOK, ClearBuffer \/ OpenDvr \/ CloseDvr \/ SetPowerSaveMode
  PROVE  OrderOK'
<1>1. /\ UNCHANGED <<writing, batch, sock, packets, late, faults>>
      /\ UNCHANGED <<secBuffer, filtered, out>>
      /\ tsBuffer' \in {tsBuffer, <<>>} /\ Rest' \in {Rest, <<>>}
  BY RestAfter
<1>2. Fits(tsBuffer, Flow, packets) => Fits(tsBuffer', Flow, packets)
  BY <1>1, EmptyIs DEF Fits
<1>3. \A m : Passed(m, Rest, Flow, packets) => Passed(m, Rest', Flow, packets)
  BY <1>1, EmptyIs DEF Passed
<1> QED
  BY <1>1, <1>2, <1>3, DeviceOrder

\* What GetData() finds is the end of the buffer.
LEMMA RestFits ==
  ASSUME Inv
  PROVE  /\ Rest \in Seq(TsBytes) /\ Len(Rest) \in Nat
         /\ Fits(tsBuffer, Flow, packets) => Fits(Rest, Flow, packets)
<1>1. CASE Opened
  <2>1. /\ tsBuffer \in Seq(TsBytes) /\ bytesDelivered \in 0 .. Len(tsBuffer)
        /\ Rest = Del(tsBuffer, bytesDelivered)
    BY <1>1, FlowNow, RestIs
  <2> QED
    BY <2>1, FlowIsDeleted, RestIs
<1>2. CASE ~Opened
  <2>1. Rest = <<>>
    BY <1>2, RestIs
  <2> QED
    BY <2>1, RestIs, EmptyIs DEF Fits
<1> QED
  BY <1>1, <1>2

\* What is delivered is the packet that comes next.
LEMMA GetPacketOrder ==
  ASSUME Inv, OrderOK, GetPacket
  PROVE  OrderOK'
<1>1. /\ UNCHANGED <<writing, batch, sock, packets, late, faults>>
      /\ UNCHANGED <<secBuffer, filtered>> /\ tsBuffer' = Rest
      /\ Len(Rest) >= TsSize /\ Sync(Rest[1])
      /\ \/ /\ lent' = SubSeq(Rest, 1, TsSize) /\ out' = Append(out, lent')
            /\ bytesDelivered' = TsSize
         \/ bytesDelivered' = 0 /\ UNCHANGED out
      /\ Opened'
  BY DEF GetPacket, Gets, DeliverDeferred, Opened, network, kernel, poller, section
<1>2. /\ Rest \in Seq(TsBytes) /\ Len(Rest) \in Nat /\ packets \in Nat
      /\ Flow \in Flows /\ out \in Seq(Seq(TsBytes))
      /\ Fits(tsBuffer, Flow, packets) => Fits(Rest, Flow, packets)
  BY RestFits, FlowNow DEF Inv, TypeOK, DeviceOK
<1>3. TsSize \in 1 .. Len(Rest) /\ TsSize \in 0 .. Len(Rest) /\ 0 \in 0 .. Len(Rest)
  BY <1>1, <1>2, ReceiveAssumption
<1>4. CASE bytesDelivered' = 0 /\ UNCHANGED out
  <2>1. Rest' = Del(Rest, 0)
    BY <1>1, <1>4 DEF Rest
  <2>2. \A m : Passed(m, Rest, Flow, packets) => Passed(m, Rest', Flow, packets)
    BY <1>2, <1>3, <2>1, FlowIsDeleted
  <2> QED
    BY <1>1, <1>2, <1>4, <2>2, DeviceOrder
<1>5. CASE /\ lent' = SubSeq(Rest, 1, TsSize) /\ out' = Append(out, lent')
           /\ bytesDelivered' = TsSize
  <2> SUFFICES ASSUME "shuffled" \notin faults PROVE OrderOK'
    BY <1>1 DEF OrderOK
  <2>1. Rest' = Del(Rest, TsSize) /\ Flow' = Flow
    BY <1>1, <1>5 DEF Rest, Flow
  <2>2. Fits(Rest, Flow, packets)
    BY <1>2 DEF OrderOK
  <2>3. /\ Passed(Rest[1][1], Rest', Flow, packets)
        /\ \A m : Passed(m, Rest, Flow, packets) => m < Rest[1][1]
    BY <1>1, <1>2, <2>1, <2>2, FlowIsTaken
  <2>4. \A m : Passed(m, Rest, Flow, packets) => Passed(m, Rest', Flow, packets)
    BY <1>2, <1>3, <2>1, FlowIsDeleted
  <2>5. lent'[1] = Rest[1] /\ lent' \in Seq(TsBytes)
    <3>1. /\ SubSeq(Rest, 1, TsSize) \in Seq(TsBytes)
          /\ \A i \in 1 .. TsSize : SubSeq(Rest, 1, TsSize)[i] = Rest[i]
      BY <1>2, <1>3, Parts
    <3>2. 1 \in 1 .. TsSize
      BY <1>3
    <3> QED
      BY <1>5, <3>1, <3>2
  <2>6. /\ Len(out') = Len(out) + 1 /\ Len(out) \in Nat
        /\ \A i \in 1 .. Len(out) : out'[i] = out[i]
        /\ out'[Len(out) + 1] = lent'
    BY <1>2, <1>5, <2>5, AppendProperties
  <2>7. \A i \in 1 .. Len(out') :
          \/ i \in 1 .. Len(out) /\ out'[i] = out[i]
          \/ i = Len(out) + 1 /\ out'[i][1] = Rest[1]
    BY <2>5, <2>6
  <2>8. ASSUME NEW i \in 1 .. Len(out')
        PROVE  Passed(out'[i][1][1], Rest', Flow, packets)
    BY <2>3, <2>4, <2>7 DEF OrderOK
  <2>9. ASSUME NEW i \in 1 .. Len(out'), NEW j \in 1 .. Len(out'), i < j
        PROVE  out'[i][1][1] < out'[j][1][1]
    <3>1. i \in 1 .. Len(out) /\ out'[i] = out[i]
      BY <2>6, <2>7, <2>9
    <3>2. CASE j \in 1 .. Len(out) /\ out'[j] = out[j]
      BY <2>9, <3>1, <3>2 DEF OrderOK
    <3>3. CASE out'[j][1] = Rest[1]
      BY <2>3, <3>1, <3>3 DEF OrderOK
    <3> QED
      BY <2>7, <3>2, <3>3
  <2> QED
    BY <1>1, <2>1, <2>2, <2>8, <2>9 DEF OrderOK
<1> QED
  BY <1>1, <1>4, <1>5

\* Skipping to a sync byte only deletes.
LEMMA GetNothingOrder ==
  ASSUME Inv, OrderOK, GetNothing
  PROVE  OrderOK'
<1>1. /\ UNCHANGED <<writing, batch, sock, packets, late, faults>>
      /\ UNCHANGED <<secBuffer, filtered, out>> /\ bytesDelivered' = 0
      /\ \/ tsBuffer' = Rest
         \/ Len(Rest) >= TsSize /\ tsBuffer' = SkipToSync(Rest)
      /\ Opened'
  BY DEF GetNothing, Gets, Opened, network, kernel, poller, section
<1>2. /\ Rest \in Seq(TsBytes) /\ Len(Rest) \in Nat
      /\ Fits(tsBuffer, Flow, packets) => Fits(Rest, Flow, packets)
  BY RestFits
<1>3. \E k \in 0 .. Len(Rest) : tsBuffer' = Del(Rest, k)
  <2>1. CASE tsBuffer' = Rest
    <3>1. /\ Del(Rest, 0) \in Seq(TsBytes) /\ Len(Del(Rest, 0)) = Len(Rest)
          /\ \A i \in 1 .. Len(Rest) : Del(Rest, 0)[i] = Rest[i]
      <4>1. 0 \in 0 .. Len(Rest)
        BY <1>2
      <4>2. /\ Del(Rest, 0) \in Seq(TsBytes) /\ Len(Del(Rest, 0)) = Len(Rest) - 0
            /\ \A i \in 1 .. Len(Rest) - 0 : Del(Rest, 0)[i] = Rest[0 + i]
        BY <1>2, <4>1, DelIs
      <4> QED
        BY <1>2, <4>2
    <3>2. Del(Rest, 0) = Rest
      BY <1>2, <3>1, SeqEqual
    <3> QED
      BY <1>2, <2>1, <3>2
  <2>2. CASE Len(Rest) >= TsSize /\ tsBuffer' = SkipToSync(Rest)
    <3>1. Rest # <<>>
      BY <2>2, ReceiveAssumption, EmptySeq
    <3> QED
      BY <1>2, <2>2, <3>1, SkipIs
  <2> QED
    BY <1>1, <2>1, <2>2
<1>4. PICK k \in 0 .. Len(Rest) : tsBuffer' = Del(Rest, k)
  BY <1>3
<1>5. Fits(tsBuffer, Flow, packets) => Fits(tsBuffer', Flow, packets)
  BY <1>2, <1>4, FlowIsDeleted
<1>6. tsBuffer' \in Seq(TsBytes) /\ 0 \in 0 .. Len(tsBuffer')
  <2>1. tsBuffer' \in Seq(TsBytes)
    BY <1>2, <1>4, DelIs
  <2> QED
    BY <2>1
<1>7. \A m : Passed(m, Rest, Flow, packets) => Passed(m, Rest', Flow, packets)
  <2>1. Rest' = Del(tsBuffer', 0)
    BY <1>1 DEF Rest
  <2> QED
    BY <1>2, <1>4, <1>6, <2>1, FlowIsDeleted
<1> QED
  BY <1>1, <1>5, <1>7, DeviceOrder

\* The section filters are given the packet that comes next.
LEMMA FilterPacketOrder ==
  ASSUME Inv, OrderOK, FilterPacket
  PROVE  OrderOK'
<1>1. /\ UNCHANGED <<writing, batch, sock, packets, late, faults>>
      /\ UNCHANGED <<dvrIsOpen, cleared, tsBuffer, bytesDelivered, out>> /\ Len(secBuffer) >= TsSize
      /\ \/ /\ Sync(secBuffer[1]) /\ filtered' = secBuffer[1][1]
            /\ secBuffer' = Del(secBuffer, TsSize)
         \/ secBuffer' = SkipToSync(secBuffer) /\ UNCHANGED filtered
  BY DEF FilterPacket, Gets, network, kernel, poller, dvr
<1>2. /\ secBuffer \in Seq(TsBytes) /\ Len(secBuffer) \in Nat /\ packets \in Nat
      /\ Flow \in Flows /\ TsSize \in 0 .. Len(secBuffer)
  BY <1>1, FlowNow, ReceiveAssumption
<1>3. Flow' = Flow /\ Rest' = Rest
  BY <1>1 DEF Flow, Rest, Opened
<1> SUFFICES ASSUME "shuffled" \notin faults PROVE OrderOK'
  BY <1>1 DEF OrderOK
<1>4. Fits(secBuffer, Flow, packets) /\ Passed(filtered, secBuffer, Flow, packets)
  BY DEF OrderOK
<1>5. CASE /\ Sync(secBuffer[1]) /\ filtered' = secBuffer[1][1]
           /\ secBuffer' = Del(secBuffer, TsSize)
  <2>1. Fits(secBuffer', Flow, packets)
    BY <1>2, <1>4, <1>5, FlowIsDeleted
  <2>2. Passed(filtered', secBuffer', Flow, packets)
    BY <1>1, <1>2, <1>4, <1>5, FlowIsTaken
  <2> QED
    BY <1>1, <1>3, <2>1, <2>2 DEF OrderOK
<1>6. CASE secBuffer' = SkipToSync(secBuffer) /\ UNCHANGED filtered
  <2>1. secBuffer # <<>>
    BY <1>1, ReceiveAssumption, EmptySeq
  <2>2. PICK k \in 1 .. Len(secBuffer) : SkipToSync(secBuffer) = Del(secBuffer, k)
    BY <1>2, <2>1, SkipIs
  <2>3. k \in 0 .. Len(secBuffer)
    BY <1>2
  <2>4. Fits(secBuffer', Flow, packets) /\ Passed(filtered, secBuffer', Flow, packets)
    BY <1>2, <1>4, <1>6, <2>2, <2>3, FlowIsDeleted
  <2> QED
    BY <1>1, <1>3, <1>6, <2>4 DEF OrderOK
<1> QED
  BY <1>1, <1>5, <1>6

\* The payload at hand leaves the flow.
LEMMA WriteDataFlow ==
  ASSUME Inv, WriteData
  PROVE  /\ Flow \in Flows /\ Len(Flow) >= 1 /\ Flow[1] = writing
         /\ Flow' \in Flows /\ Len(Flow') = Len(Flow) /\ Flow'[1] = <<>>
         /\ \A i \in 2 .. Len(Flow) : Flow'[i] = Flow[i]
<1>1. /\ writing \in Seq(TsBytes) /\ <<>> \in Seq(TsBytes)
      /\ batch \in Seq(DatagramType) /\ sock \in Seq(DatagramType)
  BY FlowNow
<1> DEFINE F == FlowOf(writing, batch, sock)
           G == FlowOf(<<>>, batch, sock)
<1>2. F \in Flows /\ Len(F) = 1 + Len(batch) + Len(sock)
  BY <1>1, FlowIs
<1>3. G \in Flows /\ Len(G) = 1 + Len(batch) + Len(sock)
  BY <1>1, FlowIs
<1>4. F[1] = writing
  BY <1>1, FlowIs
<1>5. G[1] = <<>>
  BY <1>1, FlowIs
<1>6. Len(batch) \in Nat /\ Len(sock) \in Nat
  BY <1>1
<1>7. \A i \in 2 .. Len(F) : G[i] = F[i]
  <2>1. 2 .. Len(F) \subseteq 1 .. 1 + Len(batch) + Len(sock)
        /\ \A i \in 2 .. Len(F) : i # 1
    BY <1>2, <1>6
  <2> QED
    BY <2>1 DEF FlowOf
<1>8. Flow = F /\ Flow' = G
  BY DEF Flow, WriteData, kernel
<1> HIDE DEF F, G
<1> QED
  BY <1>2, <1>3, <1>4, <1>5, <1>6, <1>7, <1>8

\* What finds room in the TS buffer is added to what GetData() finds.
LEMMA RestPut ==
  ASSUME Inv, Inv', UNCHANGED bytesDelivered, tsBuffer' = Put(tsBuffer, writing),
         Opened, Opened'
  PROVE  /\ Rest \in Seq(TsBytes) /\ Rest' \in Seq(TsBytes)
         /\ Len(Rest') \in Len(Rest) .. Len(Rest) + Len(writing)
         /\ \A i \in 1 .. Len(Rest') :
              Rest'[i] = IF i =< Len(Rest) THEN Rest[i] ELSE writing[i - Len(Rest)]
         /\ Len(tsBuffer') - Len(tsBuffer) = Len(Rest') - Len(Rest)
<1>1. /\ writing \in Seq(TsBytes) /\ Len(writing) \in Nat
      /\ tsBuffer \in Seq(TsBytes) /\ Len(tsBuffer) =< Capacity
      /\ bytesDelivered \in 0 .. Len(tsBuffer) /\ Len(tsBuffer) \in Nat
      /\ bytesDelivered' \in 0 .. Len(tsBuffer')
  <2>1. DeviceOK /\ DeviceOK' /\ TsSize \in Nat
    BY ReceiveAssumption DEF Inv, TypeOK
  <2>2. /\ tsBuffer \in Seq(TsBytes) /\ Len(tsBuffer) =< Capacity
        /\ bytesDelivered \in 0 .. Len(tsBuffer)
    BY <2>1, FlowNow, RestIs DEF DeviceOK
  <2>3. bytesDelivered' \in 0 .. Len(tsBuffer')
    BY <2>1 DEF DeviceOK
  <2> QED
    BY <2>2, <2>3, FlowNow
<1>9. Rest = Del(tsBuffer, bytesDelivered) /\ Rest' = Del(tsBuffer', bytesDelivered')
  BY DEF Rest
<1> DEFINE r == Rest
           q == Rest'
           k == bytesDelivered
<1>2. /\ tsBuffer' \in Seq(TsBytes) /\ Len(tsBuffer') \in Nat
      /\ Len(tsBuffer') \in Len(tsBuffer) .. Len(tsBuffer) + Len(writing)
      /\ \A i \in 1 .. Len(tsBuffer') :
           tsBuffer'[i] = IF i =< Len(tsBuffer) THEN tsBuffer[i]
                          ELSE writing[i - Len(tsBuffer)]
  BY <1>1, PutIs
<1>3. /\ r \in Seq(TsBytes) /\ Len(r) = Len(tsBuffer) - k
      /\ \A i \in 1 .. Len(tsBuffer) - k : r[i] = tsBuffer[k + i]
  BY <1>1, <1>9, DelIs
<1>4. q = Del(tsBuffer', k) /\ k \in 0 .. Len(tsBuffer')
  BY <1>1, <1>9
<1>5. /\ q \in Seq(TsBytes) /\ Len(q) = Len(tsBuffer') - k
      /\ \A i \in 1 .. Len(tsBuffer') - k : q[i] = tsBuffer'[k + i]
  <2> DEFINE t == tsBuffer'
  <2>1. t \in Seq(TsBytes) /\ k \in 0 .. Len(t)
    BY <1>2, <1>4
  <2> HIDE DEF t, k
  <2>2. /\ Del(t, k) \in Seq(TsBytes) /\ Len(Del(t, k)) = Len(t) - k
        /\ \A i \in 1 .. Len(t) - k : Del(t, k)[i] = t[k + i]
    BY <2>1, DelIs
  <2> QED
    BY <1>4, <2>2 DEF t
<1> HIDE DEF r, q, k
<1>6. k \in Nat /\ k =< Len(tsBuffer)
  BY <1>1 DEF k
<1>7. /\ Len(q) \in Len(r) .. Len(r) + Len(writing)
      /\ Len(tsBuffer') - Len(tsBuffer) = Len(q) - Len(r)
  BY <1>1, <1>2, <1>3, <1>5, <1>6
<1>8. \A i \in 1 .. Len(q) : q[i] = IF i =< Len(r) THEN r[i]
                                  ELSE writing[i - Len(r)]
  <2> SUFFICES ASSUME NEW i \in 1 .. Len(q)
               PROVE  q[i] = IF i =< Len(r) THEN r[i] ELSE writing[i - Len(r)]
    OBVIOUS
  <2>1. k + i \in 1 .. Len(tsBuffer') /\ q[i] = tsBuffer'[k + i]
    BY <1>2, <1>5, <1>6
  <2>2. CASE i =< Len(r)
    <3>1. k + i =< Len(tsBuffer) /\ i \in 1 .. Len(tsBuffer) - k
      BY <1>1, <1>3, <1>6, <2>2
    <3>2. tsBuffer'[k + i] = tsBuffer[k + i]
      BY <1>2, <2>1, <3>1
    <3> QED
      BY <1>3, <2>1, <2>2, <3>1, <3>2
  <2>3. CASE ~(i =< Len(r))
    <3>1. ~(k + i =< Len(tsBuffer)) /\ (k + i) - Len(tsBuffer) = i - Len(r)
      BY <1>1, <1>3, <1>6, <2>3
    <3>2. tsBuffer'[k + i] = writing[(k + i) - Len(tsBuffer)]
      BY <1>2, <2>1, <3>1
    <3> QED
      BY <2>1, <2>3, <3>1, <3>2
  <2> QED
    BY <2>2, <2>3
<1> QED
  BY <1>3, <1>5, <1>7, <1>8 DEF r, q

\* What finds room goes to the end of the buffers.
LEMMA WriteDataOrder ==
  ASSUME Inv, Inv', OrderOK, WriteData
  PROVE  OrderOK'
<1>1. /\ UNCHANGED <<packets, late, faults>>
      /\ UNCHANGED <<bytesDelivered, filtered, out>> /\ Opened' = Opened
      /\ tsBuffer' \in {tsBuffer, Put(tsBuffer, writing)}
      /\ secBuffer' = Put(secBuffer, writing)
  BY DEF WriteData, Opened, network
<1>2. /\ writing \in Seq(TsBytes)
      /\ tsBuffer \in Seq(TsBytes) /\ Len(tsBuffer) =< Capacity
      /\ secBuffer \in Seq(TsBytes) /\ Len(secBuffer) =< Capacity
  BY FlowNow DEF Inv, TypeOK, DeviceOK
<1> DEFINE F == Flow
           G == Flow'
<1>3. /\ F \in Flows /\ Len(F) >= 1 /\ F[1] = writing
      /\ G \in Flows /\ Len(G) = Len(F) /\ G[1] = <<>>
      /\ \A i \in 2 .. Len(F) : G[i] = F[i]
  BY WriteDataFlow
<1> HIDE DEF F, G
<1>4. Flow = F /\ Flow' = G
  BY DEF F, G
<1>5. ASSUME NEW r \in Seq(TsBytes), Len(r) =< Capacity
      PROVE  /\ Steady(F, packets) /\ Fits(r, F, packets)
                => Fits(Put(r, writing), G, packets)
             /\ \A m : Passed(m, r, F, packets) => Passed(m, Put(r, writing), G, packets)
  <2> DEFINE q == Put(r, writing)
  <2>1. /\ q \in Seq(TsBytes) /\ Len(q) \in Len(r) .. Len(r) + Len(writing)
        /\ \A i \in 1 .. Len(q) : q[i] = IF i =< Len(r) THEN r[i]
                                        ELSE writing[i - Len(r)]
    BY <1>2, <1>5, PutIs
  <2> HIDE DEF q
  <2>2. /\ Steady(F, packets) /\ Fits(r, F, packets) => Fits(q, G, packets)
        /\ \A m : Passed(m, r, F, packets) => Passed(m, q, G, packets)
    BY <1>3, <1>5, <2>1, FlowIsPut
  <2> QED
    BY <2>2 DEF q
<1>6. /\ Len(F) \in Nat /\ Len(G) + 0 =< Len(F) /\ 0 \in {0, 1}
      /\ \A i \in 1 .. Len(G) : G[i] = <<>> \/ G[i] = F[i + 0]
  <2>1. Len(F) \in Nat
    BY <1>3 DEF Flows
  <2>2. ASSUME NEW i \in 1 .. Len(G) PROVE G[i] = <<>> \/ G[i] = F[i + 0]
    <3>1. (i = 1 \/ i \in 2 .. Len(F)) /\ i + 0 = i
      BY <1>3, <2>1
    <3> QED
      BY <1>3, <3>1
  <2> QED
    BY <1>3, <2>1, <2>2
<1>7. /\ Steady(F, packets) => Steady(G, packets)
      /\ \A r : Fits(r, F, packets) => Fits(r, G, packets)
      /\ \A m, r : Passed(m, r, F, packets) => Passed(m, r, G, packets)
  BY <1>3, <1>6, FlowShrinks
<1>8. Steady(F, packets) /\ Fits(tsBuffer, F, packets) => Fits(tsBuffer', G, packets)
  BY <1>1, <1>2, <1>5, <1>7
<1>9. \A m : Passed(m, Rest, F, packets) => Passed(m, Rest', G, packets)
  <2>1. CASE tsBuffer' = tsBuffer \/ ~Opened
    <3>1. Rest' = Rest
      BY <1>1, <2>1 DEF Rest
    <3> QED
      BY <1>7, <3>1
  <2>2. CASE tsBuffer' = Put(tsBuffer, writing) /\ Opened
    <3> DEFINE r == Rest
               q == Rest'
    <3>1. /\ r \in Seq(TsBytes) /\ q \in Seq(TsBytes)
          /\ Len(q) \in Len(r) .. Len(r) + Len(writing)
          /\ \A i \in 1 .. Len(q) : q[i] = IF i =< Len(r) THEN r[i]
                                          ELSE writing[i - Len(r)]
      BY <1>1, <2>2, RestPut
    <3> HIDE DEF r, q
    <3>2. \A m : Passed(m, r, F, packets) => Passed(m, q, G, packets)
      BY <1>3, <3>1, FlowIsPut
    <3> QED
      BY <3>2 DEF r, q
  <2> QED
    BY <1>1, <2>1, <2>2
<1> SUFFICES ASSUME "shuffled" \notin faults PROVE OrderOK'
  BY <1>1 DEF OrderOK
<1>10. /\ late = None /\ Steady(F, packets)
       /\ Fits(tsBuffer, F, packets) /\ Fits(secBuffer, F, packets)
       /\ Passed(filtered, secBuffer, F, packets)
       /\ \A i \in 1 .. Len(out) : Passed(out[i][1][1], Rest, F, packets)
       /\ \A i, j \in 1 .. Len(out) : i < j => out[i][1][1] < out[j][1][1]
  BY <1>4 DEF OrderOK
<1>11. Fits(secBuffer', G, packets) /\ Passed(filtered, secBuffer', G, packets)
  BY <1>1, <1>2, <1>5, <1>10
<1> QED
  BY <1>1, <1>4, <1>7, <1>8, <1>9, <1>10, <1>11 DEF OrderOK

\* Numbers are ordered by quotient and remainder.
LEMMA QuotientsRise ==
  ASSUME NEW t \in Nat \ {0}, NEW a \in Nat, NEW b \in Nat,
         NEW r \in 0 .. t - 1, NEW s \in 0 .. t - 1, t * a + r < t * b + s
  PROVE  a < b \/ (a = b /\ r < s)
<1>1. CASE a = b
  <2>1. t * b \in Nat
    OBVIOUS
  <2> QED
    BY <1>1, <2>1
<1>2. CASE b < a
  <2>1. PICK d \in Nat : a = b + 1 + d
    <3>1. a - b - 1 \in Nat /\ a = b + 1 + (a - b - 1)
      BY <1>2
    <3> QED
      BY <3>1
  <2>2. t * a = t * b + t + t * d
    BY <2>1
  <2>3. t * d \in Nat /\ t * b \in Nat
    BY <2>1
  <2> DEFINE x == t * a
             y == t * b
             z == t * d
  <2>4. x = y + t + z /\ z \in Nat /\ y \in Nat /\ x + r < y + s
    BY <2>2, <2>3
  <2> HIDE DEF x, y, z
  <2> QED
    BY <2>4
<1> QED
  BY <1>1, <1>2

\* The bytes the server sends are in order.
LEMMA BytesRise ==
  ASSUME NEW n \in Nat, NEW k \in Nat
  PROVE  /\ Rising(Bytes(n, k))
         /\ \A i \in 1 .. Len(Bytes(n, k)) :
              n < Bytes(n, k)[i][1] /\ Bytes(n, k)[i][1] =< n + k
<1> DEFINE b == Bytes(n, k)
           q(i) == (i - 1) \div TsSize
           r(i) == (i - 1) % TsSize
<1>1. TsSize \in Nat \ {0} /\ k * TsSize \in Nat
  BY ReceiveAssumption
<1>2. Len(b) = k * TsSize
  BY BytesIs
<1>3. ASSUME NEW i \in 1 .. Len(b)
      PROVE  /\ b[i][1] = n + 1 + q(i) /\ b[i][2] = 1 + r(i)
             /\ q(i) \in 0 .. k - 1 /\ r(i) \in 0 .. TsSize - 1
             /\ i - 1 = TsSize * q(i) + r(i)
  <2>1. i \in 1 .. k * TsSize /\ i - 1 \in Nat
    BY <1>1, <1>2
  <2>2. /\ b[i] = <<n + 1 + q(i), 1 + r(i)>>
        /\ q(i) \in 0 .. k - 1 /\ r(i) \in 0 .. TsSize - 1
    BY <2>1, BytesIs
  <2>3. i - 1 = TsSize * ((i - 1) \div TsSize) + ((i - 1) % TsSize)
    BY <1>1, <2>1, DivMod
  <2> QED
    BY <2>2, <2>3
<1> HIDE DEF b, q, r
<1>4. Len(b) \in Nat
  BY <1>1, <1>2
<1>5. ASSUME NEW i \in 1 .. Len(b), NEW j \in 1 .. Len(b), i < j
      PROVE  Less(b[i], b[j])
  <2>1. /\ q(i) \in Nat /\ r(i) \in 0 .. TsSize - 1 /\ i - 1 = TsSize * q(i) + r(i)
        /\ q(j) \in Nat /\ r(j) \in 0 .. TsSize - 1 /\ j - 1 = TsSize * q(j) + r(j)
    BY <1>3
  <2>2. TsSize * q(i) + r(i) < TsSize * q(j) + r(j)
    BY <1>4, <1>5, <2>1
  <2>3. q(i) < q(j) \/ (q(i) = q(j) /\ r(i) < r(j))
    BY <1>1, <2>1, <2>2, QuotientsRise
  <2>4. /\ b[i][1] = n + 1 + q(i) /\ b[i][2] = 1 + r(i)
        /\ b[j][1] = n + 1 + q(j) /\ b[j][2] = 1 + r(j)
    BY <1>3
  <2>5. \/ n + 1 + q(i) < n + 1 + q(j)
        \/ q(i) = q(j) /\ 1 + r(i) < 1 + r(j)
    <3>1. \A c, d \in Nat : c < d => n + 1 + c < n + 1 + d /\ 1 + c < 1 + d
      OBVIOUS
    <3>2. r(i) \in Nat /\ r(j) \in Nat
      BY <1>1, <2>1
    <3> QED
      BY <2>1, <2>3, <3>1, <3>2
  <2> QED
    BY <2>4, <2>5 DEF Less
<1>6. ASSUME NEW i \in 1 .. Len(b)
      PROVE  n < b[i][1] /\ b[i][1] =< n + k
  BY <1>3
<1> QED
  BY <1>5, <1>6 DEF Rising, b

\* So is a part of them.
LEMMA FrontRises ==
  ASSUME NEW r \in Seq(TsBytes), NEW k \in 0 .. Len(r), NEW n, NEW m, Rising(r),
         \A i \in 1 .. Len(r) : n < r[i][1] /\ r[i][1] =< m
  PROVE  /\ Rising(SubSeq(r, 1, k))
         /\ \A i \in 1 .. Len(SubSeq(r, 1, k)) :
              n < SubSeq(r, 1, k)[i][1] /\ SubSeq(r, 1, k)[i][1] =< m
<1> DEFINE q == SubSeq(r, 1, k)
<1>1. Len(q) = k /\ Len(r) \in Nat /\ \A i \in 1 .. k : q[i] = r[i]
  <2>1. Len(q) = k /\ \A i \in 1 .. k : q[i] = r[i]
    BY Parts
  <2> QED
    BY <2>1
<1> HIDE DEF q
<1>2. \A i \in 1 .. Len(q) : i \in 1 .. Len(r) /\ q[i] = r[i]
  BY <1>1
<1>3. Rising(q)
  BY <1>2 DEF Rising
<1> QED
  BY <1>2, <1>3 DEF q

\* What arrives is added to the end of the flow, as far as there is room.
LEMMA ArrivalFlow ==
  ASSUME Inv, Inv', NEW ds \in Seq(DatagramType), sock' = sock \/ Arrive(ds),
         UNCHANGED <<writing, batch>>
  PROVE  /\ Flow \in Flows /\ Flow' \in Flows
         /\ Len(Flow') \in Len(Flow) .. Len(Flow) + Len(ds)
         /\ \A i \in 1 .. Len(Flow) : Flow'[i] = Flow[i]
         /\ \A i \in 1 .. Len(Flow') :
              \/ i \in 1 .. Len(Flow)
              \/ \E j \in 1 .. Len(ds) : i = Len(Flow) + j /\ Flow'[i] = ds[j].bytes
<1>1. /\ writing \in Seq(TsBytes) /\ batch \in Seq(DatagramType)
      /\ sock \in Seq(DatagramType) /\ sock' \in Seq(DatagramType)
      /\ Len(batch) \in Nat /\ Len(sock) \in Nat /\ Len(sock') \in Nat
      /\ Len(ds) \in Nat /\ KernelOK
  BY FlowNow DEF Inv, TypeOK, KernelOK
<1>2. /\ Len(sock') \in Len(sock) .. Len(sock) + Len(ds)
      /\ \A i \in 1 .. Len(sock) : sock'[i] = sock[i]
      /\ \A i \in 1 .. Len(sock') :
           \/ i \in 1 .. Len(sock)
           \/ i - Len(sock) \in 1 .. Len(ds) /\ sock'[i] = ds[i - Len(sock)]
  <2> DEFINE u == sock'
  <2> SUFFICES /\ Len(u) \in Len(sock) .. Len(sock) + Len(ds)
               /\ \A i \in 1 .. Len(sock) : u[i] = sock[i]
               /\ \A i \in 1 .. Len(u) :
                    \/ i \in 1 .. Len(sock)
                    \/ i - Len(sock) \in 1 .. Len(ds) /\ u[i] = ds[i - Len(sock)]
    OBVIOUS
  <2>3. u = sock'
    OBVIOUS
  <2> HIDE DEF u
  <2>1. CASE sock' = sock
    <3>1. u = sock
      BY <2>1, <2>3
    <3>2. Len(sock) \in Len(sock) .. Len(sock) + Len(ds)
      BY <1>1
    <3> QED
      BY <3>1, <3>2, Zenon
  <2>2. CASE Arrive(ds)
    <3>1. PICK n \in 0 .. Len(ds) : sock' = sock \o SubSeq(ds, 1, n)
      BY <1>1, <2>2, ArriveIs
    <3> DEFINE t == SubSeq(ds, 1, n)
    <3>2. t \in Seq(DatagramType) /\ Len(t) = n /\ \A i \in 1 .. n : t[i] = ds[i]
      BY <1>1, <3>1, Parts
    <3>3. sock' = sock \o t
      BY <3>1
    <3> HIDE DEF t
    <3>4. /\ sock \o t \in Seq(DatagramType) /\ Len(sock \o t) = Len(sock) + Len(t)
          /\ \A i \in 1 .. Len(sock) + Len(t) :
               (sock \o t)[i] = IF i <= Len(sock) THEN sock[i] ELSE t[i - Len(sock)]
      BY <1>1, <3>2, ConcatProperties
    <3>5. u = sock \o t /\ Len(u) = Len(sock) + n
      BY <2>3, <3>2, <3>3, <3>4
    <3>6. \A i \in 1 .. Len(u) : u[i] = IF i <= Len(sock) THEN sock[i] ELSE t[i - Len(sock)]
      BY <3>2, <3>4, <3>5
    <3>7. n \in Nat /\ n =< Len(ds)
      BY <1>1
    <3>8. \A i \in 1 .. Len(sock) : u[i] = sock[i]
      BY <1>1, <3>5, <3>6, <3>7
    <3>9. ASSUME NEW i \in 1 .. Len(u), i \notin 1 .. Len(sock)
          PROVE  i - Len(sock) \in 1 .. Len(ds) /\ u[i] = ds[i - Len(sock)]
      <4>1. i - Len(sock) \in 1 .. n /\ i - Len(sock) \in 1 .. Len(ds) /\ ~(i <= Len(sock))
        BY <1>1, <3>5, <3>7, <3>9
      <4> QED
        BY <3>2, <3>6, <4>1
    <3>10. Len(u) \in Len(sock) .. Len(sock) + Len(ds)
      BY <1>1, <3>5, <3>7
    <3> QED
      BY <3>8, <3>9, <3>10, Zenon
  <2> QED
    BY <2>1, <2>2
<1> DEFINE F == FlowOf(writing, batch, sock)
           G == FlowOf(writing, batch, sock')
<1>10. /\ writing \in Seq(TsBytes) /\ batch \in Seq(DatagramType)
       /\ sock \in Seq(DatagramType)
  BY <1>1
<1>11. /\ writing \in Seq(TsBytes) /\ batch \in Seq(DatagramType)
       /\ sock' \in Seq(DatagramType)
  BY <1>1
<1>3. /\ F \in Flows /\ Len(F) = 1 + Len(batch) + Len(sock)
      /\ \A i \in 1 .. Len(sock) : F[1 + Len(batch) + i] = sock[i].bytes
  <2>1. F \in Flows /\ Len(F) = 1 + Len(batch) + Len(sock)
    BY <1>10, FlowIs
  <2>2. \A i \in 1 .. Len(sock) : F[1 + Len(batch) + i] = sock[i].bytes
    BY <1>10, FlowIs
  <2> QED
    BY <2>1, <2>2
<1>4. /\ G \in Flows /\ Len(G) = 1 + Len(batch) + Len(sock')
      /\ \A i \in 1 .. Len(sock') : G[1 + Len(batch) + i] = sock'[i].bytes
  <2>1. G \in Flows /\ Len(G) = 1 + Len(batch) + Len(sock')
    BY <1>11, FlowIs
  <2>2. \A i \in 1 .. Len(sock') : G[1 + Len(batch) + i] = sock'[i].bytes
    BY <1>11, FlowIs
  <2> QED
    BY <2>1, <2>2
<1>5. \A i \in 1 .. 1 + Len(batch) : G[i] = F[i]
  <2>1. ASSUME NEW i \in 1 .. 1 + Len(batch)
        PROVE  /\ i \in 1 .. 1 + Len(batch) + Len(sock)
               /\ i \in 1 .. 1 + Len(batch) + Len(sock')
               /\ i = 1 \/ i - 1 =< Len(batch)
    BY <1>1
  <2> QED
    BY <2>1 DEF FlowOf
<1>6. Flow = F /\ Flow' = G
  BY DEF Flow
<1> HIDE DEF F, G
<1>7. Len(G) \in Len(F) .. Len(F) + Len(ds)
  BY <1>1, <1>2, <1>3, <1>4
<1>8. ASSUME NEW i \in 1 .. Len(F) PROVE G[i] = F[i]
  <2>1. CASE i =< 1 + Len(batch)
    BY <1>1, <1>3, <1>5, <2>1
  <2>2. CASE ~(i =< 1 + Len(batch))
    <3>1. PICK j \in 1 .. Len(sock) : i = 1 + Len(batch) + j
      <4>1. i - 1 - Len(batch) \in 1 .. Len(sock)
            /\ i = 1 + Len(batch) + (i - 1 - Len(batch))
        BY <1>1, <1>3, <2>2
      <4> QED
        BY <4>1
    <3>2. j \in 1 .. Len(sock')
      BY <1>1, <1>2
    <3>3. sock'[j] = sock[j]
      BY <1>2
    <3> QED
      BY <1>3, <1>4, <3>1, <3>2, <3>3
  <2> QED
    BY <2>1, <2>2
<1>9. ASSUME NEW i \in 1 .. Len(G), i \notin 1 .. Len(F)
      PROVE  \E j \in 1 .. Len(ds) : i = Len(F) + j /\ G[i] = ds[j].bytes
  <2> DEFINE j == i - Len(F)
  <2>1. /\ Len(sock) + j \in 1 .. Len(sock') /\ i = 1 + Len(batch) + (Len(sock) + j)
        /\ Len(sock) + j \notin 1 .. Len(sock) /\ (Len(sock) + j) - Len(sock) = j
        /\ i = Len(F) + j
    BY <1>1, <1>3, <1>4, <1>9
  <2> HIDE DEF j
  <2>2. j \in 1 .. Len(ds) /\ sock'[Len(sock) + j] = ds[j]
    BY <1>2, <2>1
  <2>3. G[i] = sock'[Len(sock) + j].bytes
    BY <1>4, <2>1
  <2> QED
    BY <2>1, <2>2, <2>3
<1> QED
  BY <1>3, <1>4, <1>6, <1>7, <1>8, <1>9

\* A datagram of new packets at the end of the socket's queue keeps the order.
LEMMA ArrivalOrder ==
  ASSUME Inv, Inv', OrderOK, NEW x \in DatagramType,
         sock' = sock \/ Arrive(<<x>>), late' = late, faults' \in {faults, faults \cup {"cut"}},
         packets =< packets', Rising(x.bytes),
         \A i \in 1 .. Len(x.bytes) :
           packets < x.bytes[i][1] /\ x.bytes[i][1] =< packets',
         UNCHANGED <<writing, batch>>,
         UNCHANGED <<dvrIsOpen, cleared, tsBuffer, bytesDelivered>>,
         UNCHANGED <<secBuffer, filtered, out>>
  PROVE  OrderOK'
<1>1. packets \in Nat /\ tsBuffer \in Seq(TsBytes) /\ secBuffer \in Seq(TsBytes)
  BY FlowNow
<1>2. packets' \in Nat
  BY DEF Inv, TypeOK, NetworkOK
<1>3. <<x>> \in Seq(DatagramType) /\ Len(<<x>>) = 1 /\ <<x>>[1] = x
  OBVIOUS
<1> DEFINE F == Flow
           G == Flow'
<1>4. /\ F \in Flows /\ G \in Flows
      /\ Len(G) \in Len(F) .. Len(F) + Len(<<x>>)
      /\ \A i \in 1 .. Len(F) : G[i] = F[i]
      /\ \A i \in 1 .. Len(G) :
           \/ i \in 1 .. Len(F)
           \/ \E j \in 1 .. Len(<<x>>) : i = Len(F) + j /\ G[i] = <<x>>[j].bytes
  BY <1>3, ArrivalFlow
<1>7. Flow = F /\ Flow' = G /\ Rest' = Rest
  BY DEF Rest, Opened
<1> HIDE DEF F, G
<1>5. \A i \in 1 .. Len(F) : G[i] = F[i]
  BY <1>4
<1>6. \/ Len(G) = Len(F)
      \/ Len(G) = Len(F) + 1 /\ G[Len(G)] = x.bytes
  <2>1. Len(F) \in Nat /\ Len(G) \in {Len(F), Len(F) + 1}
    BY <1>3, <1>4 DEF Flows
  <2>2. CASE Len(G) = Len(F) + 1
    <3>1. Len(G) \in 1 .. Len(G) /\ Len(G) \notin 1 .. Len(F)
      BY <2>1, <2>2
    <3>2. PICK j \in 1 .. Len(<<x>>) : G[Len(G)] = <<x>>[j].bytes
      BY <1>4, <3>1
    <3>3. j = 1
      BY <1>3
    <3> QED
      BY <1>3, <2>2, <3>2, <3>3
  <2> QED
    BY <2>1, <2>2
<1>8. Rest \in Seq(TsBytes)
  BY RestIs
<1>9. \/ Len(G) = Len(F)
      \/ /\ Len(G) = Len(F) + 1 /\ Rising(G[Len(G)])
         /\ \A i \in 1 .. Len(G[Len(G)]) :
              packets < G[Len(G)][i][1] /\ G[Len(G)][i][1] =< packets'
  BY <1>6
<1>10. /\ Steady(F, packets) => Steady(G, packets')
       /\ \A r \in Seq(TsBytes) : Fits(r, F, packets) => Fits(r, G, packets')
       /\ \A m, r : Passed(m, r, F, packets) => Passed(m, r, G, packets')
  <2> DEFINE n == packets
             n2 == packets'
  <2>1. n \in Nat /\ n2 \in Nat /\ n =< n2
    BY <1>1, <1>2
  <2>2. \/ Len(G) = Len(F)
        \/ /\ Len(G) = Len(F) + 1 /\ Rising(G[Len(G)])
           /\ \A i \in 1 .. Len(G[Len(G)]) :
                n < G[Len(G)][i][1] /\ G[Len(G)][i][1] =< n2
    BY <1>9
  <2> HIDE DEF n, n2
  <2>3. /\ Steady(F, n) => Steady(G, n2)
        /\ \A r \in Seq(TsBytes) : Fits(r, F, n) => Fits(r, G, n2)
        /\ \A m, r : Passed(m, r, F, n) => Passed(m, r, G, n2)
    BY <1>4, <1>5, <2>1, <2>2, FlowGrows
  <2> QED
    BY <2>3 DEF n, n2
<1> SUFFICES ASSUME "shuffled" \notin faults PROVE OrderOK'
  BY DEF OrderOK
<1>11. /\ late = None /\ Steady(F, packets)
       /\ Fits(tsBuffer, F, packets) /\ Fits(secBuffer, F, packets)
       /\ Passed(filtered, secBuffer, F, packets)
       /\ \A i \in 1 .. Len(out) : Passed(out[i][1][1], Rest, F, packets)
       /\ \A i, j \in 1 .. Len(out) : i < j => out[i][1][1] < out[j][1][1]
  BY <1>7 DEF OrderOK
<1>12. /\ late' = None /\ Steady(G, packets')
       /\ Fits(tsBuffer', G, packets') /\ Fits(secBuffer', G, packets')
       /\ Passed(filtered', secBuffer', G, packets')
  BY <1>1, <1>10, <1>11
<1>13. \A i \in 1 .. Len(out) : Passed(out[i][1][1], Rest, G, packets')
  BY <1>10, <1>11
<1> QED
  BY <1>7, <1>11, <1>12, <1>13 DEF OrderOK

\* Unless the network reorders or repeats datagrams, a new one is of that kind.
LEMMA SendOrder ==
  ASSUME Inv, Inv', OrderOK, Send
  PROVE  OrderOK'
<1> SUFFICES ASSUME "shuffled" \notin faults' PROVE OrderOK'
  BY DEF OrderOK
<1>1. PICK k \in Loads :
        LET bytes == Bytes(packets, k)
            d == Datagram(bytes)
        IN  /\ packets' = packets + k
            /\ \/ Arrive(<<d>>) /\ UNCHANGED <<late, faults>>
               \/ UNCHANGED <<sock, late, faults>>
               \/ faults' = faults \cup {"shuffled"}
               \/ /\ Arrive(<<[d EXCEPT !.bytes = <<>>]>>)
                  /\ UNCHANGED <<late, faults>>
               \/ /\ Arrive(<<[d EXCEPT !.bytes = Front(bytes)]>>)
                  /\ faults' = faults \cup {"cut"} /\ UNCHANGED late
  BY Zenon DEF Send
<1>2. /\ UNCHANGED <<writing, batch>>
      /\ UNCHANGED <<dvrIsOpen, cleared, tsBuffer, bytesDelivered>>
      /\ UNCHANGED <<secBuffer, filtered, out>>
  BY DEF Send, poller, dvr, section
<1> DEFINE bytes == Bytes(packets, k)
           d == Datagram(bytes)
           e == [d EXCEPT !.bytes = <<>>]
           f == [d EXCEPT !.bytes = Front(bytes)]
<1>3. d \in DatagramType /\ e \in DatagramType /\ f \in DatagramType
  BY SendDatagrams
<1>4. d.bytes = bytes /\ e.bytes = <<>> /\ f.bytes = Front(bytes)
  BY DEF Datagram
<1>5. /\ packets' = packets + k
      /\ \/ Arrive(<<d>>) /\ UNCHANGED <<late, faults>>
         \/ UNCHANGED <<sock, late, faults>>
         \/ faults' = faults \cup {"shuffled"}
         \/ Arrive(<<e>>) /\ UNCHANGED <<late, faults>>
         \/ Arrive(<<f>>) /\ faults' = faults \cup {"cut"} /\ UNCHANGED late
  BY <1>1, Zenon
<1>6. packets \in Nat /\ k \in Nat \ {0} /\ packets =< packets'
  <2>1. packets \in Nat /\ k \in Nat \ {0}
    BY ReceiveAssumption DEF Inv, TypeOK, NetworkOK
  <2> QED
    BY <1>5, <2>1
<1>7. /\ bytes \in Seq(TsBytes) /\ Rising(bytes)
      /\ \A i \in 1 .. Len(bytes) : packets < bytes[i][1] /\ bytes[i][1] =< packets'
  BY <1>5, <1>6, BytesIs, BytesRise
<1>8. /\ Rising(Front(bytes))
      /\ \A i \in 1 .. Len(Front(bytes)) :
           packets < Front(bytes)[i][1] /\ Front(bytes)[i][1] =< packets'
  <2>1. Len(bytes) - 1 \in 0 .. Len(bytes)
    <3>1. k * TsSize \in Nat \ {0}
      BY <1>6, ReceiveAssumption
    <3>2. Len(bytes) = k * TsSize
      BY <1>6, BytesIs
    <3> QED
      BY <3>1, <3>2
  <2> HIDE DEF bytes
  <2>2. Front(bytes) = SubSeq(bytes, 1, Len(bytes) - 1)
    BY DEF Front
  <2> QED
    BY <1>7, <2>1, <2>2, FrontRises
<1>9. /\ Rising(<<>>) /\ 1 .. Len(<<>>) = {}
  BY EmptySeq, EmptyIs
<1> HIDE DEF bytes, d, e, f
<1>10. CASE Arrive(<<d>>) /\ UNCHANGED <<late, faults>>
  BY <1>2, <1>3, <1>4, <1>6, <1>7, <1>10, ArrivalOrder
<1>11. CASE UNCHANGED <<sock, late, faults>>
  BY <1>2, <1>3, <1>4, <1>6, <1>7, <1>11, ArrivalOrder
<1>12. CASE Arrive(<<e>>) /\ UNCHANGED <<late, faults>>
  BY <1>2, <1>3, <1>4, <1>6, <1>9, <1>12, ArrivalOrder
<1>13. CASE Arrive(<<f>>) /\ faults' = faults \cup {"cut"} /\ UNCHANGED late
  BY <1>2, <1>3, <1>4, <1>6, <1>8, <1>13, ArrivalOrder
<1> QED
  BY <1>5, <1>10, <1>11, <1>12, <1>13

\* What was held up arrives out of order.
LEMMA LateArrivalOrder ==
  ASSUME OrderOK, LateArrival
  PROVE  OrderOK'
<1>1. late # None /\ UNCHANGED faults
  BY DEF LateArrival
<1> QED
  BY <1>1 DEF OrderOK

-----------------------------------------------------------------------------
\* At first nothing is on its way.
LEMMA InitOrder == Init => OrderOK
<1> SUFFICES ASSUME Init PROVE OrderOK
  OBVIOUS
<1>1. /\ writing = <<>> /\ batch = <<>> /\ sock = <<>> /\ packets = 0 /\ late = None
      /\ tsBuffer = <<>> /\ secBuffer = <<>> /\ bytesDelivered = 0 /\ out = <<>>
      /\ filtered = 0 /\ Inv
  BY InitInv DEF Init
<1>2. Len(Flow) = 1 /\ Flow[1] = <<>>
  <2>1. /\ writing \in Seq(TsBytes) /\ batch \in Seq(DatagramType)
        /\ sock \in Seq(DatagramType)
    BY <1>1, FlowNow
  <2>2. Len(batch) = 0 /\ Len(sock) = 0
    BY <1>1, EmptySeq
  <2>3. Len(Flow) = 1 + Len(batch) + Len(sock)
    BY <1>1, FlowNow
  <2>4. Flow[1] = writing
    BY <2>1, FlowIs DEF Flow
  <2> QED
    BY <1>1, <2>2, <2>3, <2>4
<1>3. \A i \in 1 .. Len(Flow) : Flow[i] = <<>>
  BY <1>2
<1>4. Steady(Flow, packets)
  BY <1>3, EmptyIs DEF Steady
<1>5. Fits(<<>>, Flow, packets) /\ Passed(0, <<>>, Flow, packets)
  BY <1>1, <1>3, EmptyIs DEF Fits, Passed
<1>6. 1 .. Len(out) = {}
  BY <1>1, EmptySeq
<1> QED
  BY <1>1, <1>4, <1>5, <1>6 DEF OrderOK

\* Every step keeps the order.
LEMMA NextOrder == Inv /\ OrderOK /\ [Next]_vars => OrderOK'
<1> SUFFICES ASSUME Inv, OrderOK, [Next]_vars PROVE OrderOK'
  OBVIOUS
<1>1. Inv'
  BY NextInv
<1>2. CASE UNCHANGED vars
  <2>1. UNCHANGED <<network, kernel, poller, dvr, section>>
    BY <1>2 DEF vars
  <2>2. /\ UNCHANGED <<writing, batch, sock, packets, late, faults>>
        /\ UNCHANGED <<dvrIsOpen, cleared, tsBuffer, bytesDelivered>>
        /\ UNCHANGED <<secBuffer, filtered, out>>
    BY <2>1 DEF network, kernel, poller, dvr, section
  <2> QED
    BY <2>2, QuietOrder
<1>3. CASE Restart \/ SendReport
  <2>1. /\ UNCHANGED <<writing, batch, sock, packets, late, faults>>
        /\ UNCHANGED <<dvrIsOpen, cleared, tsBuffer, bytesDelivered>>
        /\ UNCHANGED <<secBuffer, filtered, out>>
    BY <1>3 DEF Restart, SendReport, kernel, poller, dvr, section
  <2> QED
    BY <2>1, QuietOrder
<1>4. CASE Wait \/ NextEvent \/ BatchDone \/ ReadReport
  <2>1. /\ UNCHANGED <<writing, batch, sock, packets, late, faults>>
        /\ UNCHANGED <<dvrIsOpen, cleared, tsBuffer, bytesDelivered>>
        /\ UNCHANGED <<secBuffer, filtered, out>>
    BY <1>4 DEF Wait, NextEvent, BatchDone, ReadReport, network, kernel, dvr, section
  <2> QED
    BY <2>1, QuietOrder
<1> QED
  BY <1>1, <1>2, <1>3, <1>4, SendOrder, LateArrivalOrder, ReadMultiOrder,
     ProcessDatagramOrder, WriteDataOrder, OpenCloseOrder, GetPacketOrder,
     GetNothingOrder, FilterPacketOrder DEF Next, Poll

\* As long as the network keeps the order, VDR and the section filters get the
\* packets in order and none twice: socket.c, rtp.c, device.c:597-663 and
\* sectionfilter.c.
THEOREM PacketsInOrder == Spec => []InOrder
<1>1. Spec => [](Inv /\ OrderOK)
  BY InitInv, InitOrder, NextInv, NextOrder, PTL DEF Spec
<1>2. Inv /\ OrderOK => InOrder
  <2> SUFFICES ASSUME Inv, OrderOK, "shuffled" \notin faults
               PROVE  /\ \A i, j \in DOMAIN out : i < j => out[i][1][1] < out[j][1][1]
                      /\ \A byte \in ToSet(secBuffer) : Sync(byte) => filtered < byte[1]
    BY DEF InOrder
  <2>1. DOMAIN out = 1 .. Len(out) /\ DOMAIN secBuffer = 1 .. Len(secBuffer)
    <3>1. out \in Seq(Seq(TsBytes)) /\ secBuffer \in Seq(TsBytes)
      BY DEF Inv, TypeOK, DeviceOK
    <3> QED
      BY <3>1
  <2>2. \A i, j \in DOMAIN out : i < j => out[i][1][1] < out[j][1][1]
    BY <2>1 DEF OrderOK
  <2>3. ASSUME NEW byte \in ToSet(secBuffer), Sync(byte)
        PROVE  filtered < byte[1]
    <3>1. PICK i \in 1 .. Len(secBuffer) : byte = secBuffer[i]
      BY <2>1 DEF ToSet
    <3> QED
      BY <2>3, <3>1 DEF OrderOK, Passed, Clear
  <2> QED
    BY <2>2, <2>3
<1> QED
  BY <1>1, <1>2, PTL

-----------------------------------------------------------------------------
(* Damage. *)

\* The places where a packet breaks off: the byte that should follow does not.
Breaks(r) ==
  {i \in 1 .. Len(r) :
     r[i][2] # TsSize /\ ~(i < Len(r) /\ r[i + 1] = <<r[i][1], r[i][2] + 1>>)}
Entire(r) == Whole(r) /\ Breaks(r) = {}

\* A payload breaks off at its end, if at all.
Payload(r) == Whole(r) /\ \A i \in Breaks(r) : i = Len(r)
Cut(F)     == {i \in 1 .. Len(F) : Breaks(F[i]) # {}}

DamagedIn(o) == {i \in DOMAIN o : o[i] # Packet(o[i][1][1])}

HasPacket(r, n) == \A b \in 1 .. TsSize : <<n, b>> \in ToSet(r)

\* Each break in the buffer, payload in the flow that breaks off and packet
\* that came out damaged has a cause of its own.
CountedOK ==
  /\ \A i \in 1 .. Len(Flow) : Payload(Flow[i])
  /\ late # None => Entire(late.bytes)
  /\ Cardinality(Damaged) + Cardinality(Breaks(Rest)) + Cardinality(Cut(Flow))
       =< upsets + splits

\* Unless the network cuts datagrams there are none.
UncutOK ==
  "cut" \notin faults =>
    /\ Entire(tsBuffer) /\ Entire(secBuffer) /\ Cut(Flow) = {} /\ splits = 0
    /\ \A n \in kept : n \in Nat \ {0} /\ (Packet(n) \in ToSet(out) \/ HasPacket(Rest, n))
DamageOK == CountedOK /\ UncutOK

-----------------------------------------------------------------------------
(* Packets and their places in a buffer. *)

\* A quotient and a remainder determine each other.
LEMMA DivModIs ==
  ASSUME NEW t \in Nat \ {0}, NEW n \in Nat, NEW q \in Nat, NEW r \in 0 .. t - 1,
         n = t * q + r
  PROVE  n \div t = q /\ n % t = r
<1> DEFINE a == n \div t
           s == n % t
<1>1. a \in Nat /\ s \in 0 .. t - 1 /\ n = t * a + s
  BY DivMod
<1> HIDE DEF a, s
<1>2. ~(t * a + s < t * q + r) /\ ~(t * q + r < t * a + s)
  <2> DEFINE x == t * a
             y == t * q
  <2>1. x \in Nat /\ y \in Nat /\ n = x + s /\ n = y + r
    BY <1>1
  <2> HIDE DEF x, y
  <2>2. ~(x + s < y + r) /\ ~(y + r < x + s)
    BY <1>1, <2>1
  <2> QED
    BY <2>2 DEF x, y
<1>3. \A c, d \in Nat : c < d => t * c + t =< t * d
  <2> SUFFICES ASSUME NEW c \in Nat, NEW d \in Nat, c < d
               PROVE  t * c + t =< t * d
    OBVIOUS
  <2>1. PICK e \in Nat : d = c + 1 + e
    <3>1. d - c - 1 \in Nat /\ d = c + 1 + (d - c - 1)
      OBVIOUS
    <3> QED
      BY <3>1
  <2>2. t * d = t * c + t + t * e /\ t * e \in Nat /\ t * c \in Nat
    BY <2>1
  <2> QED
    BY <2>2
<1>4. a = q
  <2> DEFINE x == t * a
             y == t * q
  <2>1. x \in Nat /\ y \in Nat /\ x + s = y + r
    BY <1>1
  <2>2. (a < q => x + t =< y) /\ (q < a => y + t =< x)
    BY <1>1, <1>3
  <2> HIDE DEF x, y
  <2>3. ~(a < q) /\ ~(q < a)
    BY <1>1, <2>1, <2>2
  <2> QED
    BY <1>1, <2>3
<1>5. s = r
  <2>1. t * q \in Nat /\ n = t * q + s
    BY <1>1, <1>4
  <2> QED
    BY <1>1, <2>1
<1> QED
  BY <1>4, <1>5 DEF a, s

\* Whole packets before a place do not matter.
LEMMA ModAdd ==
  ASSUME NEW t \in Nat \ {0}, NEW a \in Nat, NEW x \in Nat, a % t = 0
  PROVE  (a + x) % t = x % t
<1> DEFINE q == a \div t
           p == x \div t
           r == x % t
<1>1. q \in Nat /\ a = t * q
  BY DivMod
<1>2. p \in Nat /\ r \in 0 .. t - 1 /\ x = t * p + r
  BY DivMod
<1> HIDE DEF q, p, r
<1>3. t * q \in Nat /\ t * p \in Nat /\ t * (q + p) = t * q + t * p /\ q + p \in Nat
  BY <1>1, <1>2
<1>4. a + x = t * (q + p) + r /\ a + x \in Nat
  BY <1>1, <1>2, <1>3
<1>5. (a + x) % t = r
  BY <1>2, <1>3, <1>4, DivModIs
<1> QED
  BY <1>5 DEF r

\* The last byte of a packet is followed by whole packets only.
LEMMA ModLast ==
  ASSUME NEW t \in Nat \ {0}, NEW n \in Nat \ {0}
  PROVE  (n - 1) % t = t - 1 <=> n % t = 0
<1> DEFINE q == (n - 1) \div t
           s == (n - 1) % t
<1>1. q \in Nat /\ s \in 0 .. t - 1 /\ n - 1 = t * q + s
  <2>1. n - 1 \in Nat
    OBVIOUS
  <2> QED
    BY <2>1, DivMod
<1> HIDE DEF q, s
<1>2. CASE s = t - 1
  <2>1. t * (q + 1) = t * q + t /\ q + 1 \in Nat /\ t * q \in Nat /\ 0 \in 0 .. t - 1
    BY <1>1
  <2>2. n = t * (q + 1) + 0
    BY <1>1, <1>2, <2>1
  <2>3. n % t = 0
    BY <2>1, <2>2, DivModIs
  <2> QED
    BY <1>2, <2>3 DEF s
<1>3. CASE s # t - 1
  <2>1. s + 1 \in 0 .. t - 1 /\ t * q \in Nat
    BY <1>1, <1>3
  <2>2. n = t * q + (s + 1)
    BY <1>1, <2>1
  <2>3. n % t = s + 1
    BY <1>1, <2>1, <2>2, DivModIs
  <2> QED
    BY <1>1, <1>3, <2>3 DEF s
<1> QED
  BY <1>2, <1>3

\* A byte has the number of its packet and its place in it.
LEMMA ByteIs ==
  ASSUME NEW r \in Seq(TsBytes)
  PROVE  /\ Len(r) \in Nat /\ DOMAIN r = 1 .. Len(r)
         /\ \A i \in 1 .. Len(r) :
              /\ r[i][1] \in Nat \ {0} /\ r[i][2] \in 1 .. TsSize
              /\ r[i] = <<r[i][1], r[i][2]>>
<1>1. \A i \in 1 .. Len(r) : r[i] \in TsBytes
  BY ElementOfSeq
<1> QED
  BY <1>1, ReceiveAssumption DEF TsBytes

\* The bytes of a packet.
LEMMA PacketIs ==
  ASSUME NEW n \in Nat \ {0}
  PROVE  /\ Packet(n) \in Seq(TsBytes) /\ Len(Packet(n)) = TsSize
         /\ \A i \in 1 .. TsSize : Packet(n)[i] = <<n, i>>
<1>1. n - 1 \in Nat /\ (n - 1) + 1 = n /\ 1 * TsSize = TsSize /\ TsSize \in Nat \ {0}
  BY ReceiveAssumption
<1>2. Packet(n) \in Seq(TsBytes) /\ Len(Packet(n)) = TsSize
  BY <1>1, BytesIs DEF Packet
<1>3. ASSUME NEW i \in 1 .. TsSize
      PROVE  Packet(n)[i] = <<n, i>>
  <2>1. i - 1 \in Nat /\ i - 1 \in 0 .. TsSize - 1 /\ i - 1 = TsSize * 0 + (i - 1)
    BY <1>1
  <2>2. (i - 1) \div TsSize = 0 /\ (i - 1) % TsSize = i - 1
    BY <1>1, <2>1, DivModIs
  <2>3. Packet(n)[i] = <<(n - 1) + 1 + ((i - 1) \div TsSize), 1 + ((i - 1) % TsSize)>>
    BY <1>1, BytesIs DEF Packet
  <2> QED
    BY <1>1, <2>2, <2>3
<1> QED
  BY <1>2, <1>3

\* A packet that starts a buffer and does not break off is as it was sent.
LEMMA FirstPacket ==
  ASSUME NEW r \in Seq(TsBytes), Len(r) >= TsSize, Sync(r[1]),
         \A i \in 1 .. TsSize - 1 : i \notin Breaks(r)
  PROVE  /\ \A i \in 1 .. TsSize : r[i] = <<r[1][1], i>>
         /\ SubSeq(r, 1, TsSize) = Packet(r[1][1])
<1> DEFINE n == r[1][1]
           S == {i \in 1 .. TsSize : r[i] # <<n, i>>}
<1>1. /\ TsSize \in Nat \ {0} /\ Len(r) \in Nat /\ TsSize \in 0 .. Len(r)
      /\ 1 \in 1 .. Len(r) /\ 1 .. TsSize \subseteq 1 .. Len(r)
  BY ReceiveAssumption, ByteIs
<1>2. n \in Nat \ {0} /\ r[1] = <<n, 1>>
  BY <1>1, ByteIs DEF Sync
<1> HIDE DEF n
<1>3. S = {}
  <2> SUFFICES ASSUME S # {} PROVE FALSE
    OBVIOUS
  <2>1. S \in SUBSET Nat
    BY <1>1
  <2>2. PICK m \in S : \A j \in S : m =< j
    BY <2>1, LeastIn
  <2>3. m \in 1 .. TsSize /\ r[m] # <<n, m>>
    BY <2>2
  <2> HIDE DEF S
  <2>4. m # 1
    BY <1>2, <2>3
  <2>5. /\ m - 1 \in 1 .. TsSize - 1 /\ m - 1 \in 1 .. TsSize /\ ~(m =< m - 1)
        /\ (m - 1) + 1 = m /\ m - 1 < Len(r) /\ m - 1 # TsSize /\ m - 1 \in 1 .. Len(r)
    BY <1>1, <2>3, <2>4
  <2>6. m - 1 \notin S
    BY <2>2, <2>5
  <2>7. r[m - 1] = <<n, m - 1>>
    BY <2>5, <2>6 DEF S
  <2>8. m - 1 \notin Breaks(r)
    BY <2>5
  <2>9. r[(m - 1) + 1] = <<r[m - 1][1], r[m - 1][2] + 1>>
    BY <2>5, <2>7, <2>8 DEF Breaks
  <2> QED
    BY <2>3, <2>5, <2>7, <2>9
<1>4. \A i \in 1 .. TsSize : r[i] = <<n, i>>
  BY <1>3
<1> HIDE DEF S
<1>5. SubSeq(r, 1, TsSize) = Packet(n)
  <2>1. /\ SubSeq(r, 1, TsSize) \in Seq(TsBytes) /\ Len(SubSeq(r, 1, TsSize)) = TsSize
        /\ \A i \in 1 .. TsSize : SubSeq(r, 1, TsSize)[i] = r[i]
    BY <1>1, Parts
  <2>2. /\ Packet(n) \in Seq(TsBytes) /\ Len(Packet(n)) = TsSize
        /\ \A i \in 1 .. TsSize : Packet(n)[i] = <<n, i>>
    BY <1>2, PacketIs
  <2> QED
    BY <1>4, <2>1, <2>2, SeqEqual
<1> QED
  BY <1>4, <1>5 DEF n

\* What is left when bytes are deleted.
LEMMA DelBreaks ==
  ASSUME NEW r \in Seq(TsBytes), NEW k \in 0 .. Len(r)
  PROVE  /\ \A i \in Breaks(Del(r, k)) : i \in Nat /\ i + k \in Breaks(r)
         /\ Whole(r) /\ k % TsSize = 0 => Whole(Del(r, k))
<1> DEFINE q == Del(r, k)
<1>1. /\ q \in Seq(TsBytes) /\ Len(q) = Len(r) - k
      /\ \A i \in 1 .. Len(r) - k : q[i] = r[k + i]
  BY DelIs
<1>2. TsSize \in Nat \ {0} /\ Len(r) \in Nat /\ k \in Nat
  BY ReceiveAssumption
<1> HIDE DEF q
<1>3. ASSUME NEW i \in Breaks(q)
      PROVE  i \in Nat /\ i + k \in Breaks(r)
  <2>1. /\ i \in 1 .. Len(q) /\ q[i][2] # TsSize
        /\ ~(i < Len(q) /\ q[i + 1] = <<q[i][1], q[i][2] + 1>>)
    BY DEF Breaks
  <2>2. i \in 1 .. Len(r) - k /\ i \in Nat /\ i + k \in 1 .. Len(r) /\ k + i = i + k
    BY <1>1, <1>2, <2>1
  <2>3. q[i] = r[i + k]
    BY <1>1, <2>2
  <2>4. i + k < Len(r) => /\ i < Len(q) /\ i + 1 \in 1 .. Len(r) - k
                          /\ k + (i + 1) = (i + k) + 1
    BY <1>1, <1>2, <2>2
  <2>5. i + k < Len(r) => i < Len(q) /\ q[i + 1] = r[(i + k) + 1]
    BY <1>1, <2>4
  <2> QED
    BY <2>1, <2>2, <2>3, <2>5 DEF Breaks
<1>4. ASSUME Whole(r), k % TsSize = 0
      PROVE  Whole(q)
  <2> SUFFICES ASSUME NEW i \in 1 .. Len(q)
               PROVE  q[i][2] = 1 + ((i - 1) % TsSize)
    BY <1>1, ByteIs DEF Whole
  <2>1. /\ i \in 1 .. Len(r) - k /\ k + i \in 1 .. Len(r) /\ i - 1 \in Nat
        /\ (k + i) - 1 = k + (i - 1)
    BY <1>1, <1>2
  <2>2. r[k + i][2] = 1 + (((k + i) - 1) % TsSize)
    BY <1>4, <2>1, ByteIs DEF Whole
  <2>3. (k + (i - 1)) % TsSize = (i - 1) % TsSize
    BY <1>2, <1>4, <2>1, ModAdd
  <2> QED
    BY <1>1, <2>1, <2>2, <2>3
<1> QED
  BY <1>3, <1>4 DEF q

\* A buffer without a break holds whole packets.
LEMMA EntireIs ==
  ASSUME NEW r \in Seq(TsBytes), Entire(r)
  PROVE  /\ Len(r) % TsSize = 0
         /\ r # <<>> => Len(r) >= TsSize /\ Sync(r[1])
         /\ \A i \in 1 .. Len(r) : HasPacket(r, r[i][1])
<1> DEFINE l == Len(r)
           t == TsSize
<1>1. /\ t \in Nat \ {0} /\ l \in Nat /\ DOMAIN r = 1 .. l
      /\ \A i \in 1 .. l : r[i][2] = 1 + ((i - 1) % t)
  BY ReceiveAssumption, ByteIs DEF Entire, Whole
<1>2. l % t = 0
  <2>1. CASE l = 0
    <3>1. l = t * 0 + 0 /\ 0 \in Nat /\ 0 \in 0 .. t - 1
      BY <1>1, <2>1
    <3> QED
      BY <1>1, <3>1, DivModIs
  <2>2. CASE l # 0
    <3>1. l \in 1 .. l /\ l \in Nat \ {0} /\ ~(l < l)
      BY <1>1, <2>2
    <3>2. l \notin Breaks(r)
      BY DEF Entire
    <3>3. r[l][2] = t
      BY <3>1, <3>2 DEF Breaks
    <3>4. (l - 1) % t \in 0 .. t - 1
      <4>1. l - 1 \in Nat /\ t \in Nat \ {0}
        BY <1>1, <3>1
      <4> QED
        BY <4>1, DivMod
    <3>5. (l - 1) % t = t - 1
      BY <1>1, <3>1, <3>3, <3>4
    <3> QED
      BY <1>1, <3>1, <3>5, ModLast
  <2> QED
    BY <2>1, <2>2
<1>3. PICK Q \in Nat : l = t * Q
  <2> DEFINE q == l \div t
  <2>1. q \in Nat /\ l = t * q + (l % t)
    <3>1. l \in Nat /\ t \in Nat \ {0}
      BY <1>1
    <3> QED
      BY <3>1, DivMod
  <2> HIDE DEF q
  <2>2. t * q \in Nat /\ t \in Nat
    BY <1>1, <2>1
  <2>3. l = t * q
    BY <1>2, <2>1, <2>2
  <2> QED
    BY <2>1, <2>3
<1> HIDE DEF l, t
<1>4. ASSUME NEW i \in 1 .. l
      PROVE  HasPacket(r, r[i][1])
  <2> DEFINE q == (i - 1) \div t
             b == 1 + ((i - 1) % t)
  <2>1. q \in Nat /\ (i - 1) % t \in 0 .. t - 1 /\ i - 1 = t * q + ((i - 1) % t)
    <3>1. i - 1 \in Nat
      BY <1>1
    <3> QED
      BY <1>1, <3>1, DivMod
  <2>2. b \in 1 .. t /\ i = t * q + b /\ r[i][2] = b
    <3>1. t * q \in Nat
      BY <1>1, <2>1
    <3> QED
      BY <1>1, <2>1, <3>1
  <2> HIDE DEF q, b
  <2>3. q < Q
    <3> SUFFICES ASSUME ~(q < Q) PROVE FALSE
      OBVIOUS
    <3>1. PICK e \in Nat : q = Q + e
      <4>1. q - Q \in Nat /\ q = Q + (q - Q)
        BY <2>1
      <4> QED
        BY <4>1
    <3>2. t * q = t * Q + t * e /\ t * e \in Nat /\ t * Q \in Nat
      BY <1>1, <3>1
    <3> DEFINE x == t * Q
               y == t * e
               z == t * q
    <3>3. z = x + y /\ x \in Nat /\ y \in Nat /\ i = z + b /\ i =< x /\ b >= 1 /\ b \in Nat
      BY <1>1, <1>3, <2>2, <3>2
    <3> HIDE DEF x, y, z
    <3> QED
      BY <3>3
  <2> DEFINE s == t * q
  <2>4. s \in Nat /\ s + t =< l
    <3>1. PICK e \in Nat : Q = q + 1 + e
      <4>1. Q - q - 1 \in Nat /\ Q = q + 1 + (Q - q - 1)
        BY <2>1, <2>3
      <4> QED
        BY <4>1
    <3>2. t * Q = t * q + t + t * e /\ t * e \in Nat /\ t * q \in Nat
      BY <1>1, <2>1, <3>1
    <3> QED
      BY <1>1, <1>3, <3>2
  <2>5. s % t = 0
    <3>1. /\ s = t * q + 0 /\ 0 \in 0 .. t - 1 /\ s \in Nat /\ q \in Nat
          /\ t \in Nat \ {0}
      BY <1>1, <2>1, <2>4
    <3> HIDE DEF s
    <3> QED
      BY <3>1, DivModIs
  <2>6. i = s + b
    BY <2>2
  <2> HIDE DEF s
  <2> DEFINE d == Del(r, s)
  <2>7. /\ d \in Seq(TsBytes) /\ Len(d) = l - s
        /\ \A j \in 1 .. l - s : d[j] = r[s + j]
        /\ \A j \in Breaks(d) : j + s \in Breaks(r)
        /\ Whole(d)
    <3>1. s \in 0 .. Len(r)
      BY <1>1, <2>4 DEF l
    <3>2. /\ d \in Seq(TsBytes) /\ Len(d) = l - s
          /\ \A j \in 1 .. l - s : d[j] = r[s + j]
      BY <3>1, DelIs DEF l
    <3>3. /\ \A j \in Breaks(d) : j + s \in Breaks(r)
          /\ Whole(d)
      BY <2>5, <3>1, DelBreaks DEF Entire, t
    <3> QED
      BY <3>2, <3>3
  <2> HIDE DEF d
  <2>8. Breaks(d) = {}
    BY <2>7 DEF Entire
  <2>9. Len(d) >= t /\ 1 \in 1 .. Len(d) /\ 1 .. t \subseteq 1 .. l - s
    BY <1>1, <2>4, <2>7
  <2>10. Sync(d[1])
    <3>1. d[1][2] = 1 + ((1 - 1) % t)
      BY <2>7, <2>9, ByteIs DEF Whole, t
    <3>2. (1 - 1) = t * 0 + 0 /\ 0 \in 0 .. t - 1
      BY <1>1
    <3>3. (1 - 1) % t = 0
      BY <1>1, <3>2, DivModIs
    <3> QED
      BY <3>1, <3>3 DEF Sync
  <2>11. \A j \in 1 .. t : d[j] = <<d[1][1], j>>
    BY <2>7, <2>8, <2>9, <2>10, FirstPacket DEF t
  <2>12. \A j \in 1 .. t : r[s + j] = <<d[1][1], j>> /\ s + j \in 1 .. l
    <3> SUFFICES ASSUME NEW j \in 1 .. t
                 PROVE  r[s + j] = <<d[1][1], j>> /\ s + j \in 1 .. l
      OBVIOUS
    <3>1. j \in 1 .. l - s
      BY <2>9
    <3>2. s + j \in 1 .. l
      BY <1>1, <2>4
    <3> QED
      BY <2>7, <2>11, <3>1, <3>2
  <2>13. r[i][1] = d[1][1]
    BY <2>2, <2>6, <2>12
  <2> QED
    BY <1>1, <2>12, <2>13 DEF HasPacket, ToSet, t
<1>5. ASSUME r # <<>>
      PROVE  l >= t /\ Sync(r[1])
  <2>1. l # 0
    BY <1>5, EmptySeq DEF l
  <2>2. Q # 0
    BY <1>1, <1>3, <2>1
  <2>3. PICK e \in Nat : Q = 1 + e
    <3>1. Q - 1 \in Nat /\ Q = 1 + (Q - 1)
      BY <2>2
    <3> QED
      BY <3>1
  <2>4. t * Q = t + t * e /\ t * e \in Nat
    BY <1>1, <2>3
  <2>5. l >= t /\ 1 \in 1 .. l
    BY <1>1, <1>3, <2>1, <2>4
  <2>6. (1 - 1) = t * 0 + 0 /\ 0 \in 0 .. t - 1
    BY <1>1
  <2>7. (1 - 1) % t = 0
    BY <1>1, <2>6, DivModIs
  <2> QED
    BY <1>1, <2>5, <2>7 DEF Sync
<1> QED
  BY <1>2, <1>4, <1>5 DEF l, t

\* What the server sends in a datagram are whole packets.
LEMMA SentIs ==
  ASSUME NEW n \in Nat, NEW k \in Nat
  PROVE  Entire(Bytes(n, k))
<1> DEFINE r == Bytes(n, k)
           t == TsSize
<1>1. t \in Nat \ {0} /\ k * t \in Nat
  BY ReceiveAssumption
<1>2. r \in Seq(TsBytes) /\ Len(r) = k * t
  BY BytesIs
<1>3. \A i \in 1 .. k * t :
        r[i] = <<n + 1 + ((i - 1) \div t), 1 + ((i - 1) % t)>>
  BY BytesIs
<1>4. DOMAIN r = 1 .. k * t
  BY <1>2, ByteIs
<1> HIDE DEF r, t
<1>5. Whole(r)
  BY <1>3, <1>4 DEF Whole, t
<1>6. ASSUME NEW i \in Breaks(r)
      PROVE  FALSE
  <2>1. /\ i \in 1 .. k * t /\ r[i][2] # t
        /\ ~(i < k * t /\ r[i + 1] = <<r[i][1], r[i][2] + 1>>)
    BY <1>2 DEF Breaks, t
  <2> DEFINE a == (i - 1) \div t
             b == (i - 1) % t
  <2>2. a \in Nat /\ b \in 0 .. t - 1 /\ i - 1 = t * a + b
    <3>1. i - 1 \in Nat /\ t \in Nat \ {0}
      BY <1>1, <2>1
    <3> QED
      BY <3>1, DivMod
  <2>3. r[i] = <<n + 1 + a, 1 + b>>
    BY <1>3, <2>1
  <2> HIDE DEF a, b
  <2>4. b + 1 \in 0 .. t - 1
    BY <1>1, <2>1, <2>2, <2>3
  <2>5. /\ i \in Nat /\ t * a \in Nat /\ i = t * a + (b + 1)
        /\ t \in Nat \ {0}
    BY <1>1, <2>1, <2>2
  <2>6. i \div t = a /\ i % t = b + 1
    <3> DEFINE c == b + 1
    <3>1. a \in Nat /\ c \in 0 .. t - 1 /\ i \in Nat /\ i = t * a + c /\ t \in Nat \ {0}
      BY <2>2, <2>4, <2>5
    <3> HIDE DEF c
    <3>2. i \div t = a /\ i % t = c
      BY <3>1, DivModIs
    <3> QED
      BY <3>2 DEF c
  <2>7. i # k * t
    <3>1. SUFFICES ASSUME i = k * t PROVE FALSE
      OBVIOUS
    <3>2. i = t * k + 0 /\ 0 \in 0 .. t - 1
      BY <1>1, <3>1
    <3>3. i % t = 0
      BY <2>5, <3>2, DivModIs
    <3> QED
      BY <2>2, <2>6, <3>3
  <2>8. i < k * t /\ i + 1 \in 1 .. k * t /\ (i + 1) - 1 = i
    BY <1>1, <2>1, <2>7
  <2>9. r[i + 1] = <<n + 1 + a, 1 + (b + 1)>>
    BY <1>3, <2>6, <2>8
  <2>10. 1 + (b + 1) = (1 + b) + 1
    BY <2>2
  <2> QED
    BY <2>1, <2>3, <2>8, <2>9, <2>10
<1> QED
  BY <1>5, <1>6 DEF Entire, r

\* A datagram without payload.
LEMMA EmptyEntire == Entire(<<>>) /\ Breaks(<<>>) = {}
<1>1. 1 .. Len(<<>>) = {} /\ DOMAIN <<>> = {}
  BY EmptySeq
<1> QED
  BY <1>1 DEF Entire, Whole, Breaks

\* Where a buffer breaks off when the front of a payload is added to it.
LEMMA PutBreaks ==
  ASSUME NEW r \in Seq(TsBytes), NEW w \in Seq(TsBytes), NEW q \in Seq(TsBytes),
         Payload(w), Len(q) \in Len(r) .. Len(r) + Len(w),
         \A i \in 1 .. Len(q) : q[i] = IF i =< Len(r) THEN r[i] ELSE w[i - Len(r)]
  PROVE  /\ \A i \in Breaks(q) :
              \/ i \in Breaks(r)
              \/ /\ i = Len(q) /\ Len(q) > Len(r)
                 /\ \/ Len(q) = Len(r) + Len(w) /\ Breaks(w) # {}
                    \/ /\ Len(q) < Len(r) + Len(w)
                       /\ (Len(q) - Len(r)) % TsSize # 0
         /\ Whole(r) /\ Len(r) % TsSize = 0 => Whole(q)
<1> DEFINE l == Len(r)
           m == Len(q)
           z == Len(w)
           t == TsSize
<1>1. /\ l \in Nat /\ m \in Nat /\ z \in Nat /\ t \in Nat \ {0} /\ l =< m /\ m =< l + z
      /\ DOMAIN w = 1 .. z /\ DOMAIN q = 1 .. m /\ DOMAIN r = 1 .. l
  BY ReceiveAssumption, ByteIs
<1>2. \A i \in 1 .. m : q[i] = IF i =< l THEN r[i] ELSE w[i - l]
  OBVIOUS
<1>3. \A i \in 1 .. z : w[i][2] = 1 + ((i - 1) % t)
  BY <1>1 DEF Payload, Whole
<1>4. \A i \in 1 .. z : i = z \/ w[i][2] = t \/ w[i + 1] = <<w[i][1], w[i][2] + 1>>
  <2> SUFFICES ASSUME NEW i \in 1 .. z, i # z, w[i][2] # t
               PROVE  w[i + 1] = <<w[i][1], w[i][2] + 1>>
    OBVIOUS
  <2>1. i \notin Breaks(w)
    BY DEF Payload
  <2> QED
    BY <2>1 DEF Breaks
<1>5. /\ Breaks(r) = {i \in 1 .. l : r[i][2] # t
                        /\ ~(i < l /\ r[i + 1] = <<r[i][1], r[i][2] + 1>>)}
      /\ Breaks(q) = {i \in 1 .. m : q[i][2] # t
                        /\ ~(i < m /\ q[i + 1] = <<q[i][1], q[i][2] + 1>>)}
      /\ Breaks(w) = {i \in 1 .. z : w[i][2] # t
                        /\ ~(i < z /\ w[i + 1] = <<w[i][1], w[i][2] + 1>>)}
  BY DEF Breaks
<1> HIDE DEF l, m, z, t
<1>6. ASSUME NEW i \in Breaks(q)
      PROVE  \/ i \in Breaks(r)
             \/ /\ i = m /\ m > l
                /\ \/ m = l + z /\ Breaks(w) # {}
                   \/ m < l + z /\ (m - l) % t # 0
  <2>1. /\ i \in 1 .. m /\ q[i][2] # t
        /\ ~(i < m /\ q[i + 1] = <<q[i][1], q[i][2] + 1>>)
    BY <1>5
  <2>2. CASE i =< l
    <3>1. i \in 1 .. l /\ q[i] = r[i]
      BY <1>1, <1>2, <2>1, <2>2
    <3>2. i < l => i < m /\ i + 1 \in 1 .. m /\ i + 1 =< l
      BY <1>1, <2>1, <2>2
    <3>3. i < l => i < m /\ q[i + 1] = r[i + 1]
      BY <1>2, <3>2
    <3>4. ~(i < l /\ r[i + 1] = <<r[i][1], r[i][2] + 1>>)
      BY <2>1, <3>1, <3>3
    <3>5. r[i][2] # t
      BY <2>1, <3>1
    <3>6. i \in Breaks(r)
      BY <1>5, <3>1, <3>4, <3>5
    <3> QED
      BY <3>6
  <2>3. CASE ~(i =< l)
    <3> DEFINE j == i - l
    <3>1. j \in 1 .. z /\ j \in 1 .. m - l /\ i = l + j /\ m > l /\ j - 1 \in Nat
      BY <1>1, <2>1, <2>3
    <3>2. q[i] = w[j]
      BY <1>2, <2>1, <2>3
    <3> HIDE DEF j
    <3>3. i = m
      <4> SUFFICES ASSUME i # m PROVE FALSE
        OBVIOUS
      <4>1. i < m /\ i + 1 \in 1 .. m /\ ~(i + 1 =< l) /\ (i + 1) - l = j + 1 /\ j # z
        BY <1>1, <2>1, <3>1
      <4>2. q[i + 1] = w[j + 1]
        BY <1>2, <4>1
      <4>3. w[j + 1] = <<w[j][1], w[j][2] + 1>>
        BY <1>4, <2>1, <3>1, <3>2, <4>1
      <4> QED
        BY <2>1, <3>2, <4>1, <4>2, <4>3
    <3>4. j = m - l
      BY <1>1, <3>1, <3>3
    <3>5. CASE m = l + z
      <4>1. j = z /\ ~(j < z)
        BY <1>1, <3>4, <3>5
      <4>2. j \in Breaks(w)
        BY <1>5, <2>1, <3>1, <3>2, <4>1
      <4> QED
        BY <3>1, <3>3, <3>5, <4>2
    <3>6. CASE m # l + z
      <4>1. m < l + z /\ j \in Nat \ {0} /\ t \in Nat \ {0}
        BY <1>1, <3>1, <3>6
      <4>2. w[j][2] = 1 + ((j - 1) % t)
        BY <1>3, <3>1
      <4>3. (j - 1) % t # t - 1
        BY <2>1, <3>2, <4>1, <4>2
      <4>4. j % t # 0
        BY <4>1, <4>3, ModLast
      <4> QED
        BY <3>1, <3>3, <3>4, <4>1, <4>4
    <3> QED
      BY <3>5, <3>6
  <2> QED
    BY <2>2, <2>3
<1>7. ASSUME Whole(r), l % t = 0
      PROVE  Whole(q)
  <2>1. \A i \in 1 .. l : r[i][2] = 1 + ((i - 1) % t)
    BY <1>1, <1>7 DEF Whole, t
  <2>2. ASSUME NEW i \in 1 .. m
        PROVE  q[i][2] = 1 + ((i - 1) % t)
    <3>1. CASE i =< l
      <4>1. i \in 1 .. l /\ q[i] = r[i]
        BY <1>1, <1>2, <3>1
      <4> QED
        BY <2>1, <4>1
    <3>2. CASE ~(i =< l)
      <4>1. i - l \in 1 .. z /\ (i - l) - 1 \in Nat /\ i - 1 = l + ((i - l) - 1)
        BY <1>1, <3>2
      <4>2. (l + ((i - l) - 1)) % t = ((i - l) - 1) % t
        BY <1>1, <1>7, <4>1, ModAdd
      <4>3. q[i][2] = 1 + (((i - l) - 1) % t)
        BY <1>2, <1>3, <3>2, <4>1
      <4> QED
        BY <4>1, <4>2, <4>3
    <3> QED
      BY <3>1, <3>2
  <2> QED
    BY <1>1, <2>2 DEF Whole, t
<1> QED
  BY <1>6, <1>7 DEF l, m, z, t

\* The front of a payload is one.
LEMMA FrontIs ==
  ASSUME NEW w \in Seq(TsBytes), Payload(w), NEW n \in 0 .. Len(w)
  PROVE  Payload(SubSeq(w, 1, n))
<1> DEFINE q == SubSeq(w, 1, n)
<1>1. q \in Seq(TsBytes) /\ Len(q) = n /\ \A i \in 1 .. n : q[i] = w[i]
  BY Parts
<1>2. /\ <<>> \in Seq(TsBytes) /\ Len(<<>>) = 0 /\ Breaks(<<>>) = {} /\ Whole(<<>>)
  BY EmptySeq, EmptyEntire DEF Entire
<1>3. Len(w) \in Nat /\ n \in Nat
  OBVIOUS
<1> HIDE DEF q
<1>4. /\ Len(q) \in Len(<<>>) .. Len(<<>>) + Len(w)
      /\ \A i \in 1 .. Len(q) :
           q[i] = IF i =< Len(<<>>) THEN <<>>[i] ELSE w[i - Len(<<>>)]
  <2>1. Len(q) \in Len(<<>>) .. Len(<<>>) + Len(w)
    BY <1>1, <1>2, <1>3
  <2>2. ASSUME NEW i \in 1 .. Len(q)
        PROVE  q[i] = w[i - Len(<<>>)] /\ ~(i =< Len(<<>>))
    <3>1. i - Len(<<>>) = i /\ ~(i =< Len(<<>>)) /\ i \in 1 .. n
      BY <1>1, <1>2, <1>3
    <3> QED
      BY <1>1, <3>1
  <2> QED
    BY <2>1, <2>2
<1>5. \A i \in Breaks(q) : i = Len(q)
  BY <1>1, <1>2, <1>4, PutBreaks
<1>6. Len(<<>>) % TsSize = 0
  <2>1. 0 = TsSize * 0 + 0 /\ 0 \in 0 .. TsSize - 1 /\ TsSize \in Nat \ {0}
    BY ReceiveAssumption
  <2>2. 0 % TsSize = 0
    BY <2>1, DivModIs
  <2> QED
    BY <1>2, <2>2
<1>7. Whole(q)
  BY <1>1, <1>2, <1>4, <1>6, PutBreaks
<1> QED
  BY <1>5, <1>7 DEF Payload, q

-----------------------------------------------------------------------------
(* Counting. *)

\* There are finitely many breaks in a buffer,
LEMMA BreaksFinite ==
  ASSUME NEW r, Len(r) \in Nat
  PROVE  /\ Breaks(r) \in SUBSET Nat /\ IsFiniteSet(Breaks(r))
         /\ Cardinality(Breaks(r)) \in Nat
<1>1. Breaks(r) \in SUBSET (1 .. Len(r))
  BY DEF Breaks
<1>2. IsFiniteSet(1 .. Len(r))
  BY FS_Interval
<1>3. IsFiniteSet(Breaks(r))
  BY <1>1, <1>2, FS_Subset
<1> QED
  BY <1>1, <1>3, FS_CardinalityType

\* finitely many broken payloads,
LEMMA CutFinite ==
  ASSUME NEW F, Len(F) \in Nat
  PROVE  /\ Cut(F) \in SUBSET (1 .. Len(F)) /\ IsFiniteSet(Cut(F))
         /\ Cardinality(Cut(F)) \in Nat
<1>1. Cut(F) \in SUBSET (1 .. Len(F))
  BY DEF Cut
<1>2. IsFiniteSet(1 .. Len(F))
  BY FS_Interval
<1>3. IsFiniteSet(Cut(F))
  BY <1>1, <1>2, FS_Subset
<1> QED
  BY <1>1, <1>3, FS_CardinalityType

\* and finitely many damaged packets.
LEMMA DamagedFinite ==
  ASSUME NEW o \in Seq(Seq(TsBytes))
  PROVE  /\ DamagedIn(o) \in SUBSET (1 .. Len(o)) /\ IsFiniteSet(DamagedIn(o))
         /\ Cardinality(DamagedIn(o)) \in Nat
<1>1. DamagedIn(o) \in SUBSET (1 .. Len(o)) /\ Len(o) \in Nat
  BY DEF DamagedIn
<1>2. IsFiniteSet(1 .. Len(o))
  BY <1>1, FS_Interval
<1>3. IsFiniteSet(DamagedIn(o))
  BY <1>1, <1>2, FS_Subset
<1> QED
  BY <1>1, <1>3, FS_CardinalityType

\* Places that move on by k are not more than before, and fewer when one is left
\* out.
LEMMA MoveCount ==
  ASSUME NEW S \in SUBSET Nat, NEW T, IsFiniteSet(T), NEW k \in Nat,
         \A i \in S : i + k \in T
  PROVE  /\ IsFiniteSet(S) /\ Cardinality(S) \in Nat /\ Cardinality(T) \in Nat
         /\ Cardinality(S) =< Cardinality(T)
         /\ \A x \in T : (\A i \in S : i + k # x) => Cardinality(S) + 1 =< Cardinality(T)
<1>1. ASSUME NEW U, IsFiniteSet(U), \A i \in S : i + k \in U
      PROVE  /\ IsFiniteSet(S) /\ Cardinality(S) \in Nat
             /\ Cardinality(S) =< Cardinality(U)
  <2> DEFINE f == [i \in S |-> i + k]
  <2>1. f \in [S -> U]
    BY <1>1
  <2>2. \A i, j \in S : f[i] = f[j] => i = j
    <3> SUFFICES ASSUME NEW i \in S, NEW j \in S, i + k = j + k
                 PROVE  i = j
      OBVIOUS
    <3>1. i \in Nat /\ j \in Nat
      OBVIOUS
    <3> QED
      BY <3>1
  <2>3. f \in Injection(S, U)
    BY <2>1, <2>2 DEF Injection, IsInjective
  <2>4. IsFiniteSet(S) /\ Cardinality(S) =< Cardinality(U)
    BY <1>1, <2>3, FS_Injection
  <2> QED
    BY <2>4, FS_CardinalityType
<1>2. Cardinality(T) \in Nat
  BY FS_CardinalityType
<1>3. ASSUME NEW x \in T, \A i \in S : i + k # x
      PROVE  Cardinality(S) + 1 =< Cardinality(T)
  <2>1. /\ IsFiniteSet(T \ {x}) /\ Cardinality(T \ {x}) = Cardinality(T) - 1
    BY <1>3, FS_RemoveElement
  <2>2. \A i \in S : i + k \in T \ {x}
    BY <1>3
  <2>3. Cardinality(S) \in Nat /\ Cardinality(S) =< Cardinality(T \ {x})
    BY <1>1, <2>1, <2>2
  <2> QED
    BY <1>2, <2>1, <2>3
<1> QED
  BY <1>1, <1>2, <1>3

\* One more at most.
LEMMA OneMore ==
  ASSUME NEW S, NEW T, IsFiniteSet(T), NEW x, S \subseteq T \cup {x}
  PROVE  /\ IsFiniteSet(S) /\ Cardinality(S) \in Nat /\ Cardinality(T) \in Nat
         /\ Cardinality(S) =< Cardinality(T) + 1
         /\ S \subseteq T => Cardinality(S) =< Cardinality(T)
<1>1. /\ IsFiniteSet(T \cup {x}) /\ Cardinality(T) \in Nat
      /\ Cardinality(T \cup {x}) =< Cardinality(T) + 1
  <2>1. Cardinality(T) \in Nat
    BY FS_CardinalityType
  <2>2. IsFiniteSet(T \cup {x})
        /\ Cardinality(T \cup {x}) = IF x \in T THEN Cardinality(T) ELSE Cardinality(T) + 1
    BY FS_AddElement
  <2> QED
    BY <2>1, <2>2
<1>2. /\ IsFiniteSet(S) /\ Cardinality(S) =< Cardinality(T \cup {x})
  BY <1>1, FS_Subset
<1>3. Cardinality(S) \in Nat /\ Cardinality(T \cup {x}) \in Nat
  BY <1>1, <1>2, FS_CardinalityType
<1>4. S \subseteq T => Cardinality(S) =< Cardinality(T)
  BY FS_Subset
<1> QED
  BY <1>1, <1>2, <1>3, <1>4

-----------------------------------------------------------------------------
(* How the steps change it. *)

\* What is counted, in a state the program can be in.
LEMMA DamageNow ==
  ASSUME Inv
  PROVE  /\ tsBuffer \in Seq(TsBytes) /\ Len(tsBuffer) =< Capacity
         /\ secBuffer \in Seq(TsBytes) /\ Len(secBuffer) =< Capacity
         /\ bytesDelivered \in {0, TsSize}
         /\ Opened => bytesDelivered =< Len(tsBuffer)
         /\ Rest \in Seq(TsBytes) /\ out \in Seq(Seq(TsBytes))
         /\ Flow \in Flows /\ Len(Flow) \in Nat /\ Len(Rest) \in Nat
         /\ upsets \in Nat /\ splits \in Nat
         /\ IsFiniteSet(Damaged) /\ Cardinality(Damaged) \in Nat
         /\ IsFiniteSet(Breaks(Rest)) /\ Cardinality(Breaks(Rest)) \in Nat
         /\ IsFiniteSet(Cut(Flow)) /\ Cardinality(Cut(Flow)) \in Nat
<1>1. /\ tsBuffer \in Seq(TsBytes) /\ Len(tsBuffer) =< Capacity
      /\ secBuffer \in Seq(TsBytes) /\ Len(secBuffer) =< Capacity
      /\ bytesDelivered \in {0, TsSize}
      /\ Opened => bytesDelivered =< Len(tsBuffer)
      /\ out \in Seq(Seq(TsBytes)) /\ upsets \in Nat /\ splits \in Nat
  BY DEF Inv, TypeOK, NetworkOK, DeviceOK
<1>2. Rest \in Seq(TsBytes) /\ Len(Rest) \in Nat
  BY RestIs
<1>3. Flow \in Flows /\ Len(Flow) \in Nat
  <2>1. Flow \in Flows
    BY FlowNow
  <2> QED
    BY <2>1 DEF Flows
<1>4. IsFiniteSet(Damaged) /\ Cardinality(Damaged) \in Nat
  <2>1. Damaged = DamagedIn(out)
    BY DEF Damaged, DamagedIn
  <2> QED
    BY <1>1, <2>1, DamagedFinite
<1>5. IsFiniteSet(Breaks(Rest)) /\ Cardinality(Breaks(Rest)) \in Nat
  BY <1>2, BreaksFinite
<1>6. IsFiniteSet(Cut(Flow)) /\ Cardinality(Cut(Flow)) \in Nat
  BY <1>3, CutFinite
<1> QED
  BY <1>1, <1>2, <1>3, <1>4, <1>5, <1>6, Zenon

\* So does a step that changes none of it, or adds an upset.
LEMMA QuietDamage ==
  ASSUME Inv, Inv', DamageOK, upsets =< upsets',
         UNCHANGED <<writing, batch, sock, late, faults>>,
         UNCHANGED <<dvrIsOpen, cleared, tsBuffer, bytesDelivered>>,
         UNCHANGED <<secBuffer, out, kept, splits>>
  PROVE  DamageOK'
<1>1. Flow' = Flow /\ Rest' = Rest /\ Damaged' = Damaged
  BY DEF Flow, Rest, Opened, Damaged
<1> DEFINE n == Cardinality(Damaged) + Cardinality(Breaks(Rest)) + Cardinality(Cut(Flow))
<1>2. n \in Nat /\ upsets \in Nat /\ splits \in Nat
  BY DamageNow
<1>3. upsets' \in Nat
  BY DEF Inv, TypeOK, NetworkOK
<1>4. n =< upsets + splits
  BY DEF DamageOK, CountedOK
<1> HIDE DEF n
<1>5. n =< upsets' + splits
  <2> DEFINE v == upsets'
             u == upsets
             p == splits
  <2>1. n \in Nat /\ v \in Nat /\ u \in Nat /\ p \in Nat /\ u =< v /\ n =< u + p
    BY <1>2, <1>3, <1>4
  <2> HIDE DEF u, v, p
  <2>2. n =< v + p
    BY <2>1
  <2> QED
    BY <2>2 DEF v, p
<1>6. CountedOK'
  BY <1>1, <1>5 DEF DamageOK, CountedOK, n
<1>7. UncutOK'
  BY <1>1 DEF DamageOK, UncutOK
<1> QED
  BY <1>6, <1>7 DEF DamageOK

\* Datagrams that move on are broken where they were.
LEMMA ShrinkDamage ==
  ASSUME Inv, DamageOK, Flow \in Flows, Flow' \in Flows, NEW s \in {0, 1},
         Len(Flow') + s =< Len(Flow),
         \A i \in 1 .. Len(Flow') : Flow'[i] = Flow[i + s],
         UNCHANGED <<late, faults, upsets>>,
         UNCHANGED <<dvrIsOpen, cleared, tsBuffer, bytesDelivered>>,
         UNCHANGED <<secBuffer, out, kept, splits>>
  PROVE  DamageOK'
<1> DEFINE F == Flow
           G == Flow'
<1>1. /\ Len(F) \in Nat /\ Len(G) \in Nat /\ Len(G) + s =< Len(F) /\ s \in Nat
      /\ \A i \in 1 .. Len(G) : G[i] = F[i + s]
  BY DEF Flows
<1> HIDE DEF F, G
<1>2. Flow = F /\ Flow' = G /\ Rest' = Rest /\ Damaged' = Damaged
  BY DEF F, G, Rest, Opened, Damaged
<1>3. \A i \in 1 .. Len(G) : i + s \in 1 .. Len(F)
  BY <1>1
<1>4. \A i \in Cut(G) : i + s \in Cut(F)
  BY <1>1, <1>3 DEF Cut
<1>5. IsFiniteSet(Cut(F)) /\ Cut(G) \in SUBSET Nat
  BY <1>1, CutFinite
<1>6. /\ Cardinality(Cut(G)) =< Cardinality(Cut(F))
      /\ Cardinality(Cut(G)) \in Nat /\ Cardinality(Cut(F)) \in Nat
  BY <1>1, <1>4, <1>5, MoveCount
<1> DEFINE d == Cardinality(Damaged)
           b == Cardinality(Breaks(Rest))
           c == Cardinality(Cut(F))
           e == Cardinality(Cut(G))
<1>7. /\ d \in Nat /\ b \in Nat /\ c \in Nat /\ e \in Nat /\ e =< c
      /\ upsets \in Nat /\ splits \in Nat
  BY <1>6, DamageNow
<1>8. d + b + c =< upsets + splits
  BY <1>2 DEF DamageOK, CountedOK
<1> HIDE DEF d, b, c, e
<1>9. d + b + e =< upsets + splits
  BY <1>7, <1>8
<1>10. \A i \in 1 .. Len(G) : Payload(G[i])
  BY <1>1, <1>2, <1>3 DEF DamageOK, CountedOK
<1>11. CountedOK'
  BY <1>2, <1>9, <1>10 DEF DamageOK, CountedOK, d, b, e
<1>12. Cut(F) = {} => Cut(G) = {}
  BY <1>4
<1>13. UncutOK'
  BY <1>2, <1>12 DEF DamageOK, UncutOK
<1> QED
  BY <1>11, <1>13 DEF DamageOK

\* What arrives is whole unless the network has cut it.
LEMMA GrowDamage ==
  ASSUME Inv, Inv', DamageOK, NEW ds \in Seq(DatagramType), sock' = sock \/ Arrive(ds),
         UNCHANGED <<writing, batch>>,
         UNCHANGED <<dvrIsOpen, cleared, tsBuffer, bytesDelivered>>,
         UNCHANGED <<secBuffer, out, kept, splits>>,
         late' # None => Entire(late'.bytes),
         \/ /\ \A j \in 1 .. Len(ds) : Entire(ds[j].bytes)
            /\ upsets =< upsets' /\ faults \subseteq faults'
         \/ /\ Len(ds) = 1 /\ Payload(ds[1].bytes)
            /\ upsets' = upsets + 1 /\ "cut" \in faults'
  PROVE  DamageOK'
<1> DEFINE F == Flow
           G == Flow'
<1>1. /\ F \in Flows /\ G \in Flows
      /\ Len(G) \in Len(F) .. Len(F) + Len(ds)
      /\ \A i \in 1 .. Len(F) : G[i] = F[i]
      /\ \A i \in 1 .. Len(G) :
           \/ i \in 1 .. Len(F)
           \/ \E j \in 1 .. Len(ds) : i = Len(F) + j /\ G[i] = ds[j].bytes
  BY ArrivalFlow
<1> HIDE DEF F, G
<1>2. Flow = F /\ Flow' = G /\ Rest' = Rest /\ Damaged' = Damaged
  BY DEF F, G, Rest, Opened, Damaged
<1>3. Len(F) \in Nat /\ Len(G) \in Nat
  BY <1>1 DEF Flows
<1>4. IsFiniteSet(Cut(F)) /\ Cardinality(Cut(F)) \in Nat /\ Cardinality(Cut(G)) \in Nat
  BY <1>3, CutFinite
<1>5. upsets \in Nat /\ splits \in Nat
      /\ Cardinality(Damaged) \in Nat /\ Cardinality(Breaks(Rest)) \in Nat
  BY DamageNow
<1>6. upsets' \in Nat
  BY DEF Inv, TypeOK, NetworkOK
<1> DEFINE d == Cardinality(Damaged)
           b == Cardinality(Breaks(Rest))
           c == Cardinality(Cut(F))
           e == Cardinality(Cut(G))
<1>7. d + b + c =< upsets + splits
  BY <1>2 DEF DamageOK, CountedOK
<1>8. \A i \in 1 .. Len(F) : Payload(F[i])
  BY <1>2 DEF DamageOK, CountedOK
<1> HIDE DEF d, b, c, e
<1>9. /\ d \in Nat /\ b \in Nat /\ c \in Nat /\ e \in Nat
      /\ c = Cardinality(Cut(F)) /\ e = Cardinality(Cut(G))
  BY <1>4, <1>5 DEF d, b, c, e
<1>10. CASE /\ \A j \in 1 .. Len(ds) : Entire(ds[j].bytes)
            /\ upsets =< upsets' /\ faults \subseteq faults'
  <2>1. ASSUME NEW i \in 1 .. Len(G), i \notin 1 .. Len(F)
        PROVE  Entire(G[i])
    BY <1>1, <1>10, <2>1
  <2>2. \A i \in 1 .. Len(G) : Payload(G[i])
    BY <1>1, <1>8, <2>1 DEF Entire, Payload
  <2>3. Cut(G) \subseteq Cut(F)
    BY <1>1, <2>1 DEF Cut, Entire
  <2>4. e =< c
    BY <1>4, <1>9, <2>3, FS_Subset
  <2>5. d + b + e =< upsets' + splits
    <3> DEFINE v == upsets'
               u == upsets
               p == splits
    <3>1. v \in Nat /\ u \in Nat /\ p \in Nat /\ u =< v
      BY <1>5, <1>6, <1>10
    <3>2. d + b + c =< u + p
      BY <1>7
    <3> HIDE DEF u, v, p
    <3>3. d + b + e =< v + p
      BY <1>9, <2>4, <3>1, <3>2
    <3> QED
      BY <3>3 DEF v, p
  <2>6. CountedOK'
    BY <1>2, <2>2, <2>5 DEF CountedOK, d, b, e
  <2>7. UncutOK'
    BY <1>2, <1>10, <2>3 DEF DamageOK, UncutOK
  <2> QED
    BY <2>6, <2>7 DEF DamageOK
<1>11. CASE /\ Len(ds) = 1 /\ Payload(ds[1].bytes)
            /\ upsets' = upsets + 1 /\ "cut" \in faults'
  <2>1. ASSUME NEW i \in 1 .. Len(G), i \notin 1 .. Len(F)
        PROVE  i = Len(F) + 1 /\ Payload(G[i])
    <3>1. PICK j \in 1 .. Len(ds) : i = Len(F) + j /\ G[i] = ds[j].bytes
      BY <1>1, <2>1
    <3>2. j = 1
      BY <1>11
    <3> QED
      BY <1>11, <3>1, <3>2
  <2>2. \A i \in 1 .. Len(G) : Payload(G[i])
    BY <1>1, <1>8, <2>1
  <2>3. Cut(G) \subseteq Cut(F) \cup {Len(F) + 1}
    BY <1>1, <2>1 DEF Cut
  <2>4. e =< c + 1
    BY <1>4, <1>9, <2>3, OneMore
  <2>5. d + b + e =< upsets' + splits
    <3> DEFINE v == upsets'
               u == upsets
               p == splits
    <3>1. v \in Nat /\ u \in Nat /\ p \in Nat /\ v = u + 1
      BY <1>5, <1>6, <1>11
    <3>2. d + b + c =< u + p
      BY <1>7
    <3> HIDE DEF u, v, p
    <3>3. d + b + e =< v + p
      BY <1>9, <2>4, <3>1, <3>2
    <3> QED
      BY <3>3 DEF v, p
  <2>6. CountedOK'
    BY <1>2, <2>2, <2>5 DEF CountedOK, d, b, e
  <2>7. UncutOK'
    BY <1>11 DEF UncutOK
  <2> QED
    BY <2>6, <2>7 DEF DamageOK
<1> QED
  BY <1>10, <1>11

\* Whatever becomes of a datagram, only one that is cut breaks off.
LEMMA SendDamage ==
  ASSUME Inv, Inv', DamageOK, Send
  PROVE  DamageOK'
<1>1. PICK k \in Loads :
        LET bytes == Bytes(packets, k)
            d == Datagram(bytes)
        IN  \/ Arrive(<<d>>) /\ UNCHANGED <<late, faults, upsets>>
            \/ Upset /\ UNCHANGED <<sock, ready, late, faults>>
            \/ /\ Upset /\ late = None /\ late' = d
               /\ faults' = faults \cup {"shuffled"} /\ UNCHANGED <<sock, ready>>
            \/ /\ Upset /\ Arrive(<<d, d>>)
               /\ faults' = faults \cup {"shuffled"} /\ UNCHANGED late
            \/ /\ Upset /\ ~bare /\ Arrive(<<[d EXCEPT !.bytes = <<>>]>>)
               /\ UNCHANGED <<late, faults>>
            \/ /\ Upset /\ bare
               /\ Arrive(<<[d EXCEPT !.bytes = Front(bytes)]>>)
               /\ faults' = faults \cup {"cut"} /\ UNCHANGED late
  BY Zenon DEF Send
<1>2. /\ UNCHANGED <<writing, batch>>
      /\ UNCHANGED <<dvrIsOpen, cleared, tsBuffer, bytesDelivered>>
      /\ UNCHANGED <<secBuffer, out, kept, splits>>
  BY DEF Send, poller, dvr, section
<1> DEFINE bytes == Bytes(packets, k)
           d == Datagram(bytes)
           e == [d EXCEPT !.bytes = <<>>]
           f == [d EXCEPT !.bytes = Front(bytes)]
<1>3. d \in DatagramType /\ e \in DatagramType /\ f \in DatagramType
  BY SendDatagrams
<1>4. d.bytes = bytes /\ e.bytes = <<>> /\ f.bytes = Front(bytes)
  BY DEF Datagram
<1>5. \/ Arrive(<<d>>) /\ UNCHANGED <<late, faults, upsets>>
      \/ Upset /\ UNCHANGED <<sock, late, faults>>
      \/ /\ Upset /\ late' = d /\ faults' = faults \cup {"shuffled"}
         /\ UNCHANGED sock
      \/ /\ Upset /\ Arrive(<<d, d>>)
         /\ faults' = faults \cup {"shuffled"} /\ UNCHANGED late
      \/ Upset /\ Arrive(<<e>>) /\ UNCHANGED <<late, faults>>
      \/ /\ Upset /\ Arrive(<<f>>) /\ faults' = faults \cup {"cut"}
         /\ UNCHANGED late
  BY <1>1, Zenon
<1>6. packets \in Nat /\ k \in Nat \ {0}
  BY ReceiveAssumption DEF Inv, TypeOK, NetworkOK
<1>7. bytes \in Seq(TsBytes) /\ Entire(bytes)
  BY <1>6, BytesIs, SentIs
<1>8. Payload(Front(bytes))
  <2>1. Len(bytes) - 1 \in 0 .. Len(bytes)
    <3>1. k * TsSize \in Nat \ {0}
      BY <1>6, ReceiveAssumption
    <3>2. Len(bytes) = k * TsSize
      BY <1>6, BytesIs
    <3> QED
      BY <3>1, <3>2
  <2> HIDE DEF bytes
  <2>2. Front(bytes) = SubSeq(bytes, 1, Len(bytes) - 1)
    BY DEF Front
  <2>3. Payload(bytes)
    BY <1>7 DEF Payload, Entire
  <2> QED
    BY <1>7, <2>1, <2>2, <2>3, FrontIs
<1>9. Entire(<<>>)
  BY EmptyEntire
<1>10. /\ Upset => upsets' = upsets + 1
       /\ upsets \in Nat /\ upsets =< upsets /\ upsets =< upsets + 1
       /\ late # None => Entire(late.bytes)
  BY DamageNow DEF Upset, DamageOK, CountedOK
<1> HIDE DEF bytes, d, e, f
<1>11. /\ <<d>> \in Seq(DatagramType) /\ \A j \in 1 .. Len(<<d>>) : Entire(<<d>>[j].bytes)
       /\ <<e>> \in Seq(DatagramType) /\ \A j \in 1 .. Len(<<e>>) : Entire(<<e>>[j].bytes)
       /\ <<d, d>> \in Seq(DatagramType)
       /\ \A j \in 1 .. Len(<<d, d>>) : Entire(<<d, d>>[j].bytes)
       /\ <<f>> \in Seq(DatagramType) /\ Len(<<f>>) = 1 /\ Payload(<<f>>[1].bytes)
  <2>1. Entire(d.bytes) /\ Entire(e.bytes) /\ Payload(f.bytes)
    BY <1>4, <1>7, <1>8, <1>9
  <2>2. /\ 1 .. Len(<<d>>) = {1} /\ <<d>>[1] = d /\ 1 .. Len(<<e>>) = {1} /\ <<e>>[1] = e
        /\ 1 .. Len(<<d, d>>) = {1, 2} /\ <<d, d>>[1] = d /\ <<d, d>>[2] = d
        /\ Len(<<f>>) = 1 /\ <<f>>[1] = f
    OBVIOUS
  <2>3. /\ \A j \in 1 .. Len(<<d>>) : Entire(<<d>>[j].bytes)
        /\ \A j \in 1 .. Len(<<e>>) : Entire(<<e>>[j].bytes)
    BY <2>1, <2>2
  <2>4. \A j \in 1 .. Len(<<d, d>>) : Entire(<<d, d>>[j].bytes)
    BY <2>1, <2>2
  <2>5. /\ <<d>> \in Seq(DatagramType) /\ <<e>> \in Seq(DatagramType)
        /\ <<d, d>> \in Seq(DatagramType) /\ <<f>> \in Seq(DatagramType)
    BY <1>3
  <2> QED
    BY <2>1, <2>2, <2>3, <2>4, <2>5, Zenon
<1>12. CASE Arrive(<<d>>) /\ UNCHANGED <<late, faults, upsets>>
  BY <1>2, <1>10, <1>11, <1>12, GrowDamage
<1>13. CASE Upset /\ UNCHANGED <<sock, late, faults>>
  BY <1>2, <1>10, <1>11, <1>13, GrowDamage
<1>14. CASE /\ Upset /\ late' = d /\ faults' = faults \cup {"shuffled"}
            /\ UNCHANGED sock
  <2>1. Entire(late'.bytes) /\ faults \subseteq faults'
    BY <1>4, <1>7, <1>14
  <2> QED
    BY <1>2, <1>10, <1>11, <1>14, <2>1, GrowDamage
<1>15. CASE /\ Upset /\ Arrive(<<d, d>>)
            /\ faults' = faults \cup {"shuffled"} /\ UNCHANGED late
  BY <1>2, <1>10, <1>11, <1>15, GrowDamage
<1>16. CASE Upset /\ Arrive(<<e>>) /\ UNCHANGED <<late, faults>>
  BY <1>2, <1>10, <1>11, <1>16, GrowDamage
<1>17. CASE /\ Upset /\ Arrive(<<f>>) /\ faults' = faults \cup {"cut"}
            /\ UNCHANGED late
  BY <1>2, <1>10, <1>11, <1>17, GrowDamage
<1> QED
  BY <1>5, <1>12, <1>13, <1>14, <1>15, <1>16, <1>17

\* What was held up is whole.
LEMMA LateArrivalDamage ==
  ASSUME Inv, Inv', DamageOK, LateArrival
  PROVE  DamageOK'
<1>1. /\ late # None /\ Arrive(<<late>>) /\ late' = None
      /\ UNCHANGED <<faults, upsets, writing, batch>>
      /\ UNCHANGED <<dvrIsOpen, cleared, tsBuffer, bytesDelivered>>
      /\ UNCHANGED <<secBuffer, out, kept, splits>>
  BY DEF LateArrival, poller, dvr, section
<1>2. late \in DatagramType /\ Entire(late.bytes)
  BY <1>1 DEF Inv, TypeOK, NetworkOK, DamageOK, CountedOK
<1>3. /\ <<late>> \in Seq(DatagramType) /\ 1 .. Len(<<late>>) = {1} /\ <<late>>[1] = late
  BY <1>2
<1>4. \A j \in 1 .. Len(<<late>>) : Entire(<<late>>[j].bytes)
  BY <1>2, <1>3
<1>5. upsets =< upsets' /\ faults \subseteq faults'
  BY <1>1, DamageNow
<1> QED
  BY <1>1, <1>3, <1>4, <1>5, GrowDamage

\* ReadMulti() and GetHeaderLength() move datagrams on.
LEMMA MoveDamage ==
  ASSUME Inv, Inv', DamageOK, ReadMulti \/ ProcessDatagram
  PROVE  DamageOK'
<1>1. /\ UNCHANGED <<late, faults, upsets>>
      /\ UNCHANGED <<dvrIsOpen, cleared, tsBuffer, bytesDelivered>>
      /\ UNCHANGED <<secBuffer, out, kept, splits>>
  BY DEF ReadMulti, ProcessDatagram, network, dvr, section
<1>2. 0 \in {0, 1} /\ 1 \in {0, 1}
  OBVIOUS
<1>3. CASE ReadMulti
  BY <1>1, <1>2, <1>3, ReadMultiFlow, ShrinkDamage
<1>4. CASE ProcessDatagram
  BY <1>1, <1>2, <1>4, ProcessDatagramFlow, ShrinkDamage
<1> QED
  BY <1>3, <1>4

\* What VDR was given is a whole packet, or nothing.
LEMMA DeliveredIs ==
  ASSUME NEW k \in {0, TsSize}
  PROVE  k \in Nat /\ k % TsSize = 0
<1>1. TsSize \in Nat \ {0} /\ 0 \in 0 .. TsSize - 1
      /\ 0 = TsSize * 0 + 0 /\ TsSize = TsSize * 1 + 0
  BY ReceiveAssumption
<1>2. 0 % TsSize = 0
  BY <1>1, DivModIs
<1>3. TsSize % TsSize = 0
  <2> DEFINE t == TsSize
  <2>1. t \in Nat \ {0} /\ t \in Nat /\ 1 \in Nat /\ 0 \in 0 .. t - 1 /\ t = t * 1 + 0
    BY <1>1
  <2> HIDE DEF t
  <2>2. t % t = 0
    BY <2>1, DivModIs
  <2> QED
    BY <2>2 DEF t
<1> QED
  BY <1>1, <1>2, <1>3

\* Nothing is broken when whole packets are deleted.
LEMMA DelEntire ==
  ASSUME NEW r \in Seq(TsBytes), Entire(r), NEW k \in 0 .. Len(r), k % TsSize = 0
  PROVE  Entire(Del(r, k))
<1>1. Whole(r) /\ Breaks(r) = {}
  BY DEF Entire
<1>2. \A i \in Breaks(Del(r, k)) : i + k \in Breaks(r)
  BY DelBreaks
<1>3. Whole(Del(r, k))
  BY <1>1, DelBreaks
<1> QED
  BY <1>1, <1>2, <1>3 DEF Entire

\* Nor when whole packets are added, as the buffers hold whole ones only.
LEMMA PutEntire ==
  ASSUME NEW r \in Seq(TsBytes), NEW w \in Seq(TsBytes), Entire(r), Entire(w),
         Len(r) =< Capacity
  PROVE  Entire(Put(r, w)) /\ (Len(Put(r, w)) - Len(r)) % TsSize = 0
<1> DEFINE q == Put(r, w)
           l == Len(r)
           m == Len(q)
           z == Len(w)
           c == Capacity
           t == TsSize
<1>1. /\ q \in Seq(TsBytes) /\ m =< c /\ m \in l .. l + z
      /\ m < l + z => m = c
      /\ \A i \in 1 .. m : q[i] = IF i =< l THEN r[i] ELSE w[i - l]
  BY PutIs
<1>2. /\ l \in Nat /\ m \in Nat /\ z \in Nat /\ c \in Nat /\ t \in Nat \ {0} /\ l =< c
  BY <1>1, CapacityNat, ReceiveAssumption
<1>3. l % t = 0 /\ z % t = 0
  BY EntireIs
<1>4. c % t = 0
  <2> DEFINE b == BufSize
             a == b \div t
             s == b % t
  <2>1. /\ b \in Nat /\ t \in Nat \ {0} /\ a \in Nat /\ s \in 0 .. t - 1 /\ b = t * a + s
    <3>1. b \in Nat /\ t \in Nat \ {0}
      BY ReceiveAssumption
    <3> QED
      BY <3>1, DivMod
  <2>2. c = b - s
    BY DEF Capacity
  <2> HIDE DEF a, s, b, c, t
  <2>3. t * a \in Nat /\ c = t * a + 0 /\ 0 \in 0 .. t - 1 /\ c \in Nat
    BY <1>2, <2>1, <2>2
  <2> QED
    BY <2>1, <2>3, DivModIs
<1> HIDE DEF q, l, m, z, c, t
<1>5. (m - l) % t = 0
  <2>1. CASE m < l + z
    <3>1. m = c /\ c - l \in Nat /\ c = l + (c - l)
      BY <1>1, <1>2, <2>1
    <3>2. (l + (c - l)) % t = (c - l) % t
      BY <1>2, <1>3, <3>1, ModAdd
    <3> QED
      BY <1>4, <3>1, <3>2
  <2>2. CASE ~(m < l + z)
    <3>1. m - l = z
      BY <1>1, <1>2, <2>2
    <3> QED
      BY <1>3, <3>1
  <2> QED
    BY <2>1, <2>2
<1>6. Payload(w) /\ Breaks(w) = {} /\ Breaks(r) = {} /\ Whole(r)
  BY DEF Entire, Payload
<1>7. /\ Len(q) \in Len(r) .. Len(r) + Len(w) /\ (Len(q) - Len(r)) % TsSize = 0
      /\ \A i \in 1 .. Len(q) : q[i] = IF i =< Len(r) THEN r[i] ELSE w[i - Len(r)]
      /\ Len(r) % TsSize = 0
  BY <1>1, <1>3, <1>5 DEF l, m, z, t
<1>8. \A i \in Breaks(q) :
        \/ i \in Breaks(r)
        \/ /\ i = Len(q) /\ Len(q) > Len(r)
           /\ \/ Len(q) = Len(r) + Len(w) /\ Breaks(w) # {}
              \/ /\ Len(q) < Len(r) + Len(w)
                 /\ (Len(q) - Len(r)) % TsSize # 0
  BY <1>1, <1>6, <1>7, PutBreaks
<1>9. Whole(q)
  BY <1>1, <1>6, <1>7, PutBreaks
<1> QED
  BY <1>6, <1>7, <1>8, <1>9 DEF Entire, q

\* What GetData() finds in a buffer that does not break off is part of it.
LEMMA RestEntire ==
  ASSUME Inv
  PROVE  /\ Entire(tsBuffer) => Entire(Rest)
         /\ \A i \in 1 .. Len(Rest) : Rest[i] \in ToSet(tsBuffer)
<1>1. CASE Opened
  <2>1. /\ tsBuffer \in Seq(TsBytes) /\ Len(tsBuffer) \in Nat
        /\ bytesDelivered \in {0, TsSize} /\ bytesDelivered \in 0 .. Len(tsBuffer)
        /\ Rest = Del(tsBuffer, bytesDelivered)
        /\ Len(Rest) = Len(tsBuffer) - bytesDelivered
        /\ \A i \in 1 .. Len(Rest) : Rest[i] = tsBuffer[bytesDelivered + i]
    BY <1>1, DamageNow, RestIs
  <2>2. bytesDelivered % TsSize = 0
    BY <2>1, DeliveredIs
  <2>3. \A i \in 1 .. Len(Rest) : bytesDelivered + i \in 1 .. Len(tsBuffer)
    BY <2>1
  <2>4. DOMAIN tsBuffer = 1 .. Len(tsBuffer)
    BY <2>1
  <2>5. \A i \in 1 .. Len(Rest) : Rest[i] \in ToSet(tsBuffer)
    BY <2>1, <2>3, <2>4 DEF ToSet
  <2>6. Entire(tsBuffer) => Entire(Rest)
    BY <2>1, <2>2, DelEntire
  <2> QED
    BY <2>5, <2>6
<1>2. CASE ~Opened
  <2>1. Rest = <<>> /\ 1 .. Len(Rest) = {}
    BY <1>2, RestIs, EmptySeq
  <2> QED
    BY <2>1, EmptyEntire
<1> QED
  BY <1>1, <1>2

\* VDR's thread must not break more than there is a cause for.
LEMMA DeviceDamage ==
  ASSUME Inv, Inv', DamageOK,
         UNCHANGED <<writing, batch, sock, late, faults, upsets, splits, secBuffer>>,
         Cardinality(Damaged') + Cardinality(Breaks(Rest'))
           =< Cardinality(Damaged) + Cardinality(Breaks(Rest)),
         "cut" \notin faults =>
           /\ Entire(tsBuffer')
           /\ \A n \in kept' : /\ n \in Nat \ {0}
                               /\ Packet(n) \in ToSet(out') \/ HasPacket(Rest', n)
  PROVE  DamageOK'
<1>1. Flow' = Flow
  BY DEF Flow
<1> DEFINE d == Cardinality(Damaged)
           b == Cardinality(Breaks(Rest))
           c == Cardinality(Cut(Flow))
           f == Cardinality(Damaged')
           e == Cardinality(Breaks(Rest'))
<1>2. d \in Nat /\ b \in Nat /\ c \in Nat /\ upsets \in Nat /\ splits \in Nat
  BY DamageNow
<1>3. f \in Nat
  <2>1. Damaged' = DamagedIn(out') /\ out' \in Seq(Seq(TsBytes))
    BY DEF Damaged, DamagedIn, Inv, TypeOK, DeviceOK
  <2> QED
    BY <2>1, DamagedFinite
<1>4. e \in Nat
  <2>1. CASE Opened'
    <3>1. /\ tsBuffer' \in Seq(TsBytes) /\ bytesDelivered' \in {0, TsSize}
          /\ bytesDelivered' =< Len(tsBuffer')
      BY <2>1 DEF Inv, TypeOK, DeviceOK
    <3> DEFINE t == tsBuffer'
               k == bytesDelivered'
    <3>2. t \in Seq(TsBytes) /\ k \in 0 .. Len(t)
      BY <3>1, ReceiveAssumption
    <3>3. Rest' = Del(t, k)
      BY <2>1 DEF Rest
    <3> HIDE DEF t, k
    <3>4. Del(t, k) \in Seq(TsBytes)
      BY <3>2, DelIs
    <3>5. Len(Rest') \in Nat
      BY <3>3, <3>4
    <3> QED
      BY <3>5, BreaksFinite
  <2>2. CASE ~Opened'
    <3>1. Rest' = <<>>
      BY <2>2 DEF Rest
    <3>2. Breaks(Rest') = {}
      BY <3>1, EmptyEntire
    <3> QED
      BY <3>2, FS_EmptySet
  <2> QED
    BY <2>1, <2>2
<1>5. d + b + c =< upsets + splits /\ f + e =< d + b
  BY DEF DamageOK, CountedOK
<1> HIDE DEF d, b, c, e, f
<1>6. f + e + c =< upsets + splits
  BY <1>2, <1>3, <1>4, <1>5
<1>7. CountedOK'
  BY <1>1, <1>6 DEF DamageOK, CountedOK, c, e, f
<1>8. UncutOK'
  BY <1>1 DEF DamageOK, UncutOK
<1> QED
  BY <1>7, <1>8 DEF DamageOK

\* What is in the buffer when the device is closed is not missed, and there is
\* nothing to be missed when the buffer is cleared.
LEMMA OpenCloseDamage ==
  ASSUME Inv, Inv', DamageOK, ClearBuffer \/ OpenDvr \/ CloseDvr \/ SetPowerSaveMode
  PROVE  DamageOK'
<1>1. /\ UNCHANGED <<writing, batch, sock, late, faults, upsets, splits, secBuffer>>
      /\ UNCHANGED out /\ tsBuffer' \in {tsBuffer, <<>>} /\ Rest' \in {Rest, <<>>}
  BY RestAfter
<1>2. Damaged' = Damaged
  BY <1>1 DEF Damaged
<1>3. Cardinality(Damaged') + Cardinality(Breaks(Rest'))
        =< Cardinality(Damaged) + Cardinality(Breaks(Rest))
  <2> DEFINE d == Cardinality(Damaged)
             b == Cardinality(Breaks(Rest))
             e == Cardinality(Breaks(Rest'))
  <2>1. d \in Nat /\ b \in Nat
    BY DamageNow
  <2>2. e = b \/ e = 0
    BY <1>1, EmptyEntire, FS_EmptySet
  <2>3. Cardinality(Damaged') = d
    BY <1>2
  <2> HIDE DEF d, b, e
  <2>4. d + e =< d + b
    BY <2>1, <2>2
  <2> QED
    BY <2>3, <2>4 DEF d, b, e
<1>4. ASSUME "cut" \notin faults, NEW n \in kept'
      PROVE  n \in Nat \ {0} /\ (Packet(n) \in ToSet(out') \/ HasPacket(Rest', n))
  <2>1. n \in kept
    BY DEF ClearBuffer, OpenDvr, CloseDvr, SetPowerSaveMode
  <2>2. n \in Nat \ {0} /\ (Packet(n) \in ToSet(out) \/ HasPacket(Rest, n))
    BY <1>4, <2>1 DEF DamageOK, UncutOK
  <2>3. HasPacket(Rest, n) => <<n, 1>> \in ToSet(Rest)
    <3>1. 1 \in 1 .. TsSize
      BY ReceiveAssumption
    <3> QED
      BY <3>1 DEF HasPacket
  <2>4. CASE ClearBuffer \/ SetPowerSaveMode
    <3>1. ~Opened
      BY <2>4 DEF ClearBuffer, SetPowerSaveMode, Opened
    <3>2. DOMAIN Rest = {}
      BY <3>1, RestIs
    <3>3. ~HasPacket(Rest, n)
      BY <2>3, <3>2 DEF ToSet
    <3> QED
      BY <1>1, <2>2, <3>3
  <2>5. CASE OpenDvr
    <3>1. Rest' = Rest
      BY <2>5 DEF OpenDvr, Opened, Rest
    <3> QED
      BY <1>1, <2>2, <3>1
  <2>6. CASE CloseDvr
    <3>1. n \notin {byte[1] : byte \in ToSet(tsBuffer)}
      BY <1>4, <2>6 DEF CloseDvr
    <3>2. ASSUME HasPacket(Rest, n) PROVE FALSE
      <4>1. DOMAIN Rest = 1 .. Len(Rest)
        BY DamageNow
      <4>2. <<n, 1>> \in ToSet(tsBuffer)
        BY <2>3, <3>2, <4>1, RestEntire DEF ToSet
      <4>3. <<n, 1>>[1] = n
        OBVIOUS
      <4> QED
        BY <3>1, <4>2, <4>3
    <3> QED
      BY <1>1, <2>2, <3>2
  <2> QED
    BY <2>4, <2>5, <2>6
<1>5. "cut" \notin faults => Entire(tsBuffer')
  BY <1>1, EmptyEntire DEF DamageOK, UncutOK
<1> QED
  BY <1>1, <1>3, <1>4, <1>5, DeviceDamage

\* Skipping to a sync byte breaks nothing, and is not needed unless the network
\* cuts datagrams.
LEMMA GetNothingDamage ==
  ASSUME Inv, Inv', DamageOK, GetNothing
  PROVE  DamageOK'
<1>1. /\ UNCHANGED <<writing, batch, sock, late, faults, upsets, splits, secBuffer>>
      /\ UNCHANGED <<out, kept>> /\ bytesDelivered' = 0
      /\ \/ tsBuffer' = Rest
         \/ Len(Rest) >= TsSize /\ ~Sync(Rest[1]) /\ tsBuffer' = SkipToSync(Rest)
      /\ Opened'
  BY DEF GetNothing, Gets, Opened, network, kernel, poller, section
<1>2. Rest \in Seq(TsBytes) /\ Len(Rest) \in Nat
  BY DamageNow
<1>3. \A r \in Seq(TsBytes) : Del(r, 0) = r
  <2> SUFFICES ASSUME NEW r \in Seq(TsBytes) PROVE Del(r, 0) = r
    OBVIOUS
  <2>1. Len(r) \in Nat /\ 0 \in 0 .. Len(r)
    OBVIOUS
  <2>2. /\ Del(r, 0) \in Seq(TsBytes) /\ Len(Del(r, 0)) = Len(r) - 0
        /\ \A i \in 1 .. Len(r) - 0 : Del(r, 0)[i] = r[0 + i]
    BY <2>1, DelIs
  <2>3. Len(Del(r, 0)) = Len(r) /\ \A i \in 1 .. Len(r) : Del(r, 0)[i] = r[i]
    BY <2>1, <2>2
  <2> QED
    BY <2>2, <2>3, SeqEqual
<1>4. PICK k \in 0 .. Len(Rest) : tsBuffer' = Del(Rest, k)
  <2>1. CASE tsBuffer' = Rest
    BY <1>2, <1>3, <2>1
  <2>2. CASE Len(Rest) >= TsSize /\ tsBuffer' = SkipToSync(Rest)
    <3>1. Rest # <<>>
      BY <2>2, ReceiveAssumption, EmptySeq
    <3> QED
      BY <1>2, <2>2, <3>1, SkipIs
  <2> QED
    BY <1>1, <2>1, <2>2
<1>5. tsBuffer' \in Seq(TsBytes)
  BY <1>2, <1>4, DelIs
<1>6. Rest' = tsBuffer'
  BY <1>1, <1>3, <1>5 DEF Rest
<1>7. Damaged' = Damaged
  BY <1>1 DEF Damaged
<1>8. Cardinality(Damaged') + Cardinality(Breaks(Rest'))
        =< Cardinality(Damaged) + Cardinality(Breaks(Rest))
  <2> DEFINE d == Cardinality(Damaged)
             b == Cardinality(Breaks(Rest))
             q == Del(Rest, k)
             e == Cardinality(Breaks(q))
  <2>1. d \in Nat /\ b \in Nat /\ IsFiniteSet(Breaks(Rest))
    BY DamageNow
  <2>2. q \in Seq(TsBytes)
    BY <1>2, DelIs
  <2>3. Breaks(q) \in SUBSET Nat
    BY <2>2, BreaksFinite
  <2>4. k \in Nat /\ \A i \in Breaks(q) : i + k \in Breaks(Rest)
    BY <1>2, DelBreaks
  <2>5. e \in Nat /\ e =< b
    BY <2>1, <2>3, <2>4, MoveCount
  <2>6. Cardinality(Damaged') = d /\ Cardinality(Breaks(Rest')) = e
    BY <1>4, <1>6, <1>7
  <2> HIDE DEF d, b, e
  <2>7. d + e =< d + b
    BY <2>1, <2>5
  <2> QED
    BY <2>6, <2>7 DEF d, b
<1>9. ASSUME "cut" \notin faults
      PROVE  /\ Entire(tsBuffer') /\ Rest' = Rest
             /\ \A n \in kept : /\ n \in Nat \ {0}
                                /\ Packet(n) \in ToSet(out) \/ HasPacket(Rest, n)
  <2>1. Entire(Rest)
    BY <1>9, RestEntire DEF DamageOK, UncutOK
  <2>2. Len(Rest) >= TsSize => Rest # <<>>
    BY ReceiveAssumption, EmptySeq
  <2>3. tsBuffer' = Rest
    BY <1>1, <1>2, <2>1, <2>2, EntireIs
  <2> QED
    BY <1>6, <1>9, <2>1, <2>3 DEF DamageOK, UncutOK
<1> QED
  BY <1>1, <1>8, <1>9, DeviceDamage

\* A packet that comes out damaged has a break, which leaves with it.
LEMMA GetPacketDamage ==
  ASSUME Inv, Inv', DamageOK, GetPacket
  PROVE  DamageOK'
<1>1. /\ UNCHANGED <<writing, batch, sock, late, faults, upsets, splits, secBuffer>>
      /\ UNCHANGED kept /\ tsBuffer' = Rest
      /\ Len(Rest) >= TsSize /\ Sync(Rest[1])
      /\ \/ /\ out' = Append(out, SubSeq(Rest, 1, TsSize)) /\ bytesDelivered' = TsSize
         \/ bytesDelivered' = 0 /\ UNCHANGED out
      /\ Opened'
  BY DEF GetPacket, Gets, DeliverDeferred, Opened, network, kernel, poller, section
<1>2. /\ Rest \in Seq(TsBytes) /\ Len(Rest) \in Nat /\ out \in Seq(Seq(TsBytes))
      /\ Cardinality(Damaged) \in Nat /\ IsFiniteSet(Breaks(Rest))
      /\ Cardinality(Breaks(Rest)) \in Nat
  BY DamageNow
<1>3. /\ TsSize \in Nat \ {0} /\ TsSize \in 0 .. Len(Rest) /\ 0 \in 0 .. Len(Rest)
      /\ 1 \in 1 .. TsSize /\ DOMAIN Rest = 1 .. Len(Rest)
  BY <1>1, <1>2, ReceiveAssumption
<1>4. ASSUME "cut" \notin faults
      PROVE  /\ Entire(Rest)
             /\ \A n \in kept : /\ n \in Nat \ {0}
                                /\ Packet(n) \in ToSet(out) \/ HasPacket(Rest, n)
  BY <1>4, RestEntire DEF DamageOK, UncutOK
<1>5. CASE bytesDelivered' = 0 /\ UNCHANGED out
  <2>1. Rest' = Rest
    <3>1. /\ Del(Rest, 0) \in Seq(TsBytes) /\ Len(Del(Rest, 0)) = Len(Rest) - 0
          /\ \A i \in 1 .. Len(Rest) - 0 : Del(Rest, 0)[i] = Rest[0 + i]
      BY <1>2, <1>3, DelIs
    <3>2. /\ Len(Del(Rest, 0)) = Len(Rest)
          /\ \A i \in 1 .. Len(Rest) : Del(Rest, 0)[i] = Rest[i]
      BY <1>2, <3>1
    <3>3. Del(Rest, 0) = Rest
      BY <1>2, <3>1, <3>2, SeqEqual
    <3> QED
      BY <1>1, <1>5, <3>3 DEF Rest
  <2>2. Damaged' = Damaged
    BY <1>5 DEF Damaged
  <2>3. Cardinality(Damaged') + Cardinality(Breaks(Rest'))
          =< Cardinality(Damaged) + Cardinality(Breaks(Rest))
    <3> DEFINE s == Cardinality(Damaged) + Cardinality(Breaks(Rest))
    <3>1. s \in Nat
      BY <1>2
    <3>2. Cardinality(Damaged') + Cardinality(Breaks(Rest')) = s
      BY <2>1, <2>2
    <3> HIDE DEF s
    <3>3. s =< s
      BY <3>1
    <3>4. Cardinality(Damaged') + Cardinality(Breaks(Rest')) =< s
      BY <3>2, <3>3
    <3> QED
      BY <3>4 DEF s
  <2> QED
    BY <1>1, <1>4, <1>5, <2>1, <2>3, DeviceDamage
<1>6. CASE /\ out' = Append(out, SubSeq(Rest, 1, TsSize))
           /\ bytesDelivered' = TsSize
  <2> DEFINE p == SubSeq(Rest, 1, TsSize)
             n0 == Rest[1][1]
             q == Del(Rest, TsSize)
  <2>1. /\ p \in Seq(TsBytes) /\ Len(p) = TsSize
        /\ \A i \in 1 .. TsSize : p[i] = Rest[i]
    BY <1>2, <1>3, Parts
  <2>2. /\ q \in Seq(TsBytes) /\ Len(q) = Len(Rest) - TsSize
        /\ \A i \in 1 .. Len(Rest) - TsSize : q[i] = Rest[TsSize + i]
    BY <1>2, <1>3, DelIs
  <2>3. Rest' = q
    BY <1>1, <1>6 DEF Rest
  <2>4. p[1][1] = n0
    BY <1>3, <2>1
  <2>5. /\ \A i \in Breaks(q) : i + TsSize \in Breaks(Rest)
        /\ Breaks(q) \in SUBSET Nat
    BY <1>2, <1>3, <2>2, DelBreaks, BreaksFinite
  <2>6. p # Packet(n0) => \E x \in 1 .. TsSize - 1 : x \in Breaks(Rest)
    BY <1>1, <1>2, FirstPacket
  <2>7. out' = Append(out, p)
    BY <1>6
  <2> HIDE DEF p, n0, q
  <2>8. /\ Len(out') = Len(out) + 1 /\ Len(out) \in Nat /\ DOMAIN out = 1 .. Len(out)
        /\ DOMAIN out' = 1 .. Len(out) + 1
        /\ \A i \in 1 .. Len(out) : out'[i] = out[i]
        /\ out'[Len(out) + 1] = p
    <3>1. /\ Append(out, p) \in Seq(Seq(TsBytes))
          /\ Len(Append(out, p)) = Len(out) + 1
          /\ \A i \in 1 .. Len(out) : Append(out, p)[i] = out[i]
          /\ Append(out, p)[Len(out) + 1] = p
      BY <1>2, <2>1, AppendProperties
    <3>2. Len(out) \in Nat /\ DOMAIN out = 1 .. Len(out)
      BY <1>2
    <3>3. DOMAIN Append(out, p) = 1 .. Len(Append(out, p))
      BY <3>1
    <3> QED
      BY <2>7, <3>1, <3>2, <3>3
  <2>9. \A i \in 1 .. Len(out) + 1 : i \in 1 .. Len(out) \/ i = Len(out) + 1
    BY <2>8
  <2>10. /\ Damaged' \subseteq Damaged \cup {Len(out) + 1}
         /\ p = Packet(n0) => Damaged' \subseteq Damaged
    <3>1. ASSUME NEW i \in Damaged'
          PROVE  \/ i \in Damaged
                 \/ i = Len(out) + 1 /\ p # Packet(n0)
      <4>1. i \in 1 .. Len(out) + 1 /\ out'[i] # Packet(out'[i][1][1])
        BY <2>8 DEF Damaged
      <4>2. CASE i \in 1 .. Len(out)
        <5>1. i \in DOMAIN out /\ out[i] # Packet(out[i][1][1])
          BY <2>8, <4>1, <4>2
        <5> QED
          BY <5>1 DEF Damaged
      <4>3. CASE i = Len(out) + 1
        <5>1. out'[i] = p
          BY <2>8, <4>3
        <5> QED
          BY <2>4, <4>1, <4>3, <5>1
      <4> QED
        BY <2>9, <4>1, <4>2, <4>3
    <3> QED
      BY <3>1
  <2>11. Cardinality(Damaged') + Cardinality(Breaks(q))
           =< Cardinality(Damaged) + Cardinality(Breaks(Rest))
    <3> DEFINE d == Cardinality(Damaged)
               b == Cardinality(Breaks(Rest))
               f == Cardinality(Damaged')
               e == Cardinality(Breaks(q))
    <3>1. IsFiniteSet(Damaged)
      BY DamageNow
    <3>2. /\ f \in Nat /\ d \in Nat /\ f =< d + 1
          /\ Damaged' \subseteq Damaged => f =< d
      BY <2>10, <3>1, OneMore
    <3>3. /\ e \in Nat /\ b \in Nat /\ e =< b
          /\ \A x \in Breaks(Rest) : (\A i \in Breaks(q) : i + TsSize # x) => e + 1 =< b
      BY <1>2, <1>3, <2>5, MoveCount
    <3>4. p # Packet(n0) => e + 1 =< b
      <4> SUFFICES ASSUME p # Packet(n0) PROVE e + 1 =< b
        OBVIOUS
      <4>1. PICK x \in 1 .. TsSize - 1 : x \in Breaks(Rest)
        BY <2>6
      <4>2. ASSUME NEW i \in Breaks(q) PROVE i + TsSize # x
        <5>1. i \in Nat
          BY <2>5
        <5> QED
          BY <1>3, <5>1
      <4> HIDE DEF e, b
      <4> QED
        BY <3>3, <4>1, <4>2
    <3> HIDE DEF d, b, e, f
    <3>5. CASE p = Packet(n0)
      <4>1. f =< d
        BY <2>10, <3>2, <3>5
      <4>2. f + e =< d + b
        BY <3>2, <3>3, <4>1
      <4> QED
        BY <4>2 DEF d, b, e, f
    <3>6. CASE p # Packet(n0)
      <4>1. f + e =< d + b
        BY <3>2, <3>3, <3>4, <3>6
      <4> QED
        BY <4>1 DEF d, b, e, f
    <3> QED
      BY <3>5, <3>6
  <2>12. ASSUME "cut" \notin faults, NEW n \in kept
         PROVE  n \in Nat \ {0} /\ (Packet(n) \in ToSet(out') \/ HasPacket(q, n))
    <3>1. /\ Breaks(Rest) = {} /\ n \in Nat \ {0}
          /\ Packet(n) \in ToSet(out) \/ HasPacket(Rest, n)
      BY <1>4, <2>12 DEF Entire
    <3>2. CASE Packet(n) \in ToSet(out)
      <4>1. PICK i \in 1 .. Len(out) : Packet(n) = out[i]
        BY <2>8, <3>2 DEF ToSet
      <4>2. i \in DOMAIN out' /\ out'[i] = Packet(n)
        BY <2>8, <4>1
      <4>3. Packet(n) \in ToSet(out')
        BY <4>2 DEF ToSet
      <4> QED
        BY <3>1, <4>3
    <3>3. /\ p = Packet(n0)
          /\ \A i \in 1 .. TsSize : Rest[i] = <<n0, i>>
      BY <1>1, <1>2, <3>1, FirstPacket DEF p, n0
    <3>4. CASE n = n0
      <4>1. Len(out) + 1 \in DOMAIN out'
        BY <2>8
      <4>2. Packet(n) \in ToSet(out')
        BY <2>8, <3>3, <3>4, <4>1 DEF ToSet
      <4> QED
        BY <3>1, <4>2
    <3>5. CASE HasPacket(Rest, n) /\ n # n0
      <4>1. ASSUME NEW b \in 1 .. TsSize
            PROVE  <<n, b>> \in ToSet(q)
        <5>1. <<n, b>> \in ToSet(Rest)
          BY <3>5 DEF HasPacket
        <5>2. PICK i \in 1 .. Len(Rest) : <<n, b>> = Rest[i]
          BY <1>3, <5>1 DEF ToSet
        <5>3. i \notin 1 .. TsSize
          <6>1. ASSUME i \in 1 .. TsSize PROVE FALSE
            <7>1. <<n, b>> = <<n0, i>>
              BY <3>3, <5>2, <6>1
            <7>2. n = n0
              BY <7>1
            <7> QED
              BY <3>5, <7>2
          <6> QED
            BY <6>1
        <5>4. i - TsSize \in 1 .. Len(Rest) - TsSize /\ TsSize + (i - TsSize) = i
          BY <1>2, <1>3, <5>3
        <5>5. i - TsSize \in DOMAIN q /\ q[i - TsSize] = <<n, b>>
          <6>1. DOMAIN q = 1 .. Len(q)
            BY <2>2
          <6> QED
            BY <2>2, <5>2, <5>4, <6>1
        <5> QED
          BY <5>5 DEF ToSet
      <4> QED
        BY <3>1, <4>1 DEF HasPacket
    <3> QED
      BY <3>1, <3>2, <3>4, <3>5
  <2>13. "cut" \notin faults =>
           /\ Entire(tsBuffer')
           /\ \A n \in kept' : /\ n \in Nat \ {0}
                               /\ Packet(n) \in ToSet(out') \/ HasPacket(Rest', n)
    BY <1>1, <1>4, <2>3, <2>12
  <2>14. Cardinality(Damaged') + Cardinality(Breaks(Rest'))
           =< Cardinality(Damaged) + Cardinality(Breaks(Rest))
    BY <2>3, <2>11
  <2> QED
    BY <1>1, <2>13, <2>14, DeviceDamage
<1> QED
  BY <1>1, <1>5, <1>6

\* The section filters take a whole packet, if there is one.
LEMMA FilterPacketDamage ==
  ASSUME Inv, DamageOK, FilterPacket
  PROVE  DamageOK'
<1>1. /\ UNCHANGED <<writing, batch, sock, late, faults, upsets>>
      /\ UNCHANGED <<dvrIsOpen, cleared, tsBuffer, bytesDelivered, out, kept, splits>>
      /\ Len(secBuffer) >= TsSize
      /\ IF Sync(secBuffer[1]) THEN secBuffer' = Del(secBuffer, TsSize)
         ELSE secBuffer' = SkipToSync(secBuffer)
  BY DEF FilterPacket, Gets, network, kernel, poller, dvr
<1>2. Flow' = Flow /\ Rest' = Rest /\ Damaged' = Damaged
  BY <1>1 DEF Flow, Rest, Opened, Damaged
<1>3. CountedOK'
  BY <1>1, <1>2 DEF DamageOK, CountedOK
<1>4. ASSUME "cut" \notin faults
      PROVE  Entire(secBuffer')
  <2>1. /\ secBuffer \in Seq(TsBytes) /\ Entire(secBuffer) /\ Len(secBuffer) \in Nat
        /\ TsSize \in 0 .. Len(secBuffer) /\ secBuffer # <<>> /\ TsSize % TsSize = 0
    <3>1. secBuffer \in Seq(TsBytes) /\ Entire(secBuffer)
      BY <1>4, DamageNow DEF DamageOK, UncutOK
    <3>2. Len(secBuffer) \in Nat /\ TsSize \in 0 .. Len(secBuffer) /\ Len(secBuffer) # 0
      BY <1>1, <3>1, ReceiveAssumption
    <3>3. TsSize % TsSize = 0
      BY DeliveredIs
    <3> QED
      BY <3>1, <3>2, <3>3, EmptySeq
  <2>2. Sync(secBuffer[1])
    BY <2>1, EntireIs
  <2>3. Entire(Del(secBuffer, TsSize))
    BY <2>1, DelEntire
  <2> QED
    BY <1>1, <2>2, <2>3
<1>5. UncutOK'
  BY <1>1, <1>2, <1>4 DEF DamageOK, UncutOK
<1> QED
  BY <1>3, <1>5 DEF DamageOK

\* What is written is broken where the payload is, or where there was no room
\* for the rest of a packet.
LEMMA WriteDataDamage ==
  ASSUME Inv, Inv', DamageOK, WriteData
  PROVE  DamageOK'
<1>1. /\ UNCHANGED <<late, faults, upsets, bytesDelivered, out>> /\ Opened' = Opened
      /\ secBuffer' = Put(secBuffer, writing)
      /\ \/ UNCHANGED <<tsBuffer, kept, splits>>
         \/ /\ tsBuffer' = Put(tsBuffer, writing)
            /\ \/ ~Opened /\ kept' = kept
               \/ /\ Opened
                  /\ kept' = kept \cup {tsBuffer'[i][1] :
                                        i \in Len(tsBuffer) + 1 .. Len(tsBuffer')}
            /\ splits' = IF /\ Len(tsBuffer') - Len(tsBuffer) < Len(writing)
                            /\ (Len(tsBuffer') - Len(tsBuffer)) % TsSize # 0
                         THEN splits + 1 ELSE splits
  BY DEF WriteData, Opened, network
<1> DEFINE F == Flow
           G == Flow'
           w == writing
           r == Rest
           q == Rest'
<1>2. /\ F \in Flows /\ Len(F) >= 1 /\ F[1] = w
      /\ G \in Flows /\ Len(G) = Len(F) /\ G[1] = <<>>
      /\ \A i \in 2 .. Len(F) : G[i] = F[i]
  BY WriteDataFlow
<1>3. /\ r \in Seq(TsBytes) /\ Len(r) \in Nat
      /\ tsBuffer \in Seq(TsBytes) /\ Len(tsBuffer) \in Nat /\ Len(tsBuffer) =< Capacity
      /\ secBuffer \in Seq(TsBytes) /\ Len(secBuffer) =< Capacity
      /\ upsets \in Nat /\ splits \in Nat
  <2>1. /\ r \in Seq(TsBytes) /\ Len(r) \in Nat
        /\ tsBuffer \in Seq(TsBytes) /\ Len(tsBuffer) =< Capacity
        /\ secBuffer \in Seq(TsBytes) /\ Len(secBuffer) =< Capacity
        /\ upsets \in Nat /\ splits \in Nat
    BY DamageNow
  <2> QED
    BY <2>1
<1>4. w \in Seq(TsBytes) /\ Len(w) \in Nat /\ Len(F) \in Nat
  <2>1. w \in Seq(TsBytes)
    BY FlowNow
  <2> QED
    BY <1>2, <2>1 DEF Flows
<1>5. Damaged' = Damaged
  BY <1>1 DEF Damaged
<1>6. /\ \A i \in 1 .. Len(F) : Payload(F[i])
      /\ Cardinality(Damaged) + Cardinality(Breaks(r)) + Cardinality(Cut(F))
           =< upsets + splits
      /\ late # None => Entire(late.bytes)
  BY DEF DamageOK, CountedOK
<1>7. "cut" \notin faults =>
        /\ Entire(tsBuffer) /\ Entire(secBuffer) /\ Cut(F) = {} /\ splits = 0
        /\ \A n \in kept : n \in Nat \ {0} /\ (Packet(n) \in ToSet(out) \/ HasPacket(r, n))
  BY DEF DamageOK, UncutOK
<1>8. /\ UNCHANGED tsBuffer \/ ~Opened => q = r
      /\ tsBuffer' = Put(tsBuffer, w) /\ Opened
           => /\ q \in Seq(TsBytes) /\ Len(q) \in Len(r) .. Len(r) + Len(w)
              /\ \A i \in 1 .. Len(q) : q[i] = IF i =< Len(r) THEN r[i] ELSE w[i - Len(r)]
              /\ Len(tsBuffer') - Len(tsBuffer) = Len(q) - Len(r)
  <2>1. UNCHANGED tsBuffer \/ ~Opened => q = r
    BY <1>1 DEF Rest
  <2>2. ASSUME tsBuffer' = Put(tsBuffer, w), Opened
        PROVE  /\ q \in Seq(TsBytes) /\ Len(q) \in Len(r) .. Len(r) + Len(w)
               /\ \A i \in 1 .. Len(q) :
                    q[i] = IF i =< Len(r) THEN r[i] ELSE w[i - Len(r)]
               /\ Len(tsBuffer') - Len(tsBuffer) = Len(q) - Len(r)
    <3>1. UNCHANGED bytesDelivered /\ tsBuffer' = Put(tsBuffer, writing) /\ Opened'
      BY <1>1, <2>2
    <3> QED
      BY <2>2, <3>1, RestPut
  <2> QED
    BY <2>1, <2>2
<1>9. Flow = F /\ Flow' = G /\ Rest = r /\ Rest' = q /\ writing = w
  OBVIOUS
<1> HIDE DEF F, G, w, r, q
<1>10. 1 \in 1 .. Len(F) /\ Payload(w) /\ (1 \notin Cut(F) => Breaks(w) = {})
  <2>1. 1 \in 1 .. Len(F)
    BY <1>2, <1>4
  <2> QED
    BY <1>2, <1>6, <2>1 DEF Cut
<1>11. \A i \in Cut(G) : i \in Cut(F) /\ i # 1
  <2> SUFFICES ASSUME NEW i \in Cut(G) PROVE i \in Cut(F) /\ i # 1
    OBVIOUS
  <2>1. i \in 1 .. Len(F) /\ Breaks(G[i]) # {}
    BY <1>2 DEF Cut
  <2>2. i # 1
    BY <1>2, <2>1, EmptyEntire
  <2>3. i \in 2 .. Len(F)
    BY <1>4, <2>1, <2>2
  <2> QED
    BY <1>2, <2>1, <2>2, <2>3 DEF Cut
<1>12. \A i \in 1 .. Len(G) : Payload(G[i])
  <2> SUFFICES ASSUME NEW i \in 1 .. Len(G) PROVE Payload(G[i])
    OBVIOUS
  <2>1. i = 1 \/ i \in 2 .. Len(F)
    BY <1>2, <1>4
  <2>2. Payload(<<>>)
    BY EmptyEntire DEF Entire, Payload
  <2>3. CASE i = 1
    BY <1>2, <2>2, <2>3
  <2>4. CASE i \in 2 .. Len(F)
    BY <1>2, <1>6, <2>4
  <2> QED
    BY <2>1, <2>3, <2>4
<1> DEFINE d == Cardinality(Damaged)
           b == Cardinality(Breaks(r))
           e == Cardinality(Breaks(q))
           c == Cardinality(Cut(F))
           g == Cardinality(Cut(G))
<1>13. /\ c \in Nat /\ g \in Nat /\ g =< c
       /\ Breaks(w) # {} => g + 1 =< c
  <2>1. /\ IsFiniteSet(Cut(F)) /\ Cut(G) \in SUBSET Nat
    <3>1. IsFiniteSet(Cut(F)) /\ Cut(G) \in SUBSET (1 .. Len(G)) /\ Len(G) \in Nat
      BY <1>2, <1>4, CutFinite
    <3> QED
      BY <3>1
  <2>2. 0 \in Nat /\ \A i \in Cut(G) : i + 0 \in Cut(F) /\ i + 0 # 1
    BY <1>11, <2>1
  <2>3. /\ c \in Nat /\ g \in Nat /\ g =< c
        /\ \A x \in Cut(F) : (\A i \in Cut(G) : i + 0 # x) => g + 1 =< c
    BY <2>1, <2>2, MoveCount
  <2> HIDE DEF c, g
  <2> QED
    BY <1>10, <2>2, <2>3
<1>14. d \in Nat /\ b \in Nat /\ IsFiniteSet(Breaks(r))
  BY <1>9, DamageNow
<1>15. d + b + c =< upsets + splits
  BY <1>6
<1>16. d + e + g =< upsets + splits'
  <2>1. CASE /\ UNCHANGED tsBuffer \/ ~Opened
             /\ splits' = splits \/ splits' = splits + 1
    <3> DEFINE p == splits'
    <3>1. e = b /\ (p = splits \/ p = splits + 1)
      BY <1>8, <2>1
    <3> HIDE DEF d, b, e, c, g, p
    <3>2. d + e + g =< upsets + p
      BY <1>3, <1>13, <1>14, <1>15, <3>1
    <3> QED
      BY <3>2 DEF p
  <2>2. CASE /\ tsBuffer' = Put(tsBuffer, w) /\ Opened
             /\ splits' = IF /\ Len(tsBuffer') - Len(tsBuffer) < Len(w)
                             /\ (Len(tsBuffer') - Len(tsBuffer)) % TsSize # 0
                          THEN splits + 1 ELSE splits
    <3>1. /\ q \in Seq(TsBytes) /\ Len(q) \in Len(r) .. Len(r) + Len(w)
          /\ \A i \in 1 .. Len(q) : q[i] = IF i =< Len(r) THEN r[i] ELSE w[i - Len(r)]
          /\ Len(tsBuffer') - Len(tsBuffer) = Len(q) - Len(r)
      BY <1>8, <2>2
    <3>2. splits' = IF Len(q) - Len(r) < Len(w) /\ (Len(q) - Len(r)) % TsSize # 0
                    THEN splits + 1 ELSE splits
      BY <2>2, <3>1
    <3>3. \A i \in Breaks(q) :
            \/ i \in Breaks(r)
            \/ /\ i = Len(q) /\ Len(q) > Len(r)
               /\ \/ Len(q) = Len(r) + Len(w) /\ Breaks(w) # {}
                  \/ /\ Len(q) < Len(r) + Len(w)
                     /\ (Len(q) - Len(r)) % TsSize # 0
      BY <1>3, <1>4, <1>10, <3>1, PutBreaks
    <3>4. Breaks(q) \subseteq Breaks(r) \cup {Len(q)}
      BY <3>3
    <3>5. Breaks(w) = {} /\ splits' = splits => Breaks(q) \subseteq Breaks(r)
      <4> SUFFICES ASSUME Breaks(w) = {}, splits' = splits, NEW i \in Breaks(q)
                   PROVE  i \in Breaks(r)
        OBVIOUS
      <4>1. ~(Len(q) - Len(r) < Len(w) /\ (Len(q) - Len(r)) % TsSize # 0)
        <5>1. splits + 1 # splits
          BY <1>3
        <5> QED
          BY <3>2, <5>1
      <4>2. Len(q) < Len(r) + Len(w) => Len(q) - Len(r) < Len(w)
        BY <1>3, <1>4, <3>1
      <4> QED
        BY <3>3, <4>1, <4>2
    <3>6. /\ e \in Nat /\ e =< b + 1
          /\ Breaks(q) \subseteq Breaks(r) => e =< b
      BY <1>14, <3>4, OneMore
    <3>7. splits' = splits \/ splits' = splits + 1
      BY <3>2
    <3> DEFINE p == splits'
    <3>8. /\ p = splits \/ p = splits + 1
          /\ Breaks(w) # {} \/ p # splits \/ e =< b
      BY <3>5, <3>6, <3>7
    <3> HIDE DEF d, b, e, c, g, p
    <3>9. d + e + g =< upsets + p
      BY <1>3, <1>13, <1>14, <1>15, <3>6, <3>8
    <3> QED
      BY <3>9 DEF p
  <2>3. \/ /\ UNCHANGED tsBuffer \/ ~Opened
           /\ splits' = splits \/ splits' = splits + 1
        \/ /\ tsBuffer' = Put(tsBuffer, w) /\ Opened
           /\ splits' = IF /\ Len(tsBuffer') - Len(tsBuffer) < Len(w)
                           /\ (Len(tsBuffer') - Len(tsBuffer)) % TsSize # 0
                        THEN splits + 1 ELSE splits
    BY <1>1, <1>9
  <2> QED
    BY <2>1, <2>2, <2>3
<1>17. CountedOK'
  BY <1>1, <1>5, <1>6, <1>9, <1>12, <1>16 DEF CountedOK
<1>18. ASSUME "cut" \notin faults
       PROVE  /\ Entire(tsBuffer') /\ Entire(secBuffer') /\ Cut(G) = {} /\ splits' = 0
              /\ \A n \in kept' : /\ n \in Nat \ {0}
                                  /\ Packet(n) \in ToSet(out) \/ HasPacket(q, n)
  <2>1. /\ Entire(tsBuffer) /\ Entire(secBuffer) /\ Cut(F) = {} /\ splits = 0
        /\ \A n \in kept : n \in Nat \ {0} /\ (Packet(n) \in ToSet(out) \/ HasPacket(r, n))
    BY <1>7, <1>18
  <2>2. Entire(w) /\ Cut(G) = {}
    BY <1>10, <1>11, <2>1 DEF Entire, Payload
  <2>3. Entire(secBuffer')
    BY <1>1, <1>3, <1>4, <1>9, <2>1, <2>2, PutEntire
  <2>4. CASE UNCHANGED <<tsBuffer, kept, splits>>
    BY <1>8, <2>1, <2>2, <2>3, <2>4
  <2>6. ASSUME /\ tsBuffer' = Put(tsBuffer, w)
               /\ splits' = IF /\ Len(tsBuffer') - Len(tsBuffer) < Len(w)
                               /\ (Len(tsBuffer') - Len(tsBuffer)) % TsSize # 0
                            THEN splits + 1 ELSE splits
        PROVE  Entire(tsBuffer') /\ splits' = 0
    <3>1. Entire(tsBuffer') /\ (Len(tsBuffer') - Len(tsBuffer)) % TsSize = 0
      BY <1>3, <1>4, <2>1, <2>2, <2>6, PutEntire
    <3>2. splits' = 0
      BY <2>1, <2>6, <3>1
    <3> QED
      BY <3>1, <3>2
  <2>7. CASE /\ tsBuffer' = Put(tsBuffer, w) /\ ~Opened /\ kept' = kept
             /\ splits' = IF /\ Len(tsBuffer') - Len(tsBuffer) < Len(w)
                             /\ (Len(tsBuffer') - Len(tsBuffer)) % TsSize # 0
                          THEN splits + 1 ELSE splits
    <3>1. q = r
      BY <1>8, <2>7
    <3>2. Entire(tsBuffer') /\ splits' = 0
      BY <2>6, <2>7
    <3> QED
      BY <2>1, <2>2, <2>3, <2>7, <3>1, <3>2
  <2>5. CASE /\ tsBuffer' = Put(tsBuffer, w) /\ Opened
             /\ kept' = kept \cup {tsBuffer'[i][1] : i \in Len(tsBuffer) + 1 .. Len(tsBuffer')}
             /\ splits' = IF /\ Len(tsBuffer') - Len(tsBuffer) < Len(w)
                             /\ (Len(tsBuffer') - Len(tsBuffer)) % TsSize # 0
                          THEN splits + 1 ELSE splits
    <3>1. Entire(tsBuffer')
      BY <2>5, <2>6
    <3>2. splits' = 0
      BY <2>5, <2>6
    <3>3. /\ q \in Seq(TsBytes) /\ Len(q) \in Len(r) .. Len(r) + Len(w)
          /\ \A i \in 1 .. Len(q) : q[i] = IF i =< Len(r) THEN r[i] ELSE w[i - Len(r)]
      BY <1>8, <2>5
    <3>4. ASSUME NEW n, HasPacket(r, n)
          PROVE  HasPacket(q, n)
      <4>1. DOMAIN r = 1 .. Len(r) /\ DOMAIN q = 1 .. Len(q)
        BY <1>3, <3>3
      <4>2. \A i \in 1 .. Len(r) : i \in 1 .. Len(q) /\ q[i] = r[i]
        BY <1>3, <1>4, <3>3
      <4>3. ToSet(r) \subseteq ToSet(q)
        BY <4>1, <4>2 DEF ToSet
      <4> QED
        BY <3>4, <4>3 DEF HasPacket
    <3>5. ASSUME NEW i \in Len(tsBuffer) + 1 .. Len(tsBuffer')
          PROVE  tsBuffer'[i][1] \in Nat \ {0} /\ HasPacket(q, tsBuffer'[i][1])
      <4> DEFINE t == tsBuffer'
                 k == bytesDelivered
      <4>1. t \in Seq(TsBytes) /\ Len(t) \in Nat
        <5>1. t \in Seq(TsBytes)
          BY DEF Inv, TypeOK, DeviceOK
        <5> QED
          BY <5>1
      <4>2. /\ k \in {0, TsSize} /\ k =< Len(tsBuffer) /\ k \in Nat /\ k % TsSize = 0
        BY <2>5, DamageNow, DeliveredIs
      <4>3. Entire(t) /\ i \in Len(tsBuffer) + 1 .. Len(t)
        BY <3>1
      <4>4. q = Del(t, k)
        BY <1>1, <1>9, <2>5 DEF Rest
      <4> HIDE DEF t, k
      <4>5. k \in 0 .. Len(t) /\ i - k \in 1 .. Len(t) - k /\ i \in 1 .. Len(t)
            /\ k + (i - k) = i
        BY <1>3, <4>1, <4>2, <4>3
      <4>6. Entire(q) /\ q \in Seq(TsBytes) /\ i - k \in 1 .. Len(q) /\ q[i - k] = t[i]
        <5>1. Entire(q)
          BY <4>1, <4>2, <4>3, <4>4, <4>5, DelEntire
        <5>2. /\ q \in Seq(TsBytes) /\ Len(q) = Len(t) - k
              /\ \A j \in 1 .. Len(t) - k : q[j] = t[k + j]
          BY <4>1, <4>4, <4>5, DelIs
        <5> QED
          BY <4>5, <5>1, <5>2
      <4>7. HasPacket(q, t[i][1])
        BY <4>6, EntireIs
      <4>8. t[i][1] \in Nat \ {0}
        BY <4>1, <4>5, ByteIs
      <4> QED
        BY <4>7, <4>8 DEF t
    <3>6. \A n \in kept' : /\ n \in Nat \ {0}
                           /\ Packet(n) \in ToSet(out) \/ HasPacket(q, n)
      BY <2>1, <2>5, <3>4, <3>5
    <3> QED
      BY <2>2, <2>3, <3>1, <3>2, <3>6
  <2> QED
    BY <1>1, <1>9, <2>4, <2>5, <2>7
<1>19. UncutOK'
  BY <1>1, <1>9, <1>18 DEF UncutOK
<1> QED
  BY <1>17, <1>19 DEF DamageOK

-----------------------------------------------------------------------------
\* At first there is nothing that could be damaged.
LEMMA InitDamage == Init => DamageOK
<1> SUFFICES ASSUME Init PROVE DamageOK
  OBVIOUS
<1>1. /\ writing = <<>> /\ batch = <<>> /\ sock = <<>> /\ late = None
      /\ tsBuffer = <<>> /\ secBuffer = <<>> /\ bytesDelivered = 0 /\ out = <<>>
      /\ kept = {} /\ splits = 0 /\ upsets = 0 /\ Inv
  BY InitInv DEF Init
<1>2. Len(Flow) = 1 /\ Flow[1] = <<>>
  <2>1. /\ writing \in Seq(TsBytes) /\ batch \in Seq(DatagramType)
        /\ sock \in Seq(DatagramType)
    BY <1>1, FlowNow
  <2>2. Len(batch) = 0 /\ Len(sock) = 0
    BY <1>1, EmptySeq
  <2>3. Len(Flow) = 1 + Len(batch) + Len(sock)
    BY <1>1, FlowNow
  <2>4. Flow[1] = writing
    BY <2>1, FlowIs DEF Flow
  <2> QED
    BY <1>1, <2>2, <2>3, <2>4
<1>3. Entire(<<>>) /\ Payload(<<>>) /\ Breaks(<<>>) = {}
  BY EmptyEntire DEF Entire, Payload
<1>4. \A i \in 1 .. Len(Flow) : Flow[i] = <<>>
  BY <1>2
<1>5. Cut(Flow) = {}
  BY <1>3, <1>4 DEF Cut
<1>6. Damaged = {}
  <2>1. DOMAIN out = {}
    BY <1>1
  <2> QED
    BY <2>1 DEF Damaged
<1>7. Breaks(Rest) = {}
  <2>1. Rest \in Seq(TsBytes) /\ Len(tsBuffer) = 0
    BY <1>1, DamageNow, EmptySeq
  <2>2. 1 .. Len(Rest) = {}
    <3>1. <<>> \in Seq(TsBytes) /\ Len(<<>>) = 0 /\ 0 \in 0 .. Len(<<>>)
      BY EmptySeq
    <3>2. Len(Del(<<>>, 0)) = Len(<<>>) - 0
      BY <3>1, DelIs
    <3>3. Len(Rest) = 0
      BY <1>1, <3>1, <3>2 DEF Rest
    <3> QED
      BY <3>3
  <2> QED
    BY <2>2 DEF Breaks
<1>8. Cardinality(Damaged) + Cardinality(Breaks(Rest)) + Cardinality(Cut(Flow))
        =< upsets + splits
  BY <1>1, <1>5, <1>6, <1>7, FS_EmptySet
<1>9. CountedOK
  BY <1>1, <1>3, <1>4, <1>8 DEF CountedOK
<1>10. UncutOK
  BY <1>1, <1>3, <1>5 DEF UncutOK
<1> QED
  BY <1>9, <1>10 DEF DamageOK

\* Every step leaves a cause for each break.
LEMMA NextDamage == Inv /\ DamageOK /\ [Next]_vars => DamageOK'
<1> SUFFICES ASSUME Inv, DamageOK, [Next]_vars PROVE DamageOK'
  OBVIOUS
<1>1. Inv' /\ upsets \in Nat
  BY NextInv, DamageNow
<1>2. CASE UNCHANGED vars
  <2>1. UNCHANGED <<network, kernel, poller, dvr, section, upsets>>
    BY <1>2 DEF vars
  <2>2. /\ UNCHANGED <<writing, batch, sock, late, faults>> /\ upsets =< upsets'
        /\ UNCHANGED <<dvrIsOpen, cleared, tsBuffer, bytesDelivered>>
        /\ UNCHANGED <<secBuffer, out, kept, splits>>
    BY <1>1, <2>1 DEF network, kernel, poller, dvr, section
  <2> QED
    BY <1>1, <2>2, QuietDamage
<1>3. CASE Restart \/ SendReport
  <2>1. /\ UNCHANGED <<writing, batch, sock, late, faults>> /\ upsets =< upsets'
        /\ UNCHANGED <<dvrIsOpen, cleared, tsBuffer, bytesDelivered>>
        /\ UNCHANGED <<secBuffer, out, kept, splits>>
    <3>1. upsets' = upsets \/ upsets' = upsets + 1
      BY <1>3 DEF Restart, SendReport, Upset
    <3>2. upsets =< upsets'
      BY <1>1, <3>1
    <3> QED
      BY <1>3, <3>2 DEF Restart, SendReport, kernel, poller, dvr, section
  <2> QED
    BY <1>1, <2>1, QuietDamage
<1>4. CASE Wait \/ NextEvent \/ BatchDone \/ ReadReport
  <2>1. /\ UNCHANGED <<writing, batch, sock, late, faults>> /\ upsets =< upsets'
        /\ UNCHANGED <<dvrIsOpen, cleared, tsBuffer, bytesDelivered>>
        /\ UNCHANGED <<secBuffer, out, kept, splits>>
    BY <1>1, <1>4 DEF Wait, NextEvent, BatchDone, ReadReport, network, kernel, dvr,
                       section
  <2> QED
    BY <1>1, <2>1, QuietDamage
<1> QED
  BY <1>1, <1>2, <1>3, <1>4, SendDamage, LateArrivalDamage, MoveDamage,
     WriteDataDamage, OpenCloseDamage, GetPacketDamage, GetNothingDamage,
     FilterPacketDamage DEF Next, Poll

\* The causes of breaks are an invariant.
LEMMA DamageHolds == Spec => [](Inv /\ DamageOK)
BY InitInv, InitDamage, NextInv, NextDamage, PTL DEF Spec

\* A packet that found room in the TS buffer of an open device is handed to VDR
\* or still to be, unless the device is closed first, although the buffer is
\* cleared at device.c:402 and 504: device.c:393-406, 500-551 and 597-663.
THEOREM PacketsAreHandedOn == Spec => []NothingVanishes
<1>1. Inv /\ DamageOK => NothingVanishes
  <2> SUFFICES ASSUME Inv, DamageOK, "cut" \notin faults, NEW n \in kept
               PROVE  \/ Packet(n) \in ToSet(out)
                      \/ ToSet(Packet(n)) \subseteq ToSet(Rest)
    BY DEF NothingVanishes
  <2>1. n \in Nat \ {0} /\ (Packet(n) \in ToSet(out) \/ HasPacket(Rest, n))
    BY DEF DamageOK, UncutOK
  <2>2. CASE HasPacket(Rest, n)
    <3>1. /\ Packet(n) \in Seq(TsBytes) /\ Len(Packet(n)) = TsSize
          /\ \A i \in 1 .. TsSize : Packet(n)[i] = <<n, i>>
      BY <2>1, PacketIs
    <3>2. DOMAIN Packet(n) = 1 .. TsSize
      BY <3>1
    <3>3. ToSet(Packet(n)) \subseteq ToSet(Rest)
      BY <2>2, <3>1, <3>2 DEF HasPacket, ToSet
    <3> QED
      BY <3>3
  <2> QED
    BY <2>1, <2>2
<1> QED
  BY <1>1, DamageHolds, PTL

\* One packet at most comes out damaged for each upset of the network and each
\* packet the TS buffer split, and it splits none unless datagrams are cut:
\* device.c:539-551, device.c:597-663 and sectionfilter.c:275-306.
THEOREM DamageIsContained == Spec => []DamageContained
<1>1. Inv /\ DamageOK => DamageContained
  <2> SUFFICES ASSUME Inv, DamageOK PROVE DamageContained
    OBVIOUS
  <2>1. Cardinality(Damaged) =< upsets + splits
    <3> DEFINE d == Cardinality(Damaged)
               b == Cardinality(Breaks(Rest))
               c == Cardinality(Cut(Flow))
    <3>1. d \in Nat /\ b \in Nat /\ c \in Nat /\ upsets \in Nat /\ splits \in Nat
      BY DamageNow
    <3>2. d + b + c =< upsets + splits
      BY DEF DamageOK, CountedOK
    <3> HIDE DEF d, b, c
    <3>3. d =< upsets + splits
      BY <3>1, <3>2
    <3> QED
      BY <3>3 DEF d
  <2>2. "cut" \notin faults => Whole(tsBuffer) /\ Whole(secBuffer) /\ splits = 0
    BY DEF DamageOK, UncutOK, Entire
  <2> QED
    BY <2>1, <2>2 DEF DamageContained
<1> QED
  BY <1>1, DamageHolds, PTL
=============================================================================
