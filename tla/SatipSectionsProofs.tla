------------------------ MODULE SatipSectionsProofs ------------------------
(***************************************************************************)
(* Proofs about SatipSections: what a section filter hands out, for any    *)
(* number and lengths of sections, payload sizes, counter values, losses   *)
(* and repetitions.                                                        *)
(***************************************************************************)
EXTENDS SatipSections, WellFoundedInduction, SequenceTheorems, TLAPS

\* A section starts after byte a, or the stream ends.
Boundary(a) == \E n \in 1 .. NumSections + 1 : start[n] = a

\* A packet as the multiplexer builds it: bytes in a row, stuffing only behind
\* the end of a section; it has the pointer to a section, or lies within one.
Legal(p) ==
  /\ p.first \in 1 .. p.upto /\ p.upto =< Total
  /\ p.upto - p.first < Len(p.data)
  /\ \A i \in 1 .. Len(p.data) :
       p.data[i] = IF p.first + i - 1 =< p.upto THEN p.first + i - 1 ELSE 0
  /\ p.upto - p.first + 1 < Len(p.data) => Boundary(p.upto)
  /\ \E n \in Sections :
       IF p.pusi
       THEN /\ p.first - 1 + p.pointer = start[n] /\ start[n] < p.upto
            /\ p.pointer > 0 => n > 1 /\ start[n - 1] < p.first - 1
            /\ MaxSection + Len(p.data) =< FeedSize
       ELSE start[n] < p.first - 1 /\ p.upto =< start[n + 1]

\* The last byte that arrived, and the last one the filter has copied.
Upto == IF packet = None THEN 0 ELSE packet.upto
Reached ==
  IF packet = None THEN 0
  ELSE IF parts = <<>> THEN packet.upto
  ELSE packet.first - 1 + (IF Head(parts).new THEN packet.pointer ELSE 0)

PartsOK ==
  /\ pc = "idle" => parts = <<>>
  /\ packet = None => pc = "idle" /\ ~pusiSeen
  /\ packet # None => Legal(packet)
  /\ parts # <<>> => \/ parts = Parts(packet)
                     \/ packet.pusi /\ parts = Tail(Parts(packet))

\* The counter tells whether packets have been lost since the last one.
CounterOK ==
  /\ packet # None => /\ packet.cc = feedCc
                      /\ feedCc + 1 + gap \in {cc, cc + CcMod}
  /\ Upto =< sent
  /\ gap = 0 => sent = Upto

\* The buffer b holds the bytes from the start of a section to byte u in a row,
\* position s is at the start of one, and there is room for the rest of the last.
From(b) == b[1] - 1
Fed(b, s, u) ==
  /\ b # <<>> /\ \E n \in Sections : From(b) = start[n]
  /\ \A i \in 1 .. Len(b) : b[i] = IF From(b) + i =< u THEN From(b) + i ELSE 0
  /\ u =< From(b) + Len(b)
  /\ u < From(b) + Len(b) => Boundary(u)
  /\ \E m \in 1 .. NumSections + 1 : From(b) + s = start[m] /\ start[m] =< u
  /\ \A j \in Sections : start[j] < u => start[j + 1] - From(b) =< FeedSize

\* Of the sections behind byte a none has arrived as a whole.
Waiting(a, u) == \A n \in Sections : a =< start[n] => u < start[n + 1]

\* That is so once a start has been seen.
Taken == From(buf) + secBufp
FedOK ==
  pusiSeen => Fed(buf, secBufp, Reached) /\ (pc # "extract" => Waiting(Taken, Reached))

\* Sections that came out, and are still there.
AllGenuine(s) == \A i \in 1 .. Len(s) : \E n \in Sections \ Unwanted : s[i] = Section(n)
GenuineOK == AllGenuine(ring) /\ AllGenuine(out)

\* They come from before the point the filter has got to.
Cursor ==
  IF pusiSeen THEN Taken
  ELSE IF packet = None THEN 0 ELSE packet.first - 1
Rising(s) == \A i, j \in 1 .. Len(s) : i < j => s[i][1] < s[j][1]
UpTo(s, a) == \A i \in 1 .. Len(s) : s[i][1] =< a
OrderOK ==
  upsets = 0 =>
    /\ Rising(out) /\ Rising(ring)
    /\ \A i \in 1 .. Len(out), j \in 1 .. Len(ring) : out[i][1] < ring[j][1]
    /\ UpTo(out, Cursor) /\ UpTo(ring, Cursor)

\* A section of which a byte has been copied came out, or need not, or is in
\* the buffer; those the lost packets are about are broken.
IsOut(x) == \/ \E i \in 1 .. Len(ring) : ring[i] = x
            \/ \E i \in 1 .. Len(out) : out[i] = x
Dealt(n) == n \in Unwanted \cup broken \cup dropped \/ IsOut(Section(n))
CopiedOK ==
  \A n \in Sections : start[n] < Reached => Dealt(n) \/ (pusiSeen /\ Taken =< start[n])
LostOK ==
  \A n \in Sections : start[n] < sent /\ Upto < start[n + 1] /\ gap > 0 => n \in broken
MissOK == CopiedOK /\ LostOK

Inv == TypeOK /\ PartsOK /\ CounterOK /\ FedOK /\ GenuineOK /\ OrderOK /\ MissOK

-----------------------------------------------------------------------------
(* The stream. *)

\* There is a least element in a set of natural numbers.
LEMMA LeastIn ==
  ASSUME NEW S \in SUBSET Nat, S # {}
  PROVE  \E x \in S : \A y \in S : x =< y
<1>1. PICK x \in S : \A y \in S : <<y, x>> \notin OpToRel(<, Nat)
  <2> HIDE DEF OpToRel
  <2> QED
    BY NatLessThanWellFounded, WFMin, Zenon
<1>2. ASSUME NEW y \in S
      PROVE  x =< y
  <2>1. <<y, x>> \in Nat \X Nat /\ <<y, x>>[1] = y /\ <<y, x>>[2] = x
    OBVIOUS
  <2>2. ~ (y < x)
    BY <1>1, <2>1, Zenon DEF OpToRel
  <2> QED
    BY <2>2
<1> QED
  BY <1>2

\* A number below twice the modulus.
LEMMA ModIs ==
  ASSUME NEW t \in Nat \ {0}, NEW a \in 0 .. 2 * t - 1
  PROVE  a % t = IF a < t THEN a ELSE a - t
<1>1. /\ a \div t \in Nat /\ a % t \in 0 .. t - 1
      /\ a = t * (a \div t) + (a % t)
  OBVIOUS
<1>2. CASE a \div t = 0
  BY <1>1, <1>2
<1>3. CASE a \div t = 1
  BY <1>1, <1>3
<1>4. CASE a \div t >= 2
  <2>1. t * (a \div t) >= t * 2
    BY <1>1, <1>4
  <2> QED
    BY <1>1, <2>1
<1> QED
  BY <1>1, <1>2, <1>3, <1>4

\* Sections have the lengths that sections can have.
LEMMA LengthIs ==
  ASSUME StreamOK
  PROVE  /\ NumSections \in Nat /\ start[1] = 0
         /\ \A n \in 1 .. NumSections + 1 : start[n] \in Nat
         /\ \A n \in Sections :
              /\ n \in 1 .. NumSections + 1 /\ n + 1 \in 1 .. NumSections + 1
              /\ start[n + 1] - start[n] \in HeaderSize .. MaxSection
              /\ HeaderSize \in Nat \ {0} /\ MaxSection \in Nat
              /\ start[n] < start[n + 1]
<1>1. NumSections \in Nat /\ HeaderSize \in Nat \ {0} /\ MaxSection \in Nat
  BY SectionsAssumption
<1>2. /\ start[1] = 0
      /\ \A n \in 1 .. NumSections + 1 : start[n] \in Nat
  BY DEF StreamOK
<1>3. ASSUME NEW n \in Sections
      PROVE  /\ n \in 1 .. NumSections + 1 /\ n + 1 \in 1 .. NumSections + 1
             /\ start[n + 1] - start[n] \in HeaderSize .. MaxSection
             /\ start[n] < start[n + 1]
  <2>1. n \in 1 .. NumSections + 1 /\ n + 1 \in 1 .. NumSections + 1
    BY <1>1 DEF Sections
  <2>2. start[n + 1] - start[n] \in HeaderSize .. MaxSection
    BY SectionsAssumption DEF StreamOK
  <2> QED
    BY <1>1, <1>2, <2>1, <2>2
<1> QED
  BY <1>1, <1>2, <1>3

\* Each section starts behind those before it.
LEMMA Grows ==
  ASSUME StreamOK, NEW m \in 1 .. NumSections + 1, NEW n \in 1 .. NumSections + 1
  PROVE  /\ m < n => start[m] < start[n]
         /\ m =< n => start[m] =< start[n]
         /\ start[m] < start[n] => m < n
         /\ start[m] = start[n] => m = n
<1>1. NumSections \in Nat /\ \A k \in 1 .. NumSections + 1 : start[k] \in Nat
  BY LengthIs
<1>2. ASSUME NEW i \in 1 .. NumSections + 1, NEW j \in 1 .. NumSections + 1, i < j
      PROVE  start[i] < start[j]
  <2> DEFINE S == {k \in i + 1 .. NumSections + 1 : start[k] =< start[i]}
  <2> SUFFICES ASSUME S # {}
               PROVE  FALSE
    <3>1. j \notin S
      OBVIOUS
    <3>2. j \in i + 1 .. NumSections + 1
      BY <1>1, <1>2
    <3> QED
      BY <1>1, <3>1, <3>2
  <2>1. S \in SUBSET Nat
    BY <1>1
  <2>2. PICK k \in S : \A y \in S : k =< y
    <3> HIDE DEF S
    <3> QED
      BY <2>1, LeastIn
  <2>3. /\ k - 1 \in Sections /\ k \in Nat /\ (k - 1) + 1 = k
        /\ k - 1 = i \/ k - 1 \in i + 1 .. NumSections + 1
    BY <1>1 DEF Sections
  <2>4. start[k - 1] < start[k]
    BY <2>3, LengthIs
  <2>5. start[i] \in Nat /\ start[k - 1] \in Nat /\ start[k] \in Nat
    BY <1>1, <2>3 DEF Sections
  <2>6. start[k] =< start[i]
    OBVIOUS
  <2>7. CASE k - 1 = i
    BY <2>4, <2>5, <2>6, <2>7
  <2>8. CASE k - 1 \in i + 1 .. NumSections + 1
    <3>1. k - 1 \in S
      BY <2>4, <2>5, <2>6, <2>8
    <3> QED
      BY <2>2, <2>3, <3>1
  <2> QED
    BY <2>3, <2>7, <2>8
<1> QED
  BY <1>1, <1>2

\* A byte is before the end of a section and behind its start, but the last.
LEMMA Locate ==
  ASSUME StreamOK, NEW a \in 0 .. Total
  PROVE  a = Total \/ \E n \in Sections : start[n] =< a /\ a < start[n + 1]
<1>1. /\ NumSections \in Nat /\ start[1] = 0
      /\ \A k \in 1 .. NumSections + 1 : start[k] \in Nat
  BY LengthIs
<1> SUFFICES ASSUME a < Total
             PROVE  \E n \in Sections : start[n] =< a /\ a < start[n + 1]
  BY <1>1 DEF Total
<1> DEFINE S == {k \in 1 .. NumSections + 1 : a < start[k]}
<1>2. S \in SUBSET Nat /\ NumSections + 1 \in S
  BY <1>1 DEF Total
<1>3. PICK k \in S : \A y \in S : k =< y
  <2> HIDE DEF S
  <2> QED
    BY <1>2, LeastIn
<1>4. k # 1
  BY <1>1
<1>5. k - 1 \in Sections /\ (k - 1) + 1 = k /\ k - 1 \in 1 .. NumSections + 1
  BY <1>1, <1>4 DEF Sections
<1>6. k - 1 \notin S
  BY <1>3, <1>5
<1>7. start[k - 1] =< a /\ a < start[k]
  BY <1>1, <1>5, <1>6
<1> QED
  BY <1>5, <1>7

-----------------------------------------------------------------------------
(* The packets. *)

\* Bytes in a row, and then stuffing.
LEMMA DataIs ==
  ASSUME NEW b \in Nat, NEW c \in Nat, NEW k \in Nat, b =< c + 1
  PROVE  /\ Run(b, c) \o Stuffing(k) \in Seq(Nat)
         /\ Len(Run(b, c) \o Stuffing(k)) = c - b + 1 + k
         /\ \A i \in 1 .. c - b + 1 + k :
              (Run(b, c) \o Stuffing(k))[i] = IF b + i - 1 =< c THEN b + i - 1 ELSE 0
<1> DEFINE r == Run(b, c)
           z == Stuffing(k)
           m == c - b + 1
<1>1. r \in Seq(Nat) /\ Len(r) = m /\ m \in Nat /\ \A i \in 1 .. m : r[i] = b + i - 1
  <2>1. m \in Nat /\ \A i \in 1 .. m : b + i - 1 \in Nat
    OBVIOUS
  <2>2. r = [i \in 1 .. m |-> b + i - 1]
    BY DEF Run
  <2> HIDE DEF r, m
  <2> QED
    BY <2>1, <2>2
<1>2. z \in Seq(Nat) /\ Len(z) = k /\ \A i \in 1 .. k : z[i] = 0
  BY DEF Stuffing
<1>5. \A i \in Nat : i =< m <=> b + i - 1 =< c
  OBVIOUS
<1> HIDE DEF r, z, m
<1>3. /\ r \o z \in Seq(Nat) /\ Len(r \o z) = m + k
      /\ \A i \in 1 .. m + k : (r \o z)[i] = IF i =< m THEN r[i] ELSE z[i - m]
  BY <1>1, <1>2, ConcatProperties
<1>4. ASSUME NEW i \in 1 .. m + k
      PROVE  (r \o z)[i] = IF b + i - 1 =< c THEN b + i - 1 ELSE 0
  <2>1. CASE i =< m
    <3>1. i \in 1 .. m /\ i \in Nat
      BY <1>1, <2>1
    <3> QED
      BY <1>1, <1>3, <1>5, <2>1, <3>1
  <2>2. CASE ~(i =< m)
    <3>1. i - m \in 1 .. k /\ i \in Nat
      BY <1>1, <2>2
    <3> QED
      BY <1>2, <1>3, <1>5, <2>2, <3>1
  <2> QED
    BY <2>1, <2>2
<1> QED
  BY <1>3, <1>4 DEF r, z, m

\* The section the multiplexer is in, if it is in one.
LEMMA RemainingIs ==
  ASSUME StreamOK, sent \in 0 .. Total
  PROVE  \/ /\ Interrupted = {} /\ Remaining = 0
            /\ sent = Total \/ \E n \in Sections : start[n] = sent
         \/ \E n \in Sections :
              /\ start[n] < sent /\ sent < start[n + 1]
              /\ Interrupted = {n} /\ Remaining = start[n + 1] - sent
<1>1. CASE Interrupted = {}
  <2>1. Remaining = 0
    BY <1>1 DEF Remaining
  <2>2. \A n \in Sections : ~(start[n] < sent /\ sent < start[n + 1])
    BY <1>1 DEF Interrupted
  <2>3. ASSUME NEW n \in Sections, start[n] =< sent, sent < start[n + 1]
        PROVE  start[n] = sent
    <3>1. start[n] \in Nat /\ sent \in Nat
      BY LengthIs DEF Total
    <3> QED
      BY <2>2, <2>3, <3>1
  <2>4. sent = Total \/ \E n \in Sections : start[n] = sent
    BY <2>3, Locate
  <2> QED
    BY <1>1, <2>1, <2>4
<1>2. CASE Interrupted # {}
  <2>1. PICK n \in Sections : start[n] < sent /\ sent < start[n + 1]
    BY <1>2 DEF Interrupted
  <2>2. ASSUME NEW k \in Interrupted
        PROVE  k = n
    <3>1. /\ k \in Sections /\ start[k] < sent /\ sent < start[k + 1]
          /\ {k, n, k + 1, n + 1} \subseteq 1 .. NumSections + 1
      BY LengthIs DEF Interrupted
    <3>2. /\ start[k] \in Nat /\ start[n] \in Nat /\ sent \in Nat
          /\ start[k + 1] \in Nat /\ start[n + 1] \in Nat
      BY <3>1, LengthIs
    <3>3. start[k] < start[n + 1] /\ start[n] < start[k + 1]
      BY <2>1, <3>1, <3>2
    <3>4. k < n + 1 /\ n < k + 1
      BY <3>1, <3>3, Grows
    <3> QED
      BY <3>1, <3>4, LengthIs
  <2>3. Interrupted = {n}
    BY <1>2, <2>2
  <2>4. Remaining = start[n + 1] - sent
    BY <2>3 DEF Remaining
  <2> QED
    BY <2>1, <2>3, <2>4
<1> QED
  BY <1>1, <1>2

\* A packet of the multiplexer goes on where the last one ended.
LEMMA PacketsAre ==
  ASSUME TypeOK, NEW p \in Packets
  PROVE  /\ p \in PacketType /\ Legal(p)
         /\ p.first = sent + 1 /\ p.cc = cc
         /\ sent < p.upto /\ p.upto =< Total /\ p.upto \in Nat
<1>1. /\ StreamOK /\ sent \in 0 .. Total /\ cc \in 0 .. CcMod - 1
      /\ sent \in Nat /\ Total \in Nat
  <2>1. StreamOK /\ sent \in 0 .. Total /\ cc \in 0 .. CcMod - 1
    BY DEF TypeOK, WayOK
  <2> QED
    BY <2>1, LengthIs DEF Total
<1>2. ASSUME NEW room \in Nat, NEW m \in 1 .. room, NEW pusi \in BOOLEAN, NEW pointer \in Nat,
             p = Carry(room, m, pusi, pointer)
      PROVE  /\ p \in PacketType /\ p.first = sent + 1 /\ p.cc = cc
             /\ p.upto = sent + m /\ p.pusi = pusi /\ p.pointer = pointer
             /\ Len(p.data) = room
             /\ \A i \in 1 .. Len(p.data) :
                  p.data[i] = IF p.first + i - 1 =< p.upto THEN p.first + i - 1 ELSE 0
  <2> DEFINE b == sent + 1
             c == sent + m
             k == room - m
             data == Run(b, c) \o Stuffing(k)
  <2>1. b \in Nat /\ c \in Nat /\ k \in Nat /\ b =< c + 1 /\ c - b + 1 + k = room
    BY <1>1
  <2>2. p = [cc |-> cc, pusi |-> pusi, pointer |-> pointer, first |-> b,
             upto |-> c, data |-> data]
    BY <1>2 DEF Carry
  <2> HIDE DEF b, c, k
  <2>3. /\ data \in Seq(Nat) /\ Len(data) = c - b + 1 + k
        /\ \A i \in 1 .. c - b + 1 + k :
             data[i] = IF b + i - 1 =< c THEN b + i - 1 ELSE 0
    BY <2>1, DataIs
  <2> HIDE DEF data
  <2>4. /\ Len(data) = room
        /\ \A i \in 1 .. room : data[i] = IF b + i - 1 =< c THEN b + i - 1 ELSE 0
    BY <2>1, <2>3
  <2>5. b = sent + 1 /\ c = sent + m
    BY DEF b, c
  <2> QED
    BY <1>1, <2>1, <2>2, <2>3, <2>4, <2>5 DEF PacketType
<1>3. CASE p \in Continuations
  <2>14. PICK size \in Payloads : \E m \in RestIn(size) : p = Carry(size, m, FALSE, 0)
    BY <1>3 DEF Continuations
  <2>1. PICK m \in RestIn(size) : p = Carry(size, m, FALSE, 0)
    BY <2>14
  <2>2. m \in 1 .. Remaining /\ (m = size \/ (m = Remaining /\ m < size))
    BY <2>1 DEF RestIn
  <2>3. PICK n \in Sections : /\ start[n] < sent /\ sent < start[n + 1]
                              /\ Remaining = start[n + 1] - sent
    BY <1>1, <2>2, RemainingIs
  <2>4. /\ size \in Nat /\ start[n] \in Nat /\ start[n + 1] \in Nat
        /\ n + 1 \in 1 .. NumSections + 1 /\ NumSections \in Nat
    BY <1>1, SectionsAssumption, LengthIs
  <2>5. m \in 1 .. size /\ m =< Remaining /\ (m < size => m = Remaining)
    BY <2>2, <2>3, <2>4
  <2>6. /\ p \in PacketType /\ p.first = sent + 1 /\ p.cc = cc /\ p.upto = sent + m
        /\ p.pusi = FALSE /\ Len(p.data) = size
        /\ \A i \in 1 .. Len(p.data) :
             p.data[i] = IF p.first + i - 1 =< p.upto THEN p.first + i - 1 ELSE 0
    BY <1>2, <2>1, <2>4, <2>5
  <2>7. start[n + 1] =< Total
    BY <1>1, <2>4, Grows DEF Total
  <2>8. p.upto =< start[n + 1] /\ p.upto =< Total /\ p.upto \in Nat
    BY <1>1, <2>3, <2>4, <2>5, <2>6, <2>7
  <2>9. p.upto - p.first + 1 < Len(p.data) => Boundary(p.upto)
    <3> SUFFICES ASSUME p.upto - p.first + 1 < Len(p.data)
                 PROVE  start[n + 1] = p.upto
      BY <2>4 DEF Boundary
    <3> QED
      BY <1>1, <2>3, <2>4, <2>5, <2>6
  <2>10. p.first \in 1 .. p.upto /\ p.upto - p.first < Len(p.data) /\ start[n] < p.first - 1
    BY <1>1, <2>3, <2>4, <2>5, <2>6, <2>8
  <2>11. Legal(p)
    BY <2>6, <2>8, <2>9, <2>10 DEF Legal
  <2> QED
    BY <1>1, <2>5, <2>6, <2>8, <2>11
<1>4. CASE p \in Starts
  <2>14. PICK size \in Payloads :
          \E m \in StartsIn(size) : p = Carry(size - 1, m, TRUE, Remaining)
    BY <1>4 DEF Starts
  <2>1. PICK m \in StartsIn(size) : p = Carry(size - 1, m, TRUE, Remaining)
    BY <2>14
  <2>2. /\ m \in Remaining + 1 .. size - 1 /\ sent + m =< Total
        /\ m = size - 1 \/ \E n \in Sections : start[n + 1] = sent + m
    BY <2>1 DEF StartsIn
  <2>3. /\ size \in Nat /\ size - 1 \in Nat /\ MaxSection \in Nat
        /\ MaxSection + size =< FeedSize /\ FeedSize \in Nat
    BY SectionsAssumption
  <2>4. /\ \A n \in Sections : /\ start[n] \in Nat /\ start[n + 1] \in Nat
                               /\ n + 1 \in 1 .. NumSections + 1
                               /\ n \in 1 .. NumSections + 1
        /\ NumSections \in Nat
    BY <1>1, LengthIs
  <2>5. \/ Remaining = 0 /\ (sent = Total \/ \E n \in Sections : start[n] = sent)
        \/ \E n \in Sections : /\ start[n] < sent /\ sent < start[n + 1]
                               /\ Remaining = start[n + 1] - sent
    BY <1>1, RemainingIs
  <2>6. Remaining \in Nat
    BY <1>1, <2>4, <2>5
  <2>7. m \in 1 .. size - 1 /\ Remaining < m /\ sent + m \in Nat
    BY <1>1, <2>2, <2>3, <2>6
  <2>8. /\ p \in PacketType /\ p.first = sent + 1 /\ p.cc = cc /\ p.upto = sent + m
        /\ p.pusi = TRUE /\ p.pointer = Remaining /\ Len(p.data) = size - 1
        /\ \A i \in 1 .. Len(p.data) :
             p.data[i] = IF p.first + i - 1 =< p.upto THEN p.first + i - 1 ELSE 0
    BY <1>2, <2>1, <2>3, <2>6, <2>7
  <2>9. p.upto - p.first + 1 < Len(p.data) => Boundary(p.upto)
    <3> SUFFICES ASSUME m < size - 1
                 PROVE  Boundary(p.upto)
      BY <1>1, <2>3, <2>7, <2>8
    <3>1. PICK n \in Sections : start[n + 1] = sent + m
      BY <2>2, <2>3, <2>7
    <3> QED
      BY <2>4, <2>8, <3>1 DEF Boundary
  <2>10. \E n \in Sections :
           /\ p.first - 1 + p.pointer = start[n] /\ start[n] < p.upto
           /\ p.pointer > 0 => n > 1 /\ start[n - 1] < p.first - 1
    <3>1. CASE Remaining = 0 /\ (sent = Total \/ \E n \in Sections : start[n] = sent)
      <4>1. sent # Total
        BY <1>1, <2>2, <2>7
      <4>2. PICK n \in Sections : start[n] = sent
        BY <3>1, <4>1
      <4>3. /\ p.first - 1 + p.pointer = start[n] /\ start[n] < p.upto
            /\ ~(p.pointer > 0)
        BY <1>1, <2>7, <2>8, <3>1, <4>2
      <4> QED
        BY <4>3
    <3>2. CASE \E n \in Sections : /\ start[n] < sent /\ sent < start[n + 1]
                                   /\ Remaining = start[n + 1] - sent
      <4>1. PICK n \in Sections : /\ start[n] < sent /\ sent < start[n + 1]
                                  /\ Remaining = start[n + 1] - sent
        BY <3>2
      <4>2. start[n + 1] < Total
        BY <1>1, <2>2, <2>4, <2>7, <4>1
      <4>3. n + 1 \in Sections /\ n + 1 > 1 /\ (n + 1) - 1 = n
        <5>1. n + 1 # NumSections + 1
          BY <2>4, <4>2 DEF Total
        <5> QED
          BY <2>4, <5>1 DEF Sections
      <4>4. /\ p.first - 1 + p.pointer = start[n + 1] /\ start[n + 1] < p.upto
            /\ start[n] < p.first - 1
        BY <1>1, <2>4, <2>7, <2>8, <4>1
      <4> QED
        BY <4>3, <4>4
    <3> QED
      BY <2>5, <3>1, <3>2
  <2>11. p.first \in 1 .. p.upto /\ p.upto - p.first < Len(p.data) /\ p.upto =< Total
    BY <1>1, <2>2, <2>3, <2>7, <2>8
  <2>12. MaxSection + Len(p.data) =< FeedSize
    BY <2>3, <2>8
  <2>13. Legal(p)
    BY <2>8, <2>9, <2>10, <2>11, <2>12 DEF Legal
  <2> QED
    BY <1>1, <2>7, <2>8, <2>11, <2>13
<1> QED
  BY <1>3, <1>4 DEF Packets

-----------------------------------------------------------------------------
(* Sections, and what Process makes of a packet. *)

\* A section is the bytes from its start on.
LEMMA SectionIs ==
  ASSUME StreamOK, NEW n \in Sections
  PROVE  /\ Section(n) \in Seq(Nat) /\ Len(Section(n)) = start[n + 1] - start[n]
         /\ \A i \in 1 .. start[n + 1] - start[n] : Section(n)[i] = start[n] + i
         /\ Section(n)[1] = start[n] + 1
<1> DEFINE a == start[n]
           b == start[n + 1]
<1>1. a \in Nat /\ b \in Nat /\ a < b
  BY LengthIs
<1>2. Section(n) = Run(a + 1, b)
  BY DEF Section
<1> HIDE DEF a, b
<1>3. /\ b - (a + 1) + 1 = b - a /\ b - a \in Nat \ {0}
      /\ \A i \in 1 .. b - a : (a + 1) + i - 1 = a + i /\ a + i \in Nat
  BY <1>1
<1>4. Run(a + 1, b) = [i \in 1 .. b - a |-> (a + 1) + i - 1]
  BY <1>3 DEF Run
<1>5. /\ Section(n) \in Seq(Nat) /\ Len(Section(n)) = b - a
      /\ \A i \in 1 .. b - a : Section(n)[i] = a + i
  BY <1>2, <1>3, <1>4
<1>6. Section(n)[1] = a + 1
  BY <1>3, <1>5
<1> QED
  BY <1>5, <1>6 DEF a, b

\* The length read at the start of a section is its length.
LEMMA GetLengthIs ==
  ASSUME StreamOK
  PROVE  /\ \A byte \in Nat : GetLength(byte) \in Nat
         /\ GetLength(0) = MaxSection + 1
         /\ \A n \in Sections : GetLength(start[n] + 1) = start[n + 1] - start[n]
<1>1. /\ MaxSection \in Nat /\ misread \in Nat
      /\ \A n \in Sections : /\ start[n] \in Nat /\ start[n + 1] - start[n] \in Nat
                             /\ n \in 1 .. NumSections + 1
  BY LengthIs, SectionsAssumption DEF StreamOK
<1>2. GetLength(0) = MaxSection + 1
  <2>1. ~\E n \in Sections : 0 = start[n] + 1
    BY <1>1
  <2> QED
    BY <2>1 DEF GetLength
<1>3. ASSUME NEW n \in Sections
      PROVE  GetLength(start[n] + 1) = start[n + 1] - start[n]
  <2> DEFINE byte == start[n] + 1
  <2>1. byte # 0 /\ \E k \in Sections : byte = start[k] + 1
    BY <1>1
  <2>2. PICK k \in Sections :
          k = CHOOSE x \in Sections : byte = start[x] + 1
    BY <2>1
  <2>3. byte = start[k] + 1
    BY <2>1, <2>2
  <2>4. k = n
    <3>1. start[k] = start[n]
      BY <1>1, <2>3
    <3> QED
      BY <1>1, <3>1, Grows
  <2> HIDE DEF byte
  <2>5. GetLength(byte) = start[k + 1] - start[k]
    BY <2>1, <2>2 DEF GetLength
  <2> QED
    BY <2>4, <2>5 DEF byte
<1>4. ASSUME NEW byte \in Nat
      PROVE  GetLength(byte) \in Nat
  <2>1. CASE byte = 0
    BY <1>1, <1>2, <2>1
  <2>2. CASE \E n \in Sections : byte = start[n] + 1
    BY <1>1, <1>3, <2>2
  <2>3. CASE byte # 0 /\ ~\E n \in Sections : byte = start[n] + 1
    BY <1>1, <2>3 DEF GetLength
  <2> QED
    BY <2>1, <2>2, <2>3
<1> QED
  BY <1>2, <1>3, <1>4

\* What there is room for.
LEMMA ClippedIs ==
  ASSUME NEW data \in Seq(Nat), NEW room \in Nat
  PROVE  /\ Clipped(data, room) \in Seq(Nat)
         /\ Len(Clipped(data, room)) = IF Len(data) =< room THEN Len(data) ELSE room
         /\ \A i \in 1 .. Len(Clipped(data, room)) : Clipped(data, room)[i] = data[i]
<1>1. CASE Len(data) =< room
  BY <1>1 DEF Clipped
<1>2. CASE ~(Len(data) =< room)
  <2>1. /\ 1 \in Int /\ room \in Int /\ Len(data) \in Nat
        /\ \A i \in 1 .. room : i \in 1 .. Len(data) /\ 1 + i - 1 = i
    BY <1>2
  <2>2. \A i \in 1 .. room : data[i] \in Nat
    BY <2>1, ElementOfSeq
  <2>3. /\ SubSeq(data, 1, room) \in Seq(Nat)
        /\ Len(SubSeq(data, 1, room)) = IF 1 <= room THEN room - 1 + 1 ELSE 0
        /\ \A i \in 1 .. room - 1 + 1 : SubSeq(data, 1, room)[i] = data[1 + i - 1]
    BY <2>1, <2>2, SubSeqProperties
  <2>4. (IF 1 <= room THEN room - 1 + 1 ELSE 0) = room /\ room - 1 + 1 = room
    BY <2>1
  <2>5. \A i \in 1 .. room : SubSeq(data, 1, room)[i] = data[i]
    BY <2>1, <2>3, <2>4
  <2>6. Clipped(data, room) = SubSeq(data, 1, room)
    BY <1>2 DEF Clipped
  <2> QED
    BY <1>2, <2>3, <2>4, <2>5, <2>6
<1> QED
  BY <1>1, <1>2

\* A packet with a pointer has two parts, the second not empty.
LEMMA PartsAre ==
  ASSUME StreamOK, NEW p \in PacketType, Legal(p)
  PROVE  /\ p.upto \in Nat /\ p.first \in Nat \ {0} /\ p.pointer \in Nat
         /\ Len(p.data) \in Nat /\ p.data \in Seq(Nat)
         /\ p.pusi => p.pointer < Len(p.data) /\ p.first - 1 + p.pointer < p.upto
         /\ IF p.pusi
            THEN LET old == [new |-> FALSE, data |-> SubSeq(p.data, 1, p.pointer)]
                     fresh == [new |-> TRUE,
                               data |-> SubSeq(p.data, p.pointer + 1, Len(p.data))]
                 IN  Parts(p) = <<old, fresh>> /\ Tail(Parts(p)) = <<fresh>>
            ELSE /\ Parts(p) = <<[new |-> FALSE, data |-> p.data]>>
                 /\ Tail(Parts(p)) = <<>>
<1>1. /\ p.upto \in Nat /\ p.first \in Nat \ {0} /\ p.pointer \in Nat
      /\ p.data \in Seq(Nat) /\ Len(p.data) \in Nat /\ p.pusi \in BOOLEAN
      /\ p.first =< p.upto /\ p.upto - p.first < Len(p.data)
  BY DEF Legal, PacketType
<1>2. CASE p.pusi
  <2>1. p.first - 1 + p.pointer < p.upto
    BY <1>2 DEF Legal
  <2>2. p.pointer < Len(p.data)
    BY <1>1, <2>1
  <2>3. p.pointer =< Len(p.data) /\ p.data # <<>>
    BY <1>1, <2>2
  <2> DEFINE old == [new |-> FALSE, data |-> SubSeq(p.data, 1, p.pointer)]
             fresh == [new |-> TRUE,
                       data |-> SubSeq(p.data, p.pointer + 1, Len(p.data))]
  <2>4. Parts(p) = <<old, fresh>>
    BY <1>2, <2>3 DEF Parts
  <2> HIDE DEF old, fresh
  <2>5. Tail(Parts(p)) = <<fresh>>
    BY <2>4
  <2> QED
    BY <1>1, <1>2, <2>1, <2>2, <2>4, <2>5 DEF old, fresh
<1>3. CASE ~p.pusi
  <2> DEFINE all == [new |-> FALSE, data |-> p.data]
  <2>1. Parts(p) = <<all>>
    BY <1>3 DEF Parts
  <2> HIDE DEF all
  <2>2. Tail(Parts(p)) = <<>>
    BY <2>1
  <2> QED
    BY <1>1, <1>3, <2>1, <2>2 DEF all
<1> QED
  BY <1>1, <1>2, <1>3

-----------------------------------------------------------------------------
(* The parts of a packet that are still to be copied. *)

\* The bytes of the first one, and the byte reached when it is done.
Data == Head(parts).data
After ==
  IF Tail(parts) = <<>> THEN packet.upto ELSE packet.first - 1 + packet.pointer

\* A sequence in two.
LEMMA Halves ==
  ASSUME NEW s \in Seq(Nat), NEW n \in 0 .. Len(s)
  PROVE  /\ SubSeq(s, 1, n) \in Seq(Nat) /\ Len(SubSeq(s, 1, n)) = n
         /\ \A i \in 1 .. n : SubSeq(s, 1, n)[i] = s[i]
         /\ SubSeq(s, n + 1, Len(s)) \in Seq(Nat)
         /\ Len(SubSeq(s, n + 1, Len(s))) = Len(s) - n
         /\ \A i \in 1 .. Len(s) - n : SubSeq(s, n + 1, Len(s))[i] = s[n + i]
<1>1. Len(s) \in Nat /\ n \in Nat /\ \A i \in 1 .. Len(s) : s[i] \in Nat
  BY ElementOfSeq
<1>2. /\ SubSeq(s, 1, n) \in Seq(Nat) /\ Len(SubSeq(s, 1, n)) = n
      /\ \A i \in 1 .. n : SubSeq(s, 1, n)[i] = s[i]
  <2>1. \A i \in 1 .. n : s[i] \in Nat
    BY <1>1
  <2> QED
    BY <1>1, <2>1, SubSeqProperties
<1>3. /\ SubSeq(s, n + 1, Len(s)) \in Seq(Nat)
      /\ Len(SubSeq(s, n + 1, Len(s))) = Len(s) - n
      /\ \A i \in 1 .. Len(s) - n : SubSeq(s, n + 1, Len(s))[i] = s[n + i]
  <2>1. \A i \in n + 1 .. Len(s) : s[i] \in Nat
    BY <1>1
  <2>2. /\ SubSeq(s, n + 1, Len(s)) \in Seq(Nat)
        /\ Len(SubSeq(s, n + 1, Len(s))) =
             IF n + 1 <= Len(s) THEN Len(s) - (n + 1) + 1 ELSE 0
        /\ \A i \in 1 .. Len(s) - (n + 1) + 1 :
             SubSeq(s, n + 1, Len(s))[i] = s[(n + 1) + i - 1]
    BY <1>1, <2>1, SubSeqProperties
  <2> QED
    BY <1>1, <2>2
<1> QED
  BY <1>2, <1>3

\* Which part it is.
LEMMA PartIs ==
  ASSUME StreamOK, packet \in PacketType \cup {None}, PartsOK, parts # <<>>
  PROVE  /\ packet # None /\ packet \in PacketType /\ Legal(packet) /\ pc # "idle"
         /\ \/ /\ ~packet.pusi /\ ~Head(parts).new /\ Data = packet.data
               /\ Tail(parts) = <<>>
            \/ /\ packet.pusi /\ ~Head(parts).new
               /\ Data = SubSeq(packet.data, 1, packet.pointer)
               /\ Tail(parts) = Tail(Parts(packet)) /\ Tail(parts) # <<>>
               /\ Head(Tail(parts)).new
            \/ /\ packet.pusi /\ Head(parts).new
               /\ Data = SubSeq(packet.data, packet.pointer + 1, Len(packet.data))
               /\ Tail(parts) = <<>>
         /\ Head(parts).new \in BOOLEAN
         /\ Tail(parts) \in Seq([new : BOOLEAN, data : Seq(Nat)])
<1>1. /\ packet # None /\ packet \in PacketType /\ Legal(packet) /\ pc # "idle"
      /\ parts = Parts(packet) \/ (packet.pusi /\ parts = Tail(Parts(packet)))
  BY DEF PartsOK
<1>2. CASE ~packet.pusi
  <2>1. parts = <<[new |-> FALSE, data |-> packet.data]>>
    BY <1>1, <1>2, PartsAre
  <2> DEFINE all == [new |-> FALSE, data |-> packet.data]
  <2>2. all.new = FALSE /\ all.data = packet.data
    OBVIOUS
  <2> HIDE DEF all
  <2>3. Head(parts) = all /\ Tail(parts) = <<>>
    BY <2>1 DEF all
  <2>4. Tail(parts) \in Seq([new : BOOLEAN, data : Seq(Nat)])
    BY <2>3, EmptySeq
  <2>5. ~Head(parts).new /\ Head(parts).new \in BOOLEAN /\ Data = packet.data
    BY <2>2, <2>3 DEF Data
  <2> QED
    BY <1>1, <1>2, <2>3, <2>4, <2>5
<1>3. CASE packet.pusi
  <2> DEFINE front == SubSeq(packet.data, 1, packet.pointer)
             back == SubSeq(packet.data, packet.pointer + 1, Len(packet.data))
             old == [new |-> FALSE, data |-> front]
             fresh == [new |-> TRUE, data |-> back]
  <2>1. Parts(packet) = <<old, fresh>> /\ Tail(Parts(packet)) = <<fresh>>
    BY <1>1, <1>3, PartsAre
  <2>2. front \in Seq(Nat) /\ back \in Seq(Nat)
    <3>1. /\ packet.data \in Seq(Nat) /\ packet.pointer \in 0 .. Len(packet.data)
      BY <1>1, <1>3, PartsAre
    <3> QED
      BY <3>1, Halves
  <2> HIDE DEF front, back
  <2>3. old \in [new : BOOLEAN, data : Seq(Nat)] /\ fresh \in [new : BOOLEAN, data : Seq(Nat)]
    BY <2>2
  <2>4. old.new = FALSE /\ old.data = front /\ fresh.new = TRUE /\ fresh.data = back
    OBVIOUS
  <2> HIDE DEF old, fresh
  <2>5. CASE parts = Parts(packet)
    <3>1. parts = <<old, fresh>> /\ Head(parts) = old /\ Tail(parts) = <<fresh>>
      BY <2>1, <2>5
    <3>2. Head(Tail(parts)) = fresh /\ Tail(parts) # <<>>
      BY <3>1
    <3>3. Tail(parts) \in Seq([new : BOOLEAN, data : Seq(Nat)])
      BY <2>3, <3>1
    <3> QED
      BY <1>1, <1>3, <2>1, <2>4, <3>1, <3>2, <3>3 DEF Data, front
  <2>6. CASE parts = Tail(Parts(packet))
    <3>1. Head(parts) = fresh /\ Tail(parts) = <<>>
      BY <2>1, <2>6
    <3>2. Tail(parts) \in Seq([new : BOOLEAN, data : Seq(Nat)])
      BY <3>1, EmptySeq
    <3>3. Head(parts).new /\ Head(parts).new \in BOOLEAN /\ Data = back
      BY <2>4, <3>1 DEF Data
    <3> QED
      BY <1>1, <1>3, <3>1, <3>2, <3>3 DEF back
  <2> QED
    BY <1>1, <2>5, <2>6
<1> QED
  BY <1>2, <1>3, <1>1 DEF PacketType

\* It has the bytes that follow.  One that continues a section has no more than
\* that section, one that starts some fits into the buffer.
LEMMA HeadIs ==
  ASSUME StreamOK, packet \in PacketType \cup {None}, PartsOK, parts # <<>>
  PROVE  /\ Data \in Seq(Nat) /\ Len(Data) \in Nat
         /\ Reached \in Nat /\ After \in Nat
         /\ Reached =< After /\ After =< packet.upto /\ After =< Reached + Len(Data)
         /\ \A i \in 1 .. Len(Data) :
              Data[i] = IF Reached + i =< After THEN Reached + i ELSE 0
         /\ After < Reached + Len(Data) => Boundary(After)
         /\ IF Head(parts).new
            THEN /\ \E n \in Sections : Reached = start[n]
                 /\ Reached < After /\ MaxSection + Len(Data) =< FeedSize
            ELSE \/ Data = <<>> /\ After = Reached
                 \/ \E n \in Sections :
                      start[n] < Reached /\ Reached < After /\ After =< start[n + 1]
<1> DEFINE p == packet
<1>1. /\ p # None /\ p \in PacketType /\ Legal(p)
      /\ p.upto \in Nat /\ p.first \in Nat \ {0} /\ p.pointer \in Nat
      /\ Len(p.data) \in Nat /\ p.data \in Seq(Nat) /\ p.first =< p.upto
      /\ p.upto - p.first < Len(p.data)
      /\ p.pusi => p.pointer < Len(p.data) /\ p.first - 1 + p.pointer < p.upto
  <2>1. p # None /\ p \in PacketType /\ Legal(p)
    BY PartIs
  <2>2. p.first =< p.upto /\ p.upto - p.first < Len(p.data)
    BY <2>1 DEF Legal
  <2> QED
    BY <2>1, <2>2, PartsAre
<1>2. /\ \A i \in 1 .. Len(p.data) :
           p.data[i] = IF p.first + i - 1 =< p.upto THEN p.first + i - 1 ELSE 0
      /\ p.upto - p.first + 1 < Len(p.data) => Boundary(p.upto)
  BY <1>1 DEF Legal
<1>3. PICK n \in Sections :
        IF p.pusi
        THEN /\ p.first - 1 + p.pointer = start[n] /\ start[n] < p.upto
             /\ p.pointer > 0 => n > 1 /\ start[n - 1] < p.first - 1
             /\ MaxSection + Len(p.data) =< FeedSize
        ELSE start[n] < p.first - 1 /\ p.upto =< start[n + 1]
  BY <1>1 DEF Legal
<1>4. /\ start[n] \in Nat /\ start[n + 1] \in Nat /\ NumSections \in Nat /\ n \in Nat
      /\ MaxSection \in Nat /\ FeedSize \in Nat
      /\ n > 1 => n - 1 \in Sections /\ (n - 1) + 1 = n /\ start[n - 1] \in Nat
  BY LengthIs, SectionsAssumption DEF Sections
<1>5. CASE /\ ~p.pusi /\ ~Head(parts).new /\ Data = p.data /\ Tail(parts) = <<>>
  <2>1. Reached = p.first - 1 /\ After = p.upto
    BY <1>1, <1>5 DEF Reached, After
  <2>2. \A i \in 1 .. Len(Data) : Data[i] = IF Reached + i =< After THEN Reached + i ELSE 0
    BY <1>1, <1>2, <1>5, <2>1
  <2>3. start[n] < Reached /\ Reached < After /\ After =< start[n + 1]
    BY <1>1, <1>3, <1>5, <2>1
  <2>4. After < Reached + Len(Data) => Boundary(After)
    BY <1>1, <1>2, <1>5, <2>1
  <2>5. /\ Reached \in Nat /\ After \in Nat /\ Reached =< After /\ After =< packet.upto
        /\ After =< Reached + Len(Data)
    BY <1>1, <1>5, <2>1
  <2>6. Data \in Seq(Nat) /\ Len(Data) \in Nat
    BY <1>1, <1>5
  <2>7. IF Head(parts).new
        THEN /\ \E k \in Sections : Reached = start[k]
             /\ Reached < After /\ MaxSection + Len(Data) =< FeedSize
        ELSE \/ Data = <<>> /\ After = Reached
             \/ \E k \in Sections :
                  start[k] < Reached /\ Reached < After /\ After =< start[k + 1]
    BY <1>5, <2>3, Zenon
  <2> QED
    BY <2>2, <2>4, <2>5, <2>6, <2>7, Zenon
<1>6. CASE /\ p.pusi /\ ~Head(parts).new /\ Data = SubSeq(p.data, 1, p.pointer)
           /\ Tail(parts) # <<>>
  <2>5. /\ p.upto \in Nat /\ p.first \in Nat \ {0} /\ p.pointer \in Nat
        /\ Len(p.data) \in Nat /\ p.first =< p.upto
        /\ p.pointer < Len(p.data) /\ p.first - 1 + p.pointer < p.upto
    BY <1>1, <1>6
  <2>1. Reached = p.first - 1 /\ After = p.first - 1 + p.pointer
    BY <1>1, <1>6 DEF Reached, After
  <2>2. /\ Data \in Seq(Nat) /\ Len(Data) = p.pointer
        /\ \A i \in 1 .. p.pointer : Data[i] = p.data[i]
    BY <1>1, <1>6, Halves
  <2>3. ASSUME NEW i \in 1 .. Len(Data)
        PROVE  Data[i] = IF Reached + i =< After THEN Reached + i ELSE 0
    <3>1. i \in 1 .. Len(p.data) /\ p.first + i - 1 =< p.upto /\ Reached + i =< After
      BY <2>1, <2>2, <2>5
    <3> QED
      BY <1>1, <1>2, <2>1, <2>2, <3>1
  <2>4. \/ Data = <<>> /\ After = Reached
        \/ \E k \in Sections :
             start[k] < Reached /\ Reached < After /\ After =< start[k + 1]
    <3>1. CASE p.pointer = 0
      BY <1>1, <2>1, <2>2, <3>1
    <3>2. CASE p.pointer > 0
      <4>1. n - 1 \in Sections /\ (n - 1) + 1 = n /\ start[n - 1] < p.first - 1
        BY <1>3, <1>4, <1>6, <3>2
      <4>2. Reached < After /\ After =< start[(n - 1) + 1]
        <5>1. p.first - 1 + p.pointer = start[n]
          BY <1>3, <1>6
        <5> QED
          BY <2>1, <2>5, <3>2, <4>1, <5>1
      <4> QED
        BY <2>1, <4>1, <4>2
    <3> QED
      BY <1>1, <3>1, <3>2
  <2>6. /\ Reached \in Nat /\ After \in Nat /\ Reached =< After /\ After =< p.upto
        /\ After = Reached + Len(Data)
    <3>1. Len(Data) = p.pointer
      BY <2>2
    <3> DEFINE f == p.first
               u == p.upto
               t == p.pointer
    <3>2. /\ f \in Nat \ {0} /\ u \in Nat /\ t \in Nat /\ f - 1 + t < u
          /\ Reached = f - 1 /\ After = f - 1 + t /\ Len(Data) = t
      BY <2>1, <2>5, <3>1, Zenon
    <3> HIDE DEF f, u, t
    <3>3. /\ Reached \in Nat /\ After \in Nat /\ Reached =< After /\ After =< u
          /\ After = Reached + Len(Data)
      BY <3>2
    <3> QED
      BY <3>3 DEF u
  <2>7. Data \in Seq(Nat) /\ Len(Data) \in Nat
    BY <2>2, <2>5
  <2>8. IF Head(parts).new
        THEN /\ \E k \in Sections : Reached = start[k]
             /\ Reached < After /\ MaxSection + Len(Data) =< FeedSize
        ELSE \/ Data = <<>> /\ After = Reached
             \/ \E k \in Sections :
                  start[k] < Reached /\ Reached < After /\ After =< start[k + 1]
    BY <1>6, <2>4, Zenon
  <2>9. /\ After =< Reached + Len(Data)
        /\ ~(After < Reached + Len(Data))
    BY <2>6, <2>7
  <2> QED
    BY <2>3, <2>6, <2>7, <2>8, <2>9, Zenon
<1>7. CASE /\ p.pusi /\ Head(parts).new /\ Tail(parts) = <<>>
           /\ Data = SubSeq(p.data, p.pointer + 1, Len(p.data))
  <2>1. Reached = p.first - 1 + p.pointer /\ After = p.upto
    BY <1>1, <1>7 DEF Reached, After
  <2>2. /\ p.upto \in Nat /\ p.first \in Nat \ {0} /\ p.pointer \in Nat
        /\ Len(p.data) \in Nat /\ p.first =< p.upto
        /\ p.upto - p.first < Len(p.data)
        /\ p.pointer < Len(p.data) /\ p.first - 1 + p.pointer < p.upto
    BY <1>1, <1>7
  <2>3. /\ Data \in Seq(Nat) /\ Len(Data) = Len(p.data) - p.pointer
        /\ \A i \in 1 .. Len(p.data) - p.pointer : Data[i] = p.data[p.pointer + i]
    <3>1. p.pointer \in 0 .. Len(p.data)
      BY <2>2
    <3> QED
      BY <1>1, <1>7, <3>1, Halves
  <2>9. Len(Data) = Len(p.data) - p.pointer
    BY <2>3
  <2> DEFINE f == p.first
             u == p.upto
             t == p.pointer
             l == Len(p.data)
             r == Reached
             d == Len(Data)
  <2>12. /\ f \in Nat \ {0} /\ u \in Nat /\ t \in Nat /\ l \in Nat /\ r = f - 1 + t
         /\ u - f < l /\ t < l /\ f - 1 + t < u /\ d = l - t
    BY <2>1, <2>2, <2>9
  <2> HIDE DEF f, u, t, l, r, d
  <2>13. /\ r \in Nat /\ d \in Nat /\ d =< l /\ r < u /\ u =< r + d
         /\ u < r + d => u - f + 1 < l
    BY <2>12
  <2>14. ASSUME NEW i \in 1 .. d
         PROVE  t + i \in 1 .. l /\ i \in 1 .. l - t /\ f + (t + i) - 1 = r + i
    BY <2>12
  <2>10. Len(Data) \in Nat /\ Reached \in Nat /\ Len(Data) =< Len(p.data)
    BY <2>13 DEF d, r, l
  <2>11. /\ Reached < p.upto /\ p.upto =< Reached + Len(Data)
         /\ p.upto < Reached + Len(Data) => p.upto - p.first + 1 < Len(p.data)
    BY <2>13 DEF d, r, l, u, f
  <2>15. ASSUME NEW i \in 1 .. Len(Data)
         PROVE  /\ p.pointer + i \in 1 .. Len(p.data)
                /\ i \in 1 .. Len(p.data) - p.pointer
                /\ p.first + (p.pointer + i) - 1 = Reached + i
    BY <2>14 DEF d, r, l, t, f
  <2>4. ASSUME NEW i \in 1 .. Len(Data)
        PROVE  Data[i] = IF Reached + i =< After THEN Reached + i ELSE 0
    <3>1. /\ p.pointer + i \in 1 .. Len(p.data) /\ i \in 1 .. Len(p.data) - p.pointer
          /\ p.first + (p.pointer + i) - 1 = Reached + i
      BY <2>15
    <3>2. Data[i] = p.data[p.pointer + i]
      BY <2>3, <3>1
    <3> QED
      BY <1>2, <2>1, <3>1, <3>2
  <2>5. After < Reached + Len(Data) => Boundary(After)
    BY <1>2, <2>1, <2>10, <2>11
  <2>6. /\ Reached \in Nat /\ After \in Nat /\ Reached < After /\ After =< p.upto
        /\ After =< Reached + Len(Data)
    <3>1. p.upto =< p.upto
      BY <2>2
    <3> QED
      BY <2>1, <2>2, <2>10, <2>11, <3>1, Zenon
  <2>7. Reached = start[n] /\ MaxSection + Len(p.data) =< FeedSize
    BY <1>3, <1>7, <2>1
  <2>8. MaxSection + Len(Data) =< FeedSize
    BY <1>4, <2>2, <2>6, <2>7, <2>10
  <2>16. IF Head(parts).new
         THEN /\ \E k \in Sections : Reached = start[k]
              /\ Reached < After /\ MaxSection + Len(Data) =< FeedSize
         ELSE \/ Data = <<>> /\ After = Reached
              \/ \E k \in Sections :
                   start[k] < Reached /\ Reached < After /\ After =< start[k + 1]
    BY <1>7, <2>6, <2>7, <2>8, Zenon
  <2>17. Reached =< After
    BY <2>6
  <2> QED
    BY <2>3, <2>4, <2>5, <2>6, <2>10, <2>16, <2>17, Zenon
<1> QED
  BY <1>5, <1>6, <1>7, PartIs

-----------------------------------------------------------------------------
(* The buffer. *)

\* Where the bytes of the buffer come from.
LEMMA FedIs ==
  ASSUME StreamOK, NEW b \in Seq(Nat), NEW s \in 0 .. Len(b), NEW u \in 0 .. Total,
         Fed(b, s, u)
  PROVE  /\ From(b) \in Nat /\ Len(b) \in Nat \ {0} /\ s \in Nat /\ s =< Len(b)
         /\ u \in Nat /\ Total \in Nat /\ u =< Total /\ u =< From(b) + Len(b)
         /\ \E m \in 1 .. NumSections + 1 :
              start[m] \in Nat /\ From(b) + s = start[m] /\ start[m] =< u
<1>1. Total \in Nat /\ \A m \in 1 .. NumSections + 1 : start[m] \in Nat
  BY LengthIs DEF Total
<1>2. PICK n \in Sections : From(b) = start[n]
  BY DEF Fed
<1>3. From(b) \in Nat
  BY <1>2, LengthIs
<1>4. Len(b) \in Nat \ {0}
  <2>1. b # <<>>
    BY DEF Fed
  <2> QED
    BY <2>1
<1>5. u =< From(b) + Len(b)
  BY DEF Fed
<1>6. PICK m \in 1 .. NumSections + 1 : From(b) + s = start[m] /\ start[m] =< u
  BY DEF Fed
<1> QED
  BY <1>1, <1>3, <1>4, <1>5, <1>6

\* What is taken for the start of a section in the buffer is one.
LEMMA StartIs ==
  ASSUME StreamOK, NEW b \in Seq(Nat), NEW s \in 0 .. Len(b), NEW u \in 0 .. Total,
         Fed(b, s, u), NEW m \in Sections, From(b) + s = start[m], start[m] < u
  PROVE  /\ s + 1 \in 1 .. Len(b) /\ b[s + 1] = start[m] + 1
         /\ GetLength(b[s + 1]) = start[m + 1] - start[m]
<1>1. /\ start[m] \in Nat /\ u \in Nat /\ From(b) \in Nat /\ Len(b) \in Nat /\ s \in Nat
      /\ s =< Len(b)
  BY LengthIs, FedIs
<1>2. u =< From(b) + Len(b)
  BY DEF Fed
<1>3. s + 1 \in 1 .. Len(b) /\ From(b) + (s + 1) =< u /\ From(b) + (s + 1) = start[m] + 1
  BY <1>1, <1>2
<1>4. b[s + 1] = start[m] + 1
  BY <1>3 DEF Fed
<1> QED
  BY <1>3, <1>4, GetLengthIs

\* A section that is complete in the buffer is one of the stream, and has arrived
\* as a whole.
LEMMA ExtractIs ==
  ASSUME StreamOK, FilterOK, NEW u \in 0 .. Total, Fed(buf, secBufp, u), Complete
  PROVE  \E m \in Sections :
           /\ Taken = start[m] /\ start[m + 1] =< u
           /\ GetLength(buf[secBufp + 1]) = start[m + 1] - start[m]
           /\ SubSeq(buf, secBufp + 1, secBufp + GetLength(buf[secBufp + 1])) = Section(m)
<1>1. PICK m \in 1 .. NumSections + 1 : Taken = start[m] /\ start[m] =< u
  BY DEF Fed, Taken
<1>2. /\ start[m] \in Nat /\ u \in Nat /\ Total \in Nat /\ u =< Total /\ NumSections \in Nat
      /\ HeaderSize \in Nat \ {0} /\ MaxSection \in Nat
      /\ buf \in Seq(Nat) /\ Len(buf) \in Nat /\ secBufp \in 0 .. Len(buf)
      /\ From(buf) \in Nat
  BY LengthIs, SectionsAssumption, FedIs DEF Total, FilterOK
<1>3. secBufp + HeaderSize =< Len(buf) /\ GetLength(buf[secBufp + 1]) =< MaxSection
  BY DEF Complete
<1>4. start[m] < u
  <2> SUFFICES ASSUME start[m] = u
               PROVE  FALSE
    BY <1>1, <1>2
  <2>1. /\ secBufp + 1 \in 1 .. Len(buf) /\ ~(From(buf) + (secBufp + 1) =< u)
    BY <1>1, <1>2, <1>3 DEF Taken
  <2>2. buf[secBufp + 1] = 0
    BY <2>1 DEF Fed
  <2>3. GetLength(buf[secBufp + 1]) = MaxSection + 1
    BY <2>2, GetLengthIs
  <2> QED
    BY <1>2, <1>3, <2>3
<1>5. m \in Sections
  <2>1. m # NumSections + 1
    BY <1>2, <1>4 DEF Total
  <2> QED
    BY <1>2, <2>1 DEF Sections
<1>6. GetLength(buf[secBufp + 1]) = start[m + 1] - start[m]
  <2>1. From(buf) + secBufp = start[m]
    BY <1>1 DEF Taken
  <2>2. buf \in Seq(Nat) /\ secBufp \in 0 .. Len(buf)
    BY <1>2
  <2> QED
    BY <1>4, <1>5, <2>1, <2>2, StartIs, Zenon
<1>7. PICK a \in Nat, e \in Nat, f \in Nat, l \in Nat, p \in Nat :
        a = start[m] /\ e = start[m + 1] /\ f = From(buf) /\ l = Len(buf) /\ p = secBufp
  <2>1. start[m + 1] \in Nat
    BY <1>5, LengthIs
  <2>2. secBufp \in Nat
    BY <1>2
  <2> QED
    BY <1>2, <2>1, <2>2, Zenon
<1>8. /\ a < e /\ f + p = a /\ p + (e - a) =< l /\ p =< l /\ a =< u /\ u \in Nat
      /\ m + 1 \in 1 .. NumSections + 1
      /\ GetLength(buf[secBufp + 1]) = e - a /\ secBufp + (e - a) = p + (e - a)
  <2>1. start[m] < start[m + 1] /\ m + 1 \in 1 .. NumSections + 1
    BY <1>5, LengthIs
  <2>2. GetLength(buf[secBufp + 1]) = e - a
    BY <1>6, <1>7
  <2>3. p + (e - a) =< l
    BY <1>7, <2>2 DEF Complete
  <2> QED
    BY <1>1, <1>2, <1>7, <2>1, <2>2, <2>3 DEF Taken
<1>9. e =< u
  <2> SUFFICES ASSUME u < e
               PROVE  FALSE
    BY <1>8
  <2>1. u < f + l
    BY <1>8
  <2>2. Boundary(u)
    BY <1>7, <2>1 DEF Fed
  <2>3. PICK k \in 1 .. NumSections + 1 : start[k] = u
    BY <2>2 DEF Boundary
  <2>4. m < k /\ k < m + 1
    BY <1>4, <1>7, <1>8, <2>3, Grows
  <2> QED
    BY <1>5, <2>4 DEF Sections
<1>10. SubSeq(buf, p + 1, p + (e - a)) = Section(m)
  <2> DEFINE len == e - a
             lo == p + 1
             hi == p + len
             part == SubSeq(buf, lo, hi)
  <2>1. /\ hi - lo + 1 = len /\ lo <= hi /\ lo \in Int /\ hi \in Int /\ len \in Nat
        /\ \A i \in lo .. hi : i \in 1 .. l
        /\ \A i \in 1 .. len : lo + i - 1 \in 1 .. l /\ f + (lo + i - 1) = a + i /\ a + i =< u
    BY <1>8, <1>9
  <2>2. \A i \in 1 .. l : /\ buf[i] \in Nat
                          /\ buf[i] = IF f + i =< u THEN f + i ELSE 0
    BY <1>2, <1>7, ElementOfSeq DEF Fed
  <2> HIDE DEF lo, hi, len
  <2>3. \A i \in lo .. hi : buf[i] \in Nat
    BY <2>1, <2>2
  <2>4. /\ part \in Seq(Nat)
        /\ Len(part) = IF lo <= hi THEN hi - lo + 1 ELSE 0
        /\ \A i \in 1 .. hi - lo + 1 : part[i] = buf[lo + i - 1]
    BY <2>1, <2>3, SubSeqProperties
  <2>5. Len(part) = len /\ \A i \in 1 .. len : part[i] = buf[lo + i - 1]
    BY <2>1, <2>4
  <2>6. ASSUME NEW i \in 1 .. len
        PROVE  part[i] = a + i
    BY <2>1, <2>2, <2>5
  <2>7. /\ Section(m) \in Seq(Nat) /\ Len(Section(m)) = len
        /\ \A i \in 1 .. len : Section(m)[i] = a + i
    BY <1>5, <1>7, SectionIs DEF len
  <2> HIDE DEF part
  <2>8. part = Section(m)
    BY <2>4, <2>5, <2>6, <2>7, SeqEqual
  <2> QED
    BY <2>8 DEF part, lo, hi, len
<1>11. /\ Taken = start[m] /\ start[m + 1] =< u
       /\ GetLength(buf[secBufp + 1]) = start[m + 1] - start[m]
  BY <1>1, <1>6, <1>7, <1>9
<1>12. SubSeq(buf, secBufp + 1, secBufp + GetLength(buf[secBufp + 1])) = Section(m)
  BY <1>7, <1>8, <1>10
<1> QED
  BY <1>5, <1>11, <1>12

\* If none is complete, none that has not been taken out has arrived as a whole.
LEMMA UnfinishedIs ==
  ASSUME StreamOK, FilterOK, NEW u \in 0 .. Total, Fed(buf, secBufp, u), ~Complete
  PROVE  Waiting(Taken, u)
<1> SUFFICES ASSUME NEW n \in Sections, Taken =< start[n], ~(u < start[n + 1])
             PROVE  FALSE
  BY DEF Waiting
<1>1. PICK m \in 1 .. NumSections + 1 : Taken = start[m] /\ start[m] =< u
  BY DEF Fed, Taken
<1>2. /\ start[m] \in Nat /\ u \in Nat /\ NumSections \in Nat
      /\ HeaderSize \in Nat \ {0} /\ MaxSection \in Nat
      /\ buf \in Seq(Nat) /\ Len(buf) \in Nat /\ secBufp \in 0 .. Len(buf)
      /\ From(buf) \in Nat /\ u =< From(buf) + Len(buf)
      /\ start[n] \in Nat /\ start[n + 1] \in Nat
      /\ {n, n + 1} \subseteq 1 .. NumSections + 1
  BY LengthIs, SectionsAssumption, FedIs DEF FilterOK
<1>3. m =< n
  <2>1. ~(start[n] < start[m])
    BY <1>1, <1>2
  <2>2. ~(n < m)
    BY <1>2, <2>1, Grows
  <2> QED
    BY <1>2, <2>2
<1>4. m \in Sections /\ m + 1 \in 1 .. NumSections + 1 /\ m + 1 =< n + 1
  BY <1>2, <1>3 DEF Sections
<1>5. start[m + 1] =< start[n + 1]
  BY <1>2, <1>4, Grows
<1>6. /\ start[m + 1] \in Nat /\ start[m] < start[m + 1]
      /\ start[m + 1] - start[m] \in HeaderSize .. MaxSection
  BY <1>4, LengthIs
<1>7. PICK a \in Nat, e \in Nat, z \in Nat, f \in Nat, l \in Nat, p \in Nat :
        /\ a = start[m] /\ e = start[m + 1] /\ z = start[n + 1] /\ f = From(buf)
        /\ l = Len(buf) /\ p = secBufp
  <2>1. /\ start[m] \in Nat /\ start[m + 1] \in Nat /\ start[n + 1] \in Nat
        /\ From(buf) \in Nat /\ Len(buf) \in Nat /\ secBufp \in Nat
    BY <1>2, <1>6
  <2> QED
    BY <2>1, Zenon
<1>8. /\ a < e /\ e =< z /\ ~(u < z) /\ u =< f + l /\ f + p = a /\ u \in Nat
      /\ e - a =< MaxSection /\ HeaderSize =< e - a /\ MaxSection \in Nat /\ HeaderSize \in Nat
  <2>1. f + p = a
    BY <1>1, <1>7 DEF Taken
  <2>2. e - a \in HeaderSize .. MaxSection
    BY <1>6, <1>7
  <2> QED
    BY <1>2, <1>5, <1>6, <1>7, <2>1, <2>2
<1>9. a < u /\ p + (e - a) =< l /\ p + HeaderSize =< l
  BY <1>8
<1>10. GetLength(buf[secBufp + 1]) = e - a
  <2>1. From(buf) + secBufp = start[m] /\ start[m] < u
    BY <1>1, <1>7, <1>9 DEF Taken
  <2>2. buf \in Seq(Nat) /\ secBufp \in 0 .. Len(buf) /\ m \in Sections
    BY <1>2, <1>4
  <2>3. GetLength(buf[secBufp + 1]) = start[m + 1] - start[m]
    BY <2>1, <2>2, StartIs
  <2> QED
    BY <1>7, <2>3
<1>11. Complete
  <2>1. secBufp + HeaderSize =< Len(buf) /\ secBufp + (e - a) =< Len(buf)
    BY <1>7, <1>9
  <2> QED
    BY <1>8, <1>10, <2>1 DEF Complete
<1> QED
  BY <1>11

-----------------------------------------------------------------------------
(* Types.  Each lemma is about one action. *)

\* The parts of a packet, the first of which continues a section.
LEMMA PartsType ==
  ASSUME StreamOK, NEW p \in PacketType, Legal(p)
  PROVE  /\ Parts(p) \in Seq([new : BOOLEAN, data : Seq(Nat)])
         /\ Parts(p) # <<>> /\ Head(Parts(p)).new = FALSE
<1>1. CASE p.pusi
  <2> DEFINE front == SubSeq(p.data, 1, p.pointer)
             back == SubSeq(p.data, p.pointer + 1, Len(p.data))
             old == [new |-> FALSE, data |-> front]
             fresh == [new |-> TRUE, data |-> back]
  <2>1. Parts(p) = <<old, fresh>>
    BY <1>1, PartsAre
  <2>2. p.data \in Seq(Nat) /\ p.pointer \in 0 .. Len(p.data)
    BY <1>1, PartsAre
  <2>3. front \in Seq(Nat) /\ back \in Seq(Nat)
    BY <2>2, Halves
  <2> HIDE DEF front, back
  <2>4. /\ old \in [new : BOOLEAN, data : Seq(Nat)]
        /\ fresh \in [new : BOOLEAN, data : Seq(Nat)] /\ old.new = FALSE
    BY <2>3
  <2> HIDE DEF old, fresh
  <2> QED
    BY <2>1, <2>4
<1>2. CASE ~p.pusi
  <2> DEFINE all == [new |-> FALSE, data |-> p.data]
  <2>1. Parts(p) = <<all>>
    BY <1>2, PartsAre
  <2>2. all \in [new : BOOLEAN, data : Seq(Nat)] /\ all.new = FALSE
    BY PartsAre
  <2> HIDE DEF all
  <2> QED
    BY <2>1, <2>2
<1> QED
  BY <1>1, <1>2

\* What the filter is after Process.
LEMMA ProcessIs ==
  ASSUME TypeOK, NEW p \in PacketType, Legal(p), NEW announced \in BOOLEAN,
         Process(p, announced)
  PROVE  /\ StreamOK' /\ FilterOK' /\ start' = start /\ ring' = ring /\ out' = out
         /\ pc = "idle" /\ pc' = "copy" /\ packet' = p /\ packet' \in PacketType
         /\ packet' # None /\ feedCc' = p.cc /\ parts' = Parts(p) /\ dropped' = dropped
         /\ \/ /\ (feedCc + 1) % CcMod = p.cc /\ ~announced
               /\ pusiSeen' = pusiSeen /\ buf' = buf /\ secBufp' = secBufp
            \/ /\ ~((feedCc + 1) % CcMod = p.cc /\ ~announced) /\ pusiSeen' = FALSE
<1>1. /\ start' = start /\ misread' = misread /\ ring' = ring /\ out' = out
      /\ pc = "idle" /\ pc' = "copy" /\ packet' = p /\ feedCc' = p.cc
      /\ parts' = Parts(p) /\ dropped' = dropped
  BY DEF Process, stream
<1>2. \/ /\ (feedCc + 1) % CcMod = p.cc /\ ~announced
         /\ pusiSeen' = pusiSeen /\ buf' = buf /\ secBufp' = secBufp
      \/ /\ ~((feedCc + 1) % CcMod = p.cc /\ ~announced)
         /\ pusiSeen' = FALSE /\ buf' = <<>> /\ secBufp' = 0
  BY DEF Process, Discontinuity, New
<1>3. StreamOK'
  BY <1>1 DEF TypeOK, StreamOK
<1>4. p # None
  BY SectionsAssumption
<1>5. p.cc \in 0 .. CcMod - 1
  BY DEF PacketType
<1>6. /\ pusiSeen' \in BOOLEAN /\ buf' \in Seq(Nat) /\ Len(buf') =< FeedSize
      /\ secBufp' \in 0 .. Len(buf')
  <2>1. CASE pusiSeen' = pusiSeen /\ buf' = buf /\ secBufp' = secBufp
    BY <2>1 DEF TypeOK, FilterOK
  <2>2. CASE pusiSeen' = FALSE /\ buf' = <<>> /\ secBufp' = 0
    <3>1. FeedSize \in Nat /\ buf' \in Seq(Nat)
      BY <2>2, SectionsAssumption, EmptySeq
    <3>2. Len(buf') = 0
      BY <2>2
    <3>3. secBufp' = 0 /\ pusiSeen' = FALSE
      BY <2>2
    <3>4. pusiSeen' \in BOOLEAN
      BY <3>3
    <3>5. Len(buf') =< FeedSize /\ secBufp' \in 0 .. Len(buf')
      BY <3>1, <3>2, <3>3
    <3> QED
      BY <3>1, <3>4, <3>5
  <2> QED
    BY <1>2, <2>1, <2>2
<1>7. parts' \in Seq([new : BOOLEAN, data : Seq(Nat)])
  BY <1>1, PartsType DEF TypeOK
<1>8. FilterOK'
  BY <1>1, <1>5, <1>6, <1>7 DEF FilterOK
<1> QED
  BY <1>1, <1>2, <1>3, <1>4, <1>8

\* Receive.
LEMMA ReceiveType ==
  ASSUME TypeOK, Receive
  PROVE  TypeOK'
<1>1. PICK p \in Packets, announced \in BOOLEAN :
        /\ Process(p, announced)
        /\ sent' = p.upto /\ cc' = (cc + 1) % CcMod /\ gap' = 0
        /\ IF announced THEN Upset /\ broken' = broken \cup Interrupted
                        ELSE UNCHANGED <<upsets, broken>>
        /\ lost' = lost
  BY DEF Receive
<1>2. p \in PacketType /\ Legal(p) /\ p.upto \in 0 .. Total
  <2>1. /\ p \in PacketType /\ Legal(p) /\ p.upto =< Total /\ p.upto \in Nat
    BY PacketsAre
  <2> QED
    BY <2>1 DEF TypeOK, WayOK
<1>3. /\ StreamOK' /\ FilterOK' /\ start' = start /\ ring' = ring /\ out' = out
      /\ packet' \in PacketType /\ dropped' = dropped
  BY <1>1, <1>2, ProcessIs
<1>4. WayOK'
  <2>1. (cc + 1) % CcMod \in 0 .. CcMod - 1 /\ 0 \in 0 .. CcMod - 1
    BY SectionsAssumption DEF TypeOK, WayOK
  <2>2. Total' = Total
    BY <1>3 DEF Total
  <2> QED
    BY <1>1, <1>2, <1>3, <2>1, <2>2 DEF WayOK
<1>5. OutputOK'
  <2>1. upsets' \in 0 .. MaxUpsets
    BY <1>1, SectionsAssumption DEF Upset, TypeOK, OutputOK
  <2>2. broken' \subseteq Sections
    BY <1>1 DEF Interrupted, TypeOK, OutputOK
  <2> QED
    BY <1>1, <1>3, <2>1, <2>2 DEF TypeOK, OutputOK
<1> QED
  BY <1>3, <1>4, <1>5 DEF TypeOK

\* Lose.
LEMMA LoseType ==
  ASSUME TypeOK, Lose
  PROVE  TypeOK'
<1>1. PICK p \in Packets :
        /\ sent' = p.upto
        /\ broken' = broken \cup
             {n \in Sections : Bytes(n) \cap p.first .. p.upto # {}}
  BY DEF Lose
<1>2. p.upto \in Nat /\ p.upto =< Total /\ Total \in Nat
  BY PacketsAre, LengthIs DEF TypeOK, Total
<1>3. /\ lost < MaxLost /\ gap < CcMod - 1
      /\ cc' = (cc + 1) % CcMod /\ gap' = gap + 1 /\ lost' = lost + 1
      /\ start' = start /\ misread' = misread /\ packet' = packet
      /\ UNCHANGED <<filter, ring, out, dropped, upsets>>
  BY DEF Lose, stream
<1>4. StreamOK'
  BY <1>3 DEF TypeOK, StreamOK
<1>5. WayOK'
  <2>1. (cc + 1) % CcMod \in 0 .. CcMod - 1 /\ gap + 1 \in 0 .. CcMod - 1
    BY <1>3, SectionsAssumption DEF TypeOK, WayOK
  <2>2. Total' = Total /\ p.upto \in 0 .. Total
    BY <1>2, <1>3 DEF Total
  <2> QED
    BY <1>1, <1>3, <2>1, <2>2 DEF TypeOK, WayOK
<1>6. FilterOK'
  BY <1>3 DEF TypeOK, FilterOK, filter
<1>7. OutputOK'
  <2>1. lost' \in 0 .. MaxLost
    BY <1>3, SectionsAssumption DEF TypeOK, OutputOK
  <2> QED
    BY <1>1, <1>3, <2>1 DEF TypeOK, OutputOK
<1> QED
  BY <1>4, <1>5, <1>6, <1>7 DEF TypeOK

\* Repeat.
LEMMA RepeatType ==
  ASSUME TypeOK, PartsOK, Repeat
  PROVE  TypeOK'
<1>1. /\ packet \in PacketType /\ Legal(packet)
      /\ Process(packet, FALSE) /\ Upset
      /\ broken' = broken \cup {n \in Interrupted : start[n] + 1 < packet.first}
      /\ sent' = sent /\ cc' = cc /\ gap' = gap /\ lost' = lost
  BY DEF Repeat, TypeOK, WayOK, PartsOK
<1>2. /\ StreamOK' /\ FilterOK' /\ start' = start /\ ring' = ring /\ out' = out
      /\ packet' \in PacketType /\ dropped' = dropped
  <2>1. FALSE \in BOOLEAN
    OBVIOUS
  <2> QED
    BY <1>1, <2>1, ProcessIs
<1>3. WayOK'
  <2>1. Total' = Total
    BY <1>2 DEF Total
  <2> QED
    BY <1>1, <1>2, <2>1 DEF TypeOK, WayOK
<1>4. OutputOK'
  <2>1. upsets' \in 0 .. MaxUpsets
    BY <1>1, SectionsAssumption DEF Upset, TypeOK, OutputOK
  <2>2. broken' \subseteq Sections
    BY <1>1 DEF Interrupted, TypeOK, OutputOK
  <2> QED
    BY <1>1, <1>2, <2>1, <2>2 DEF TypeOK, OutputOK
<1> QED
  BY <1>2, <1>3, <1>4 DEF TypeOK

\* What CopyDump leaves in the buffer, and what it adds.
Old == IF Head(parts).new THEN <<>> ELSE buf
More == Clipped(Data, FeedSize - Len(Old))

\* What the filter is after it.
LEMMA CopyIs ==
  ASSUME TypeOK, PartsOK, CopyDump
  PROVE  /\ StreamOK' /\ FilterOK' /\ packet # None /\ Head(parts).new \in BOOLEAN
         /\ start' = start /\ ring' = ring /\ out' = out /\ feedCc' = feedCc
         /\ sent' = sent /\ cc' = cc /\ gap' = gap /\ packet' = packet
         /\ broken' = broken /\ dropped' = dropped /\ lost' = lost /\ upsets' = upsets
         /\ pc = "copy" /\ parts # <<>> /\ parts' = Tail(parts)
         /\ Old \in Seq(Nat) /\ More \in Seq(Nat) /\ Len(Old) \in Nat /\ Len(Old) =< FeedSize
         /\ Len(More) = IF Len(Data) =< FeedSize - Len(Old) THEN Len(Data)
                                                            ELSE FeedSize - Len(Old)
         /\ \A i \in 1 .. Len(More) : More[i] = Data[i]
         /\ buf' = Old \o More /\ Len(buf') = Len(Old) + Len(More)
         /\ \A i \in 1 .. Len(Old) : buf'[i] = Old[i]
         /\ \A i \in 1 .. Len(More) : buf'[Len(Old) + i] = More[i]
         /\ secBufp' = IF Head(parts).new THEN 0 ELSE secBufp
         /\ pusiSeen' = (pusiSeen \/ Head(parts).new)
         /\ pc' = IF More = <<>> THEN "copy" ELSE "extract"
         /\ Reached' = After
<1>1. /\ pc = "copy" /\ parts # <<>> /\ parts' = Tail(parts)
      /\ buf' = Old \o More
      /\ secBufp' = IF Head(parts).new THEN 0 ELSE secBufp
      /\ pusiSeen' = (pusiSeen \/ Head(parts).new)
      /\ pc' = IF More = <<>> THEN "copy" ELSE "extract"
  BY DEF CopyDump, Old, More, Data
<1>2. /\ start' = start /\ misread' = misread /\ ring' = ring /\ out' = out
      /\ feedCc' = feedCc /\ sent' = sent /\ cc' = cc /\ gap' = gap
      /\ packet' = packet /\ broken' = broken /\ dropped' = dropped /\ lost' = lost
      /\ upsets' = upsets
  BY DEF CopyDump, stream, way, history
<1>3. /\ StreamOK /\ packet \in PacketType \cup {None}
      /\ buf \in Seq(Nat) /\ Len(buf) \in Nat /\ Len(buf) =< FeedSize
      /\ secBufp \in 0 .. Len(buf)
      /\ pusiSeen \in BOOLEAN /\ feedCc \in 0 .. CcMod - 1 /\ FeedSize \in Nat
  BY SectionsAssumption DEF TypeOK, WayOK, FilterOK
<1>4. /\ packet # None /\ Head(parts).new \in BOOLEAN
      /\ Tail(parts) \in Seq([new : BOOLEAN, data : Seq(Nat)])
      /\ Tail(parts) # <<>> => Head(Tail(parts)).new
      /\ Data \in Seq(Nat)
  BY <1>1, <1>3, PartIs, HeadIs
<1>5. Old \in Seq(Nat) /\ Len(Old) \in Nat /\ Len(Old) =< FeedSize
  <2>1. CASE Head(parts).new
    <3>1. Old = <<>>
      BY <2>1 DEF Old
    <3>2. Len(Old) = 0
      BY <3>1
    <3> QED
      BY <1>3, <3>1, <3>2, EmptySeq
  <2>2. CASE ~Head(parts).new
    BY <1>3, <2>2 DEF Old
  <2> QED
    BY <2>1, <2>2
<1> DEFINE room == FeedSize - Len(Old)
<1>6. room \in Nat
  BY <1>3, <1>5
<1>7. /\ More \in Seq(Nat)
      /\ Len(More) = IF Len(Data) =< room THEN Len(Data) ELSE room
      /\ \A i \in 1 .. Len(More) : More[i] = Data[i]
  <2>1. More = Clipped(Data, room)
    BY DEF More
  <2> HIDE DEF room
  <2> QED
    BY <1>4, <1>6, <2>1, ClippedIs
<1> HIDE DEF room
<1>8. Len(More) \in Nat /\ Len(Data) \in Nat
  BY <1>4, <1>7
<1>9. Len(Old) + Len(More) =< FeedSize
  BY <1>3, <1>5, <1>6, <1>7, <1>8 DEF room
<1>10. /\ Old \o More \in Seq(Nat) /\ Len(Old \o More) = Len(Old) + Len(More)
       /\ \A i \in 1 .. Len(Old) + Len(More) :
            (Old \o More)[i] = IF i =< Len(Old) THEN Old[i] ELSE More[i - Len(Old)]
  BY <1>5, <1>7, ConcatProperties
<1>11. /\ buf' \in Seq(Nat) /\ Len(buf') = Len(Old) + Len(More)
       /\ \A i \in 1 .. Len(Old) : buf'[i] = Old[i]
       /\ \A i \in 1 .. Len(More) : buf'[Len(Old) + i] = More[i]
  <2> DEFINE o == Len(Old)
             k == Len(More)
  <2>1. o \in Nat /\ k \in Nat
    BY <1>5, <1>8
  <2>2. \A i \in 1 .. o + k : (Old \o More)[i] = IF i =< o THEN Old[i] ELSE More[i - o]
    BY <1>10
  <2> HIDE DEF o, k
  <2>3. ASSUME NEW i \in 1 .. o
        PROVE  (Old \o More)[i] = Old[i]
    <3>1. i \in 1 .. o + k /\ i =< o
      BY <2>1
    <3> QED
      BY <2>2, <3>1
  <2>4. ASSUME NEW i \in 1 .. k
        PROVE  (Old \o More)[o + i] = More[i]
    <3>1. o + i \in 1 .. o + k /\ ~(o + i =< o) /\ (o + i) - o = i
      BY <2>1
    <3> QED
      BY <2>2, <3>1
  <2> QED
    BY <1>1, <1>10, <2>3, <2>4 DEF o, k
<1>12. StreamOK'
  BY <1>2, <1>3 DEF StreamOK
<1>13. FilterOK'
  <2>1. Len(buf') =< FeedSize
    BY <1>9, <1>11
  <2>2. secBufp' \in 0 .. Len(buf')
    <3>1. CASE Head(parts).new
      BY <1>1, <1>5, <1>8, <1>11, <3>1
    <3>2. CASE ~Head(parts).new
      <4>1. Old = buf /\ secBufp' = secBufp
        BY <1>1, <3>2 DEF Old
      <4> QED
        BY <1>3, <1>8, <1>11, <4>1
    <3> QED
      BY <3>1, <3>2
  <2>3. pc' \in {"idle", "copy", "extract"} /\ pusiSeen' \in BOOLEAN
    BY <1>1, <1>3, <1>4
  <2>4. parts' \in Seq([new : BOOLEAN, data : Seq(Nat)]) /\ feedCc' \in 0 .. CcMod - 1
    BY <1>1, <1>2, <1>3, <1>4
  <2> QED
    BY <1>11, <2>1, <2>2, <2>3, <2>4 DEF FilterOK
<1>14. Reached' = After
  <2>1. packet' # None
    BY <1>2, <1>4
  <2>2. CASE Tail(parts) = <<>>
    BY <1>1, <1>2, <2>1, <2>2 DEF Reached, After
  <2>3. CASE Tail(parts) # <<>>
    <3>1. Head(parts').new
      BY <1>1, <1>4, <2>3
    <3> QED
      BY <1>1, <1>2, <2>1, <2>3, <3>1 DEF Reached, After
  <2> QED
    BY <2>2, <2>3
<1>15. Len(More) = IF Len(Data) =< FeedSize - Len(Old) THEN Len(Data)
                                                       ELSE FeedSize - Len(Old)
  BY <1>7 DEF room
<1> QED
  BY <1>1, <1>2, <1>4, <1>5, <1>7, <1>11, <1>12, <1>13, <1>14, <1>15

\* CopyDump.
LEMMA CopyType ==
  ASSUME TypeOK, PartsOK, CopyDump
  PROVE  TypeOK'
<1>1. /\ StreamOK' /\ FilterOK' /\ start' = start /\ ring' = ring /\ out' = out
      /\ sent' = sent /\ cc' = cc /\ gap' = gap /\ packet' = packet
      /\ broken' = broken /\ dropped' = dropped /\ lost' = lost /\ upsets' = upsets
  BY CopyIs
<1>2. WayOK'
  BY <1>1 DEF TypeOK, WayOK, Total
<1>3. OutputOK'
  BY <1>1 DEF TypeOK, OutputOK
<1> QED
  BY <1>1, <1>2, <1>3 DEF TypeOK

\* A section that is complete is within the buffer.
LEMMA CompleteIs ==
  ASSUME FilterOK, StreamOK, Complete
  PROVE  /\ secBufp + 1 \in 1 .. Len(buf) /\ GetLength(buf[secBufp + 1]) \in Nat
         /\ secBufp + GetLength(buf[secBufp + 1]) \in 0 .. Len(buf)
         /\ SubSeq(buf, secBufp + 1, secBufp + GetLength(buf[secBufp + 1])) \in Seq(Nat)
<1>1. /\ buf \in Seq(Nat) /\ Len(buf) \in Nat /\ secBufp \in Nat /\ HeaderSize \in Nat \ {0}
      /\ secBufp + HeaderSize =< Len(buf)
  BY SectionsAssumption DEF FilterOK, Complete
<1>2. secBufp + 1 \in 1 .. Len(buf)
  BY <1>1
<1>3. buf[secBufp + 1] \in Nat
  BY <1>1, <1>2, ElementOfSeq
<1> DEFINE len == GetLength(buf[secBufp + 1])
<1>4. len \in Nat
  BY <1>3, GetLengthIs
<1>5. secBufp + len =< Len(buf)
  BY DEF Complete
<1> HIDE DEF len
<1> DEFINE lo == secBufp + 1
           hi == secBufp + len
<1>6. /\ lo \in Int /\ hi \in Int /\ \A i \in lo .. hi : i \in 1 .. Len(buf)
      /\ hi \in 0 .. Len(buf)
  BY <1>1, <1>4, <1>5
<1> HIDE DEF lo, hi
<1>7. \A i \in lo .. hi : buf[i] \in Nat
  BY <1>1, <1>6, ElementOfSeq
<1>8. SubSeq(buf, lo, hi) \in Seq(Nat)
  BY <1>6, <1>7, SubSeqProperties
<1> QED
  BY <1>2, <1>4, <1>6, <1>8 DEF lo, hi, len

\* One round of the loop of CopyDump.
LEMMA ExtractType ==
  ASSUME TypeOK, Extract
  PROVE  TypeOK'
<1> DEFINE len == GetLength(buf[secBufp + 1])
           section == SubSeq(buf, secBufp + 1, secBufp + len)
           ids == {n \in Sections : start[n] + 1 = section[1]}
<1>1. /\ Complete /\ secBufp' = secBufp + len
      /\ IF pusiSeen THEN Filter(section) ELSE UNCHANGED <<ring, dropped>>
      /\ UNCHANGED <<stream, way, pusiSeen, feedCc, buf, parts, pc>>
      /\ UNCHANGED <<out, broken, lost, upsets>>
  BY DEF Extract
<1>2. secBufp + len \in 0 .. Len(buf) /\ section \in Seq(Nat)
  BY <1>1, CompleteIs DEF TypeOK
<1>3. \/ ring' = ring /\ dropped' = dropped
      \/ Len(ring) < RingSize /\ ring' = Append(ring, section) /\ dropped' = dropped
      \/ ring' = ring /\ dropped' = dropped \cup ids
  <2> HIDE DEF section
  <2> QED
    BY <1>1 DEF Filter
<1> HIDE DEF section, len
<1>4. StreamOK'
  BY <1>1 DEF TypeOK, StreamOK, stream
<1>5. WayOK'
  BY <1>1 DEF TypeOK, WayOK, Total, stream, way
<1>6. FilterOK'
  BY <1>1, <1>2 DEF TypeOK, FilterOK
<1>7. OutputOK'
  <2>1. ring \in Seq(Seq(Nat)) /\ Len(ring) =< RingSize /\ RingSize \in Nat
    BY SectionsAssumption DEF TypeOK, OutputOK
  <2>2. ring' \in Seq(Seq(Nat)) /\ Len(ring') =< RingSize
    <3>1. CASE ring' = ring
      BY <2>1, <3>1
    <3>2. CASE Len(ring) < RingSize /\ ring' = Append(ring, section)
      <4>1. ring' \in Seq(Seq(Nat)) /\ Len(ring') = Len(ring) + 1 /\ Len(ring) \in Nat
        BY <1>2, <2>1, <3>2, AppendProperties
      <4> QED
        BY <2>1, <3>2, <4>1
    <3> QED
      BY <1>3, <3>1, <3>2
  <2>3. dropped' \subseteq Sections
    BY <1>3 DEF TypeOK, OutputOK
  <2> QED
    BY <1>1, <2>2, <2>3 DEF TypeOK, OutputOK
<1> QED
  BY <1>4, <1>5, <1>6, <1>7 DEF TypeOK

\* Send.
LEMMA SendType ==
  ASSUME TypeOK, Send
  PROVE  TypeOK'
<1>1. /\ ring # <<>> /\ ring' = Tail(ring)
      /\ \/ out' = Append(out, Head(ring)) /\ UNCHANGED dropped
         \/ /\ dropped' = dropped \cup {n \in Sections : Section(n) = Head(ring)}
            /\ UNCHANGED out
      /\ UNCHANGED <<stream, way, filter, broken, lost, upsets>>
  BY DEF Send, DropFirst
<1>2. StreamOK'
  BY <1>1 DEF TypeOK, StreamOK, stream
<1>3. WayOK'
  BY <1>1 DEF TypeOK, WayOK, Total, stream, way
<1>4. FilterOK'
  BY <1>1 DEF TypeOK, FilterOK, filter
<1>5. OutputOK'
  <2>1. /\ ring \in Seq(Seq(Nat)) /\ Len(ring) =< RingSize /\ RingSize \in Nat
        /\ out \in Seq(Seq(Nat)) /\ ring # <<>> /\ dropped \subseteq Sections
    BY <1>1, SectionsAssumption DEF TypeOK, OutputOK
  <2>2. /\ Tail(ring) \in Seq(Seq(Nat)) /\ Head(ring) \in Seq(Nat)
        /\ Len(Tail(ring)) = Len(ring) - 1 /\ Len(ring) \in Nat
    BY <2>1, HeadTailProperties
  <2>3. ring' \in Seq(Seq(Nat)) /\ Len(ring') =< RingSize
    BY <1>1, <2>1, <2>2
  <2>6. Append(out, Head(ring)) \in Seq(Seq(Nat))
    BY <2>1, <2>2, AppendProperties
  <2>4. out' \in Seq(Seq(Nat))
    BY <1>1, <2>1, <2>6
  <2>5. dropped' \subseteq Sections
    BY <1>1, <2>1
  <2> QED
    BY <1>1, <2>3, <2>4, <2>5 DEF TypeOK, OutputOK
<1> QED
  BY <1>2, <1>3, <1>4, <1>5 DEF TypeOK

\* The steps that leave the filter's state as it is but for where it is.
LEMMA RestType ==
  ASSUME TypeOK, Processed \/ ExtractEnds \/ UNCHANGED vars
  PROVE  TypeOK'
<1>1. /\ UNCHANGED <<stream, way, pusiSeen, feedCc, buf, secBufp, parts>>
      /\ UNCHANGED <<ring, out, history>>
      /\ pc' \in {"idle", "copy", "extract"}
  BY DEF Processed, ExtractEnds, vars, filter, TypeOK, FilterOK
<1>2. StreamOK'
  BY <1>1 DEF TypeOK, StreamOK, stream
<1>3. WayOK'
  BY <1>1 DEF TypeOK, WayOK, Total, stream, way
<1>4. FilterOK'
  BY <1>1 DEF TypeOK, FilterOK
<1>5. OutputOK'
  BY <1>1 DEF TypeOK, OutputOK, history
<1> QED
  BY <1>2, <1>3, <1>4, <1>5 DEF TypeOK

\* The types are kept by every step.
LEMMA TypeStep ==
  ASSUME TypeOK, PartsOK, [Next]_vars
  PROVE  TypeOK'
<1>1. \/ Receive \/ Lose \/ Repeat \/ CopyDump \/ Extract \/ Send
      \/ Processed \/ ExtractEnds \/ UNCHANGED vars
  BY DEF Next
<1>2. CASE Receive
  BY <1>2, ReceiveType
<1>3. CASE Lose
  BY <1>3, LoseType
<1>4. CASE Repeat
  BY <1>4, RepeatType
<1>5. CASE CopyDump
  BY <1>5, CopyType
<1>6. CASE Extract
  BY <1>6, ExtractType
<1>7. CASE Send
  BY <1>7, SendType
<1>8. CASE Processed \/ ExtractEnds \/ UNCHANGED vars
  BY <1>8, RestType
<1> QED
  BY <1>1, <1>2, <1>3, <1>4, <1>5, <1>6, <1>7, <1>8

-----------------------------------------------------------------------------
(* The packet at hand, and the counter. *)

\* The bytes that have arrived.
LEMMA UptoIs ==
  ASSUME StreamOK, packet \in PacketType \cup {None}, PartsOK
  PROVE  /\ Upto \in 0 .. Total /\ Upto \in Nat /\ Total \in Nat
         /\ packet # None => packet.first \in Nat \ {0} /\ packet.first =< Upto
<1>1. Total \in Nat
  BY LengthIs DEF Total
<1>2. CASE packet = None
  BY <1>1, <1>2 DEF Upto
<1>3. CASE packet # None
  <2>1. /\ packet.first \in 1 .. packet.upto /\ packet.upto =< Total
        /\ packet.upto \in Nat /\ packet.first \in Nat
    BY <1>3 DEF PartsOK, Legal, PacketType
  <2> QED
    BY <1>1, <1>3, <2>1 DEF Upto
<1> QED
  BY <1>2, <1>3

\* Those that the filter has copied are among them.
LEMMA ReachedIs ==
  ASSUME StreamOK, packet \in PacketType \cup {None}, PartsOK
  PROVE  /\ Reached \in 0 .. Total /\ Reached \in Nat /\ Total \in Nat
         /\ Reached =< Upto /\ (parts = <<>> => Reached = Upto)
         /\ parts # <<>> => After \in 0 .. Total
<1>1. Upto \in 0 .. Total /\ Upto \in Nat /\ Total \in Nat
  BY UptoIs
<1>2. CASE parts = <<>>
  <2>1. Reached = Upto
    BY <1>2 DEF Reached, Upto
  <2> QED
    BY <1>1, <1>2, <2>1
<1>3. CASE parts # <<>>
  <2>1. /\ Reached \in Nat /\ After \in Nat /\ Reached =< After /\ After =< packet.upto
    BY <1>3, HeadIs
  <2>2. packet # None
    BY <1>3, PartIs
  <2>3. Upto = packet.upto
    BY <2>2 DEF Upto
  <2> QED
    BY <1>1, <1>3, <2>1, <2>3
<1> QED
  BY <1>2, <1>3

\* A packet stays one that the multiplexer may have built.
LEMMA LegalStays ==
  ASSUME packet # None => Legal(packet), start' = start, packet' = packet
  PROVE  packet' # None => Legal(packet)'
BY DEF Legal, Boundary, Total

\* Process takes the packet from its first byte on.
LEMMA ProcessParts ==
  ASSUME TypeOK, NEW p \in PacketType, Legal(p), NEW announced \in BOOLEAN,
         Process(p, announced)
  PROVE  PartsOK' /\ Reached' = p.first - 1 /\ Upto' = p.upto
<1>1. /\ start' = start /\ pc' = "copy" /\ packet' = p /\ packet' # None
      /\ parts' = Parts(p)
  BY ProcessIs
<1>2. Parts(p) # <<>> /\ Head(Parts(p)).new = FALSE /\ p.first \in Nat
  BY PartsType, PartsAre DEF TypeOK
<1>3. Legal(packet)'
  BY <1>1 DEF Legal, Boundary, Total
<1>4. parts' = Parts(packet')
  BY <1>1
<1>5. PartsOK'
  BY <1>1, <1>3, <1>4 DEF PartsOK
<1>6. Reached' = p.first - 1
  BY <1>1, <1>2 DEF Reached
<1>7. Upto' = p.upto
  BY <1>1 DEF Upto
<1> QED
  BY <1>5, <1>6, <1>7

\* What is left of the packet is a part of it.
LEMMA PartsStep ==
  ASSUME TypeOK, PartsOK, [Next]_vars
  PROVE  PartsOK'
<1>1. CASE Receive
  <2>1. PICK p \in Packets, announced \in BOOLEAN : Process(p, announced)
    BY <1>1 DEF Receive
  <2>2. p \in PacketType /\ Legal(p)
    BY PacketsAre
  <2> QED
    BY <2>1, <2>2, ProcessParts
<1>2. CASE Repeat
  <2>1. packet \in PacketType /\ Legal(packet) /\ Process(packet, FALSE)
    BY <1>2 DEF Repeat, TypeOK, WayOK, PartsOK
  <2>2. FALSE \in BOOLEAN
    OBVIOUS
  <2> QED
    BY <2>1, <2>2, ProcessParts
<1>3. CASE CopyDump
  <2>1. /\ packet' = packet /\ packet # None /\ start' = start /\ parts # <<>>
        /\ parts' = Tail(parts) /\ pc' \in {"copy", "extract"}
    BY <1>3, CopyIs
  <2>2. Legal(packet)'
    BY <2>1, LegalStays DEF PartsOK
  <2>3. parts' = <<>> \/ (packet.pusi /\ parts' = Tail(Parts(packet)))
    BY <2>1, PartIs DEF TypeOK, WayOK
  <2>4. parts' # <<>> => packet'.pusi /\ parts' = Tail(Parts(packet'))
    BY <2>1, <2>3
  <2> QED
    BY <2>1, <2>2, <2>4 DEF PartsOK
<1>4. CASE \/ Lose \/ Extract \/ Send \/ ExtractEnds \/ UNCHANGED vars \/ Processed
  <2>1. /\ packet' = packet /\ start' = start /\ parts' = parts /\ pusiSeen' = pusiSeen
        /\ \/ pc' = pc
           \/ pc = "copy" /\ parts = <<>>
           \/ pc = "extract" /\ pc' = "copy"
    BY <1>4 DEF Lose, Extract, Send, ExtractEnds, vars, Processed, way, stream, filter
  <2>2. packet' # None => Legal(packet)'
    BY <2>1, LegalStays DEF PartsOK
  <2>3. pc' = "idle" => parts' = <<>>
    BY <2>1 DEF PartsOK
  <2>4. packet' = None => pc' = "idle" /\ ~pusiSeen'
    BY <2>1 DEF PartsOK
  <2>5. parts' # <<>> => \/ parts' = Parts(packet')
                         \/ packet'.pusi /\ parts' = Tail(Parts(packet'))
    BY <2>1 DEF PartsOK
  <2> QED
    BY <2>2, <2>3, <2>4, <2>5 DEF PartsOK
<1> QED
  BY <1>1, <1>2, <1>3, <1>4 DEF Next

\* With the filter idle, the packet in sequence is the one that follows.
LEMMA InSequence ==
  ASSUME TypeOK, CounterOK, packet # None
  PROVE  (feedCc + 1) % CcMod = cc <=> gap = 0
<1> DEFINE t == CcMod
           f == feedCc
<1>1. /\ t \in Nat \ {0} /\ f \in 0 .. t - 1 /\ gap \in 0 .. t - 1 /\ cc \in 0 .. t - 1
      /\ f + 1 + gap \in {cc, cc + t}
  BY SectionsAssumption DEF TypeOK, WayOK, FilterOK, CounterOK
<1> HIDE DEF t, f
<1> DEFINE a == f + 1
<1>2. a \in 0 .. 2 * t - 1 /\ a + gap \in {cc, cc + t} /\ a \in 1 .. t
  BY <1>1
<1> HIDE DEF a
<1>3. a % t = IF a < t THEN a ELSE a - t
  BY <1>1, <1>2, ModIs
<1>4. a % t = cc <=> gap = 0
  BY <1>1, <1>2, <1>3
<1> QED
  BY <1>4 DEF a, t, f

\* The packet that arrives again is never in sequence.
LEMMA RepeatedIs ==
  ASSUME TypeOK, CounterOK, packet # None
  PROVE  packet.cc = feedCc /\ (feedCc + 1) % CcMod # packet.cc
<1> DEFINE t == CcMod
           f == feedCc
<1>1. t \in Nat \ {0, 1} /\ f \in 0 .. t - 1 /\ packet.cc = f
  BY SectionsAssumption DEF TypeOK, FilterOK, CounterOK
<1> HIDE DEF t, f
<1> DEFINE a == f + 1
<1>2. a \in 0 .. 2 * t - 1 /\ a \in 1 .. t /\ t \in Nat \ {0}
  BY <1>1
<1> HIDE DEF a
<1>3. a % t = IF a < t THEN a ELSE a - t
  BY <1>2, ModIs
<1>4. a % t # f
  BY <1>1, <1>2, <1>3 DEF a
<1> QED
  BY <1>1, <1>4 DEF a, t, f

\* The counter keeps telling.
LEMMA CounterStep ==
  ASSUME TypeOK, PartsOK, CounterOK, [Next]_vars
  PROVE  CounterOK'
<1> DEFINE t == CcMod
<1>1. /\ t \in Nat \ {0, 1} /\ cc \in 0 .. t - 1 /\ gap \in 0 .. t - 1
      /\ sent \in Nat /\ Upto \in Nat /\ feedCc \in 0 .. t - 1
  BY SectionsAssumption, UptoIs DEF TypeOK, WayOK, FilterOK, StreamOK
<1>2. (cc + 1) % t = IF cc + 1 < t THEN cc + 1 ELSE 0
  <2> HIDE DEF t
  <2> DEFINE a == cc + 1
  <2>1. a \in 0 .. 2 * t - 1 /\ a \in 1 .. t /\ t \in Nat \ {0}
    BY <1>1
  <2> HIDE DEF a
  <2>2. a % t = IF a < t THEN a ELSE a - t
    BY <2>1, ModIs
  <2>3. a % t = IF a < t THEN a ELSE 0
    BY <2>1, <2>2
  <2> QED
    BY <2>3 DEF a
<1>3. CASE Receive
  <2>1. PICK p \in Packets, announced \in BOOLEAN :
          Process(p, announced) /\ sent' = p.upto /\ cc' = (cc + 1) % CcMod /\ gap' = 0
    BY <1>3 DEF Receive
  <2>2. p \in PacketType /\ Legal(p) /\ p.cc = cc /\ p.upto \in Nat
    BY PacketsAre
  <2>3. packet' = p /\ feedCc' = cc /\ Upto' = p.upto
    BY <2>1, <2>2, ProcessIs, ProcessParts
  <2>4. feedCc' + 1 + gap' \in {cc', cc' + CcMod}
    BY <1>1, <1>2, <2>1, <2>3
  <2>5. Upto' =< sent' /\ sent' = Upto'
    BY <2>1, <2>2, <2>3
  <2>6. packet'.cc = feedCc'
    BY <2>2, <2>3
  <2> QED
    BY <2>4, <2>5, <2>6 DEF CounterOK
<1>4. CASE Lose
  <2>1. PICK p \in Packets : sent' = p.upto
    BY <1>4 DEF Lose
  <2>2. sent < p.upto /\ p.upto \in Nat
    BY <2>1, PacketsAre
  <2>3. /\ cc' = (cc + 1) % CcMod /\ gap' = gap + 1 /\ gap < CcMod - 1
        /\ packet' = packet /\ feedCc' = feedCc
    BY <1>4 DEF Lose, filter
  <2>4. Upto' = Upto
    BY <2>3 DEF Upto
  <2>5. packet # None => feedCc' + 1 + gap' \in {cc', cc' + CcMod}
    <3> SUFFICES ASSUME packet # None
                 PROVE  feedCc + 1 + (gap + 1) \in {cc', cc' + t}
      BY <2>3
    <3>1. feedCc + 1 + gap \in {cc, cc + t}
      BY DEF CounterOK
    <3>2. cc' = IF cc + 1 < t THEN cc + 1 ELSE 0
      BY <1>2, <2>3
    <3>3. gap < t - 1
      BY <2>3
    <3> HIDE DEF t
    <3>4. CASE cc + 1 < t
      BY <1>1, <3>1, <3>2, <3>3, <3>4
    <3>5. CASE ~(cc + 1 < t)
      <4>1. cc + 1 = t /\ feedCc + 1 + gap < t + t - 1
        BY <1>1, <3>3, <3>5
      <4> QED
        BY <1>1, <3>1, <3>2, <3>5, <4>1
    <3> QED
      BY <3>4, <3>5
  <2>6. Upto' =< sent' /\ gap' # 0
    BY <1>1, <2>1, <2>2, <2>3, <2>4 DEF CounterOK
  <2> QED
    BY <2>3, <2>5, <2>6 DEF CounterOK
<1>5. CASE Repeat
  <2>1. /\ packet \in PacketType /\ Legal(packet) /\ Process(packet, FALSE)
        /\ sent' = sent /\ cc' = cc /\ gap' = gap /\ packet # None
    BY <1>5 DEF Repeat, TypeOK, WayOK, PartsOK
  <2>2. FALSE \in BOOLEAN
    OBVIOUS
  <2>3. packet' = packet /\ feedCc' = packet.cc
    BY <2>1, <2>2, ProcessIs
  <2>4. feedCc' = feedCc /\ Upto' = Upto
    BY <2>1, <2>3 DEF CounterOK, Upto
  <2> QED
    BY <2>1, <2>3, <2>4 DEF CounterOK
<1>6. CASE CopyDump \/ Extract \/ Send \/ ExtractEnds \/ UNCHANGED vars \/ Processed
  <2>1. /\ packet' = packet /\ feedCc' = feedCc /\ sent' = sent /\ cc' = cc /\ gap' = gap
    BY <1>6 DEF CopyDump, Extract, Send, ExtractEnds, vars, Processed, way, filter
  <2>2. Upto' = Upto
    BY <2>1 DEF Upto
  <2> QED
    BY <2>1, <2>2 DEF CounterOK
<1> QED
  BY <1>3, <1>4, <1>5, <1>6 DEF Next

-----------------------------------------------------------------------------
(* The bytes in the buffer. *)

\* Steps that leave the buffer alone keep what it is fed with.
LEMMA FedStays ==
  ASSUME FedOK, start' = start, buf' = buf, secBufp' = secBufp, Reached' = Reached,
         pusiSeen' = pusiSeen, pc' # "extract" => pc # "extract"
  PROVE  FedOK'
<1> SUFFICES ASSUME pusiSeen
             PROVE  /\ Fed(buf, secBufp, Reached)'
                    /\ pc' # "extract" => Waiting(Taken, Reached)'
  BY DEF FedOK
<1>1. Fed(buf, secBufp, Reached)'
  BY DEF FedOK, Fed, From, Boundary
<1>2. pc' # "extract" => Waiting(Taken, Reached)'
  BY DEF FedOK, Waiting, Taken, From
<1> QED
  BY <1>1, <1>2

\* Process goes on with the buffer only if no packet has been lost.
LEMMA ReceiveFed ==
  ASSUME TypeOK, PartsOK, CounterOK, FedOK, Receive
  PROVE  FedOK'
<1>1. PICK p \in Packets, announced \in BOOLEAN : Process(p, announced)
  BY DEF Receive
<1>2. p \in PacketType /\ Legal(p) /\ p.first = sent + 1 /\ p.cc = cc
  BY PacketsAre
<1>3. /\ start' = start /\ pc = "idle" /\ pc' = "copy"
      /\ \/ /\ (feedCc + 1) % CcMod = p.cc
            /\ pusiSeen' = pusiSeen /\ buf' = buf /\ secBufp' = secBufp
         \/ pusiSeen' = FALSE
  BY <1>1, <1>2, ProcessIs
<1>4. CASE pusiSeen' = FALSE
  BY <1>4 DEF FedOK
<1>5. CASE /\ (feedCc + 1) % CcMod = cc /\ pusiSeen
           /\ pusiSeen' = pusiSeen /\ buf' = buf /\ secBufp' = secBufp
  <2>1. packet # None
    BY <1>5 DEF PartsOK
  <2>2. gap = 0 /\ sent = Upto
    BY <1>5, <2>1, InSequence DEF CounterOK
  <2>3. Reached = Upto
    BY <1>3, ReachedIs DEF TypeOK, WayOK, PartsOK
  <2>4. Reached' = p.first - 1
    BY <1>1, <1>2, ProcessParts
  <2>5. sent \in Nat
    BY DEF TypeOK, WayOK
  <2>6. Reached' = Reached
    BY <1>2, <2>2, <2>3, <2>4, <2>5
  <2> QED
    BY <1>3, <1>5, <2>6, FedStays
<1>6. pusiSeen' \in BOOLEAN /\ pusiSeen \in BOOLEAN
  BY <1>1, <1>2, ProcessIs DEF TypeOK, FilterOK
<1> QED
  BY <1>2, <1>3, <1>4, <1>5, <1>6

\* The rest of a section follows on what the buffer has of it, and there is room.
LEMMA CopyRestFed ==
  ASSUME TypeOK, PartsOK, FedOK, CopyDump, ~Head(parts).new, pusiSeen, Data # <<>>
  PROVE  Fed(buf, secBufp, Reached)' /\ pc' = "extract"
<1>1. /\ start' = start /\ pc = "copy" /\ parts # <<>> /\ secBufp' = secBufp /\ Old = buf
      /\ Len(More) = IF Len(Data) =< FeedSize - Len(buf) THEN Len(Data)
                                                          ELSE FeedSize - Len(buf)
      /\ \A i \in 1 .. Len(More) : More[i] = Data[i]
      /\ Len(buf') = Len(buf) + Len(More)
      /\ \A i \in 1 .. Len(buf) : buf'[i] = buf[i]
      /\ \A i \in 1 .. Len(More) : buf'[Len(buf) + i] = More[i]
      /\ pc' = IF More = <<>> THEN "copy" ELSE "extract"
      /\ Reached' = After /\ More \in Seq(Nat)
  BY CopyIs DEF Old
<1>2. /\ StreamOK /\ packet \in PacketType \cup {None}
      /\ buf \in Seq(Nat) /\ secBufp \in 0 .. Len(buf) /\ FeedSize \in Nat
      /\ Len(buf) =< FeedSize
  BY SectionsAssumption DEF TypeOK, WayOK, FilterOK
<1>3. Fed(buf, secBufp, Reached)
  BY DEF FedOK
<1>4. /\ Data \in Seq(Nat) /\ Len(Data) \in Nat
      /\ Reached \in Nat /\ After \in Nat /\ Reached \in 0 .. Total
      /\ After =< Reached + Len(Data)
      /\ \A i \in 1 .. Len(Data) :
           Data[i] = IF Reached + i =< After THEN Reached + i ELSE 0
      /\ After < Reached + Len(Data) => Boundary(After)
      /\ \E n \in Sections : start[n] < Reached /\ Reached < After /\ After =< start[n + 1]
  BY <1>1, <1>2, HeadIs, ReachedIs
<1>5. PICK n \in Sections : start[n] < Reached /\ Reached < After /\ After =< start[n + 1]
  BY <1>4
<1>6. /\ From(buf) \in Nat /\ Len(buf) \in Nat \ {0} /\ Reached =< From(buf) + Len(buf)
      /\ Reached < From(buf) + Len(buf) => Boundary(Reached)
      /\ \A i \in 1 .. Len(buf) :
           buf[i] = IF From(buf) + i =< Reached THEN From(buf) + i ELSE 0
  BY <1>2, <1>3, <1>4, FedIs DEF Fed
<1>7. PICK f \in Nat, l \in Nat, d \in Nat, k \in Nat, r \in Nat, a \in Nat, e \in Nat :
        /\ f = From(buf) /\ l = Len(buf) /\ d = Len(Data) /\ k = Len(More)
        /\ r = Reached /\ a = After /\ e = start[n + 1]
  <2>1. Len(More) \in Nat /\ start[n + 1] \in Nat
    BY <1>1, <1>2, LengthIs
  <2>2. From(buf) \in Nat /\ Len(buf) \in Nat /\ Len(Data) \in Nat
    BY <1>4, <1>6
  <2> QED
    BY <1>4, <2>1, <2>2, Zenon
<1>8. ~Boundary(Reached)
  <2> SUFFICES ASSUME NEW m \in 1 .. NumSections + 1, start[m] = Reached
               PROVE  FALSE
    BY DEF Boundary
  <2>1. /\ n \in 1 .. NumSections + 1 /\ n + 1 \in 1 .. NumSections + 1
        /\ start[n] \in Nat /\ NumSections \in Nat
    BY <1>2, LengthIs
  <2>2. start[n] < start[m] /\ start[m] < start[n + 1]
    BY <1>5, <1>7
  <2>3. n < m /\ m < n + 1
    BY <1>2, <2>1, <2>2, Grows
  <2> QED
    BY <2>1, <2>3
<1>9. f + l = r
  BY <1>6, <1>7, <1>8
<1>10. e - f =< FeedSize
  BY <1>3, <1>5, <1>7 DEF Fed
<1>11. /\ k = IF d =< FeedSize - l THEN d ELSE FeedSize - l
       /\ l =< FeedSize /\ r < a /\ a =< e /\ a =< r + d /\ l > 0
       /\ a < r + d => Boundary(After)
  BY <1>1, <1>2, <1>4, <1>5, <1>6, <1>7
<1>12. k > 0 /\ k =< d /\ a =< f + (l + k) /\ (a < f + (l + k) => a < r + d)
  BY <1>2, <1>9, <1>10, <1>11
<1>13. /\ \A i \in 1 .. l : buf'[i] = buf[i] /\ buf[i] = f + i
       /\ \A i \in 1 .. k : buf'[l + i] = IF r + i =< a THEN r + i ELSE 0
       /\ Len(buf') = l + k
  <2>1. \A i \in 1 .. l : buf'[i] = buf[i] /\ buf[i] = f + i
    <3>1. \A i \in 1 .. l : buf[i] = IF f + i =< r THEN f + i ELSE 0
      BY <1>6, <1>7
    <3>2. \A i \in 1 .. l : f + i =< r
      BY <1>9
    <3> QED
      BY <1>1, <1>7, <3>1, <3>2
  <2>2. \A i \in 1 .. k : buf'[l + i] = IF r + i =< a THEN r + i ELSE 0
    <3>1. \A i \in 1 .. k : i \in 1 .. d
      BY <1>12
    <3>2. \A i \in 1 .. d : Data[i] = IF r + i =< a THEN r + i ELSE 0
      BY <1>4, <1>7
    <3>3. \A i \in 1 .. k : buf'[l + i] = Data[i]
      BY <1>1, <1>7
    <3> QED
      BY <3>1, <3>2, <3>3
  <2> QED
    BY <1>1, <1>7, <2>1, <2>2
<1>14. From(buf') = f
  <2>1. 1 \in 1 .. l
    BY <1>11
  <2>2. buf'[1] = f + 1
    BY <1>13, <2>1
  <2> QED
    BY <2>2 DEF From
<1>15. \A i \in 1 .. Len(buf') : buf'[i] = IF From(buf') + i =< a THEN From(buf') + i ELSE 0
  <2> SUFFICES ASSUME NEW i \in 1 .. l + k
               PROVE  buf'[i] = IF f + i =< a THEN f + i ELSE 0
    BY <1>13, <1>14
  <2>1. CASE i =< l
    <3>1. i \in 1 .. l /\ f + i =< a
      BY <1>9, <1>11, <2>1
    <3> QED
      BY <1>13, <3>1
  <2>2. CASE ~(i =< l)
    <3>1. PICK j \in 1 .. k : i = l + j
      <4>1. i - l \in 1 .. k /\ i = l + (i - l)
        BY <2>2
      <4> QED
        BY <4>1
    <3>2. f + i = r + j
      BY <1>9, <3>1
    <3> QED
      BY <1>13, <3>1, <3>2
  <2> QED
    BY <2>1, <2>2
<1>16. /\ From(buf') = From(buf) /\ Len(buf') = l + k /\ Reached' = a
       /\ \A m : start'[m] = start[m]
  BY <1>1, <1>7, <1>13, <1>14
<1>17. buf' # <<>>
  <2>1. l + k > 0
    BY <1>11
  <2> QED
    BY <1>13, <2>1
<1>18. \E m \in Sections : From(buf') = start'[m]
  BY <1>3, <1>16 DEF Fed
<1>19. a =< From(buf') + Len(buf') /\ (a < From(buf') + Len(buf') => Boundary(a)')
  <2>1. Boundary(After) => Boundary(a)'
    BY <1>1, <1>7 DEF Boundary
  <2> QED
    BY <1>11, <1>12, <1>13, <1>14, <2>1
<1>20. \E m \in 1 .. NumSections + 1 : From(buf') + secBufp' = start'[m] /\ start'[m] =< a
  <2>1. PICK m \in 1 .. NumSections + 1 : /\ start[m] \in Nat /\ start[m] =< Reached
                                          /\ From(buf) + secBufp = start[m]
    BY <1>2, <1>3, <1>4, FedIs
  <2>2. start[m] =< a
    BY <1>7, <1>11, <2>1
  <2> QED
    BY <1>1, <1>16, <2>1, <2>2
<1>21. ASSUME NEW j \in Sections, start[j] < a
       PROVE  start[j + 1] - f =< FeedSize
  <2>1. /\ n \in 1 .. NumSections + 1 /\ n + 1 \in 1 .. NumSections + 1
        /\ j \in 1 .. NumSections + 1 /\ j + 1 \in 1 .. NumSections + 1
        /\ start[j] \in Nat /\ start[j + 1] \in Nat /\ NumSections \in Nat
    BY <1>2, LengthIs
  <2>2. start[j] < start[n + 1]
    BY <1>7, <1>11, <1>21, <2>1
  <2>3. j < n + 1
    BY <1>2, <2>1, <2>2, Grows
  <2>4. j + 1 =< n + 1
    BY <2>1, <2>3
  <2>5. start[j + 1] =< start[n + 1]
    BY <1>2, <2>1, <2>4, Grows
  <2>6. PICK z \in Nat : z = start[j + 1]
    BY <2>1
  <2>7. z =< e
    BY <1>7, <2>5, <2>6
  <2>8. z - f =< FeedSize
    BY <1>2, <1>10, <2>7
  <2> QED
    BY <2>6, <2>8
<1>22. \A j \in Sections : start'[j] < a => start'[j + 1] - From(buf') =< FeedSize
  BY <1>14, <1>16, <1>21
<1>23. Fed(buf, secBufp, Reached)'
  <2>1. Reached' = a
    BY <1>16
  <2> QED
    BY <1>15, <1>17, <1>18, <1>19, <1>20, <1>22, <2>1 DEF Fed
<1>24. pc' = "extract"
  <2>1. More # <<>>
    BY <1>7, <1>12
  <2> QED
    BY <1>1, <2>1
<1> QED
  BY <1>23, <1>24

\* The part with the sections that start is the buffer, which has room for it.
LEMMA CopyNewFed ==
  ASSUME TypeOK, PartsOK, CopyDump, Head(parts).new
  PROVE  /\ Fed(buf, secBufp, Reached)' /\ pc' = "extract"
         /\ pusiSeen' = TRUE /\ Taken' = Reached /\ \E n \in Sections : Reached = start[n]
<1>1. /\ start' = start /\ parts # <<>> /\ secBufp' = 0 /\ Old = <<>>
      /\ Len(More) = IF Len(Data) =< FeedSize - Len(Old) THEN Len(Data)
                                                          ELSE FeedSize - Len(Old)
      /\ \A i \in 1 .. Len(More) : More[i] = Data[i]
      /\ Len(buf') = Len(Old) + Len(More)
      /\ \A i \in 1 .. Len(More) : buf'[Len(Old) + i] = More[i]
      /\ pc' = IF More = <<>> THEN "copy" ELSE "extract"
      /\ Reached' = After /\ More \in Seq(Nat) /\ pusiSeen' = TRUE
  BY CopyIs DEF Old
<1>2. Len(Old) = 0
  BY <1>1
<1>3. /\ StreamOK /\ packet \in PacketType \cup {None} /\ FeedSize \in Nat /\ MaxSection \in Nat
  BY SectionsAssumption DEF TypeOK, WayOK
<1>4. /\ Len(Data) \in Nat /\ Reached \in Nat /\ After \in Nat
      /\ After =< Reached + Len(Data)
      /\ \A i \in 1 .. Len(Data) :
           Data[i] = IF Reached + i =< After THEN Reached + i ELSE 0
      /\ After < Reached + Len(Data) => Boundary(After)
      /\ \E n \in Sections : Reached = start[n]
      /\ Reached < After /\ MaxSection + Len(Data) =< FeedSize
  BY <1>1, <1>3, HeadIs
<1>5. PICK n \in Sections : Reached = start[n]
  BY <1>4
<1>6. PICK d \in Nat, r \in Nat, a \in Nat :
        d = Len(Data) /\ r = Reached /\ a = After
  BY <1>4, Zenon
<1>7. /\ r < a /\ a =< r + d /\ MaxSection + d =< FeedSize /\ d > 0
      /\ a < r + d => Boundary(After)
  BY <1>4, <1>6
<1>8. Len(More) = d
  BY <1>1, <1>2, <1>3, <1>6, <1>7
<1>9. Len(buf') = d /\ \A i \in 1 .. d : buf'[i] = IF r + i =< a THEN r + i ELSE 0
  <2>1. Len(buf') = d
    BY <1>1, <1>2, <1>8
  <2>2. ASSUME NEW i \in 1 .. d
        PROVE  buf'[i] = IF r + i =< a THEN r + i ELSE 0
    <3>1. buf'[0 + i] = More[i] /\ 0 + i = i
      BY <1>1, <1>2, <1>8
    <3>2. More[i] = Data[i]
      BY <1>1, <1>8
    <3>3. Data[i] = IF r + i =< a THEN r + i ELSE 0
      BY <1>4, <1>6
    <3> QED
      BY <3>1, <3>2, <3>3
  <2> QED
    BY <2>1, <2>2
<1>10. From(buf') = r
  <2>1. 1 \in 1 .. d /\ r + 1 =< a
    BY <1>7
  <2>2. buf'[1] = r + 1
    BY <1>9, <2>1
  <2> QED
    BY <2>2 DEF From
<1>11. buf' # <<>> /\ More # <<>>
  BY <1>7, <1>8, <1>9
<1>12. a =< From(buf') + Len(buf') /\ (a < From(buf') + Len(buf') => Boundary(a)')
  <2>1. Boundary(After) => Boundary(a)'
    BY <1>1, <1>6 DEF Boundary
  <2> QED
    BY <1>7, <1>9, <1>10, <2>1
<1>13. /\ \E m \in Sections : From(buf') = start'[m]
       /\ \E m \in 1 .. NumSections + 1 : From(buf') + secBufp' = start'[m] /\ start'[m] =< a
  <2>1. n \in 1 .. NumSections + 1 /\ start[n] = r /\ start'[n] = r
    BY <1>1, <1>3, <1>5, <1>6, LengthIs
  <2>2. From(buf') + secBufp' = r /\ r =< a
    BY <1>1, <1>7, <1>10
  <2> QED
    BY <1>5, <1>10, <2>1, <2>2
<1>14. ASSUME NEW j \in Sections, start[j] < a
       PROVE  start[j + 1] - r =< FeedSize
  <2>1. start[j] \in Nat /\ start[j + 1] \in Nat /\ start[j + 1] - start[j] \in HeaderSize .. MaxSection
    BY <1>3, LengthIs
  <2>2. PICK x \in Nat, y \in Nat : x = start[j] /\ y = start[j + 1]
    BY <2>1
  <2>3. x < a /\ y - x =< MaxSection
    BY <1>3, <1>14, <2>1, <2>2
  <2>4. y - r =< FeedSize
    BY <1>3, <1>7, <2>3
  <2> QED
    BY <2>2, <2>4
<1>15. \A j \in Sections : start'[j] < a => start'[j + 1] - From(buf') =< FeedSize
  BY <1>1, <1>10, <1>14
<1>16. Fed(buf, secBufp, Reached)'
  <2>1. Reached' = a
    BY <1>1, <1>6
  <2>2. \A i \in 1 .. Len(buf') :
          buf'[i] = IF From(buf') + i =< a THEN From(buf') + i ELSE 0
    BY <1>9, <1>10
  <2> QED
    BY <1>11, <1>12, <1>13, <1>15, <2>1, <2>2 DEF Fed
<1>17. Taken' = Reached
  BY <1>1, <1>6, <1>10 DEF Taken
<1> QED
  BY <1>1, <1>5, <1>11, <1>16, <1>17

\* CopyDump.
LEMMA CopyFed ==
  ASSUME TypeOK, PartsOK, FedOK, CopyDump
  PROVE  FedOK'
<1>1. Head(parts).new \in BOOLEAN
  BY CopyIs
<1>2. CASE Head(parts).new
  BY <1>2, CopyNewFed DEF FedOK
<1>3. CASE ~Head(parts).new /\ pusiSeen /\ Data # <<>>
  BY <1>3, CopyRestFed DEF FedOK
<1>4. CASE ~Head(parts).new /\ pusiSeen /\ Data = <<>>
  <2>1. /\ start' = start /\ pc = "copy" /\ secBufp' = secBufp /\ Old = buf
        /\ Len(More) = IF Len(Data) =< FeedSize - Len(Old) THEN Len(Data)
                                                            ELSE FeedSize - Len(Old)
        /\ buf' = Old \o More /\ Reached' = After /\ More \in Seq(Nat) /\ pusiSeen' = pusiSeen
        /\ buf \in Seq(Nat) /\ Len(buf) \in Nat /\ Len(buf) =< FeedSize /\ FeedSize \in Nat
        /\ pc' = IF More = <<>> THEN "copy" ELSE "extract"
    BY <1>4, CopyIs, SectionsAssumption DEF Old, TypeOK, FilterOK
  <2>2. Len(Data) = 0
    BY <1>4
  <2>3. Len(More) = 0
    BY <2>1, <2>2
  <2>4. More = <<>>
    BY <2>1, <2>3
  <2>5. buf' = buf
    BY <2>1, <2>4
  <2>6. After = Reached
    <3>1. parts # <<>> /\ StreamOK /\ packet \in PacketType \cup {None}
      BY DEF CopyDump, TypeOK, WayOK
    <3>2. Reached \in Nat /\ After \in Nat /\ Reached =< After /\ After =< Reached + Len(Data)
      BY <3>1, HeadIs
    <3> QED
      BY <2>2, <3>2
  <2> QED
    BY <2>1, <2>4, <2>5, <2>6, FedStays
<1>5. CASE ~Head(parts).new /\ ~pusiSeen
  <2>1. pusiSeen' = (pusiSeen \/ Head(parts).new)
    BY CopyIs
  <2>2. ~pusiSeen'
    BY <1>5, <2>1
  <2> QED
    BY <2>2 DEF FedOK
<1> QED
  BY <1>1, <1>2, <1>3, <1>4, <1>5

\* Extract goes on to the start of the next section.
LEMMA ExtractFed ==
  ASSUME TypeOK, PartsOK, FedOK, Extract
  PROVE  /\ FedOK'
         /\ pusiSeen => \E m \in Sections :
              /\ Taken = start[m] /\ Taken' = start[m + 1] /\ start[m + 1] =< Reached
              /\ SubSeq(buf, secBufp + 1, secBufp + GetLength(buf[secBufp + 1])) = Section(m)
<1> DEFINE len == GetLength(buf[secBufp + 1])
           section == SubSeq(buf, secBufp + 1, secBufp + len)
<1>1. /\ Complete /\ pc = "extract" /\ secBufp' = secBufp + len
      /\ start' = start /\ buf' = buf /\ parts' = parts /\ pc' = pc
      /\ packet' = packet /\ pusiSeen' = pusiSeen
  BY DEF Extract, stream, way
<1>2. CASE ~pusiSeen
  BY <1>1, <1>2 DEF FedOK
<1>3. CASE pusiSeen
  <2>1. /\ StreamOK /\ FilterOK /\ Fed(buf, secBufp, Reached) /\ Reached \in 0 .. Total
        /\ packet \in PacketType \cup {None}
    BY <1>3, ReachedIs DEF FedOK, TypeOK, WayOK
  <2>2. PICK m \in Sections :
          Taken = start[m] /\ start[m + 1] =< Reached /\ len = start[m + 1] - start[m]
          /\ section = Section(m)
    BY <1>1, <2>1, ExtractIs
  <2>3. buf \in Seq(Nat) /\ secBufp \in 0 .. Len(buf)
    BY <2>1 DEF FilterOK
  <2>4. /\ From(buf) \in Nat /\ secBufp \in Nat /\ start[m] \in Nat /\ start[m + 1] \in Nat
        /\ m + 1 \in 1 .. NumSections + 1
    BY <2>1, <2>3, FedIs, LengthIs
  <2>5. Reached' = Reached
    BY <1>1 DEF Reached
  <2> HIDE DEF len, section
  <2>6. Taken' = start[m + 1]
    <3>1. PICK x \in Nat, y \in Nat, f \in Nat, s \in Nat :
            x = start[m] /\ y = start[m + 1] /\ f = From(buf) /\ s = secBufp
      BY <2>4
    <3>2. f + s = x /\ secBufp' = s + (y - x) /\ From(buf') = f
      BY <1>1, <2>2, <3>1 DEF Taken
    <3>3. f + (s + (y - x)) = y
      BY <3>2
    <3> QED
      BY <3>1, <3>2, <3>3 DEF Taken
  <2>7. Fed(buf, secBufp, Reached)'
    <3>1. From(buf') + secBufp' = start'[m + 1] /\ start'[m + 1] =< Reached'
      BY <1>1, <2>2, <2>5, <2>6 DEF Taken
    <3> QED
      BY <1>1, <2>1, <2>4, <2>5, <3>1 DEF Fed, From, Boundary
  <2>8. FedOK'
    BY <1>1, <2>7 DEF FedOK
  <2> QED
    BY <2>2, <2>6, <2>8 DEF len, section
<1> QED
  BY <1>2, <1>3 DEF TypeOK, FilterOK

\* The buffer is fed by every step.
LEMMA FedStep ==
  ASSUME TypeOK, PartsOK, CounterOK, FedOK, [Next]_vars
  PROVE  FedOK'
<1>1. CASE Receive
  BY <1>1, ReceiveFed
<1>2. CASE Repeat
  <2>1. /\ packet \in PacketType /\ Legal(packet) /\ Process(packet, FALSE) /\ packet # None
    BY <1>2 DEF Repeat, TypeOK, WayOK, PartsOK
  <2>2. FALSE \in BOOLEAN
    OBVIOUS
  <2>3. pusiSeen' = FALSE
    BY <2>1, <2>2, ProcessIs, RepeatedIs
  <2> QED
    BY <2>3 DEF FedOK
<1>3. CASE CopyDump
  BY <1>3, CopyFed
<1>4. CASE Extract
  BY <1>4, ExtractFed
<1>5. CASE ExtractEnds
  <2>1. /\ pc = "extract" /\ ~Complete /\ pc' = "copy" /\ start' = start
        /\ pusiSeen' = pusiSeen /\ buf' = buf /\ secBufp' = secBufp
        /\ parts' = parts /\ packet' = packet
    BY <1>5 DEF ExtractEnds, stream, way
  <2>2. Reached' = Reached
    BY <2>1 DEF Reached
  <2> SUFFICES ASSUME pusiSeen
               PROVE  Fed(buf, secBufp, Reached)' /\ Waiting(Taken, Reached)'
    BY <2>1 DEF FedOK
  <2>3. /\ StreamOK /\ FilterOK /\ Fed(buf, secBufp, Reached) /\ Reached \in 0 .. Total
        /\ packet \in PacketType \cup {None}
    BY ReachedIs DEF FedOK, TypeOK, WayOK
  <2>4. Waiting(Taken, Reached)
    BY <2>1, <2>3, UnfinishedIs
  <2>5. Waiting(Taken, Reached)'
    BY <2>1, <2>2, <2>4 DEF Waiting, Taken, From
  <2>6. Fed(buf, secBufp, Reached)'
    BY <2>1, <2>2, <2>3 DEF Fed, From, Boundary
  <2> QED
    BY <2>5, <2>6
<1>6. CASE Lose \/ Send \/ Processed \/ UNCHANGED vars
  <2>1. /\ packet' = packet /\ start' = start /\ parts' = parts /\ pusiSeen' = pusiSeen
        /\ buf' = buf /\ secBufp' = secBufp
        /\ pc' = pc \/ pc = "copy"
    BY <1>6 DEF Lose, Send, vars, Processed, way, stream, filter
  <2>2. Reached' = Reached
    BY <2>1 DEF Reached
  <2> QED
    BY <2>1, <2>2, FedStays
<1> QED
  BY <1>1, <1>2, <1>3, <1>4, <1>5, <1>6 DEF Next

-----------------------------------------------------------------------------
(* What comes out. *)

\* A sequence with an element more, and with one less.
LEMMA Elements ==
  ASSUME NEW s \in Seq(Seq(Nat)), NEW e \in Seq(Nat)
  PROVE  /\ Len(s) \in Nat /\ Len(Append(s, e)) = Len(s) + 1
         /\ Append(s, e) \in Seq(Seq(Nat))
         /\ \A i \in 1 .. Len(s) : Append(s, e)[i] = s[i]
         /\ Append(s, e)[Len(s) + 1] = e
         /\ s # <<>> => /\ Tail(s) \in Seq(Seq(Nat)) /\ Len(Tail(s)) = Len(s) - 1
                        /\ Len(s) >= 1 /\ Head(s) = s[1]
                        /\ \A i \in 1 .. Len(s) - 1 : Tail(s)[i] = s[i + 1]
<1>1. Len(s) \in Nat
  OBVIOUS
<1>2. /\ Len(Append(s, e)) = Len(s) + 1 /\ Append(s, e) \in Seq(Seq(Nat))
      /\ \A i \in 1 .. Len(s) : Append(s, e)[i] = s[i]
      /\ Append(s, e)[Len(s) + 1] = e
  BY AppendProperties
<1>3. s # <<>> => /\ Tail(s) \in Seq(Seq(Nat)) /\ Len(Tail(s)) = Len(s) - 1
                  /\ Len(s) >= 1 /\ Head(s) = s[1]
                  /\ \A i \in 1 .. Len(s) - 1 : Tail(s)[i] = s[i + 1]
  <2> SUFFICES ASSUME s # <<>>
               PROVE  /\ Tail(s) \in Seq(Seq(Nat)) /\ Len(Tail(s)) = Len(s) - 1
                      /\ Len(s) >= 1 /\ Head(s) = s[1]
                      /\ \A i \in 1 .. Len(s) - 1 : Tail(s)[i] = s[i + 1]
    OBVIOUS
  <2>1. /\ Tail(s) \in Seq(Seq(Nat)) /\ Len(Tail(s)) = Len(s) - 1
        /\ \A i \in 1 .. Len(Tail(s)) : Tail(s)[i] = s[i + 1]
    BY HeadTailProperties
  <2>2. Len(s) >= 1 /\ Head(s) = s[1]
    OBVIOUS
  <2> QED
    BY <2>1, <2>2
<1> QED
  BY <1>1, <1>2, <1>3

\* What a round of the loop does with the section it takes out.
LEMMA FilterIs ==
  ASSUME TypeOK, PartsOK, FedOK, Extract
  PROVE  \/ ~pusiSeen /\ ring' = ring /\ dropped' = dropped
         \/ /\ pusiSeen
            /\ \E m \in Sections :
                 /\ Taken = start[m] /\ Taken' = start[m + 1] /\ start[m + 1] =< Reached
                 /\ \/ m \in Unwanted /\ ring' = ring /\ dropped' = dropped
                    \/ m \notin Unwanted /\ ring' = Append(ring, Section(m)) /\ dropped' = dropped
                    \/ m \notin Unwanted /\ ring' = ring /\ dropped' = dropped \cup {m}
<1> DEFINE section == SubSeq(buf, secBufp + 1, secBufp + GetLength(buf[secBufp + 1]))
           ids == {n \in Sections : start[n] + 1 = section[1]}
<1>1. IF pusiSeen THEN Filter(section) ELSE ring' = ring /\ dropped' = dropped
  BY DEF Extract
<1>2. CASE ~pusiSeen
  BY <1>1, <1>2
<1>3. CASE pusiSeen
  <2>1. PICK m \in Sections : /\ Taken = start[m] /\ Taken' = start[m + 1]
                              /\ start[m + 1] =< Reached /\ section = Section(m)
    BY <1>3, ExtractFed
  <2> HIDE DEF section
  <2>2. ids = {m}
    <3>1. section[1] = start[m] + 1
      BY <2>1, SectionIs DEF TypeOK
    <3>2. ASSUME NEW n \in Sections, start[n] + 1 = start[m] + 1
          PROVE  n = m
      <4>1. /\ n \in 1 .. NumSections + 1 /\ m \in 1 .. NumSections + 1
            /\ start[n] \in Nat /\ start[m] \in Nat
        BY LengthIs DEF TypeOK
      <4>2. start[n] = start[m]
        BY <3>2, <4>1
      <4> QED
        BY <4>1, <4>2, Grows DEF TypeOK
    <3> QED
      BY <3>1, <3>2
  <2>3. \/ ids \subseteq Unwanted /\ ring' = ring /\ dropped' = dropped
        \/ ~(ids \subseteq Unwanted) /\ ring' = Append(ring, section) /\ dropped' = dropped
        \/ ~(ids \subseteq Unwanted) /\ ring' = ring /\ dropped' = dropped \cup ids
    BY <1>1, <1>3, <2>2 DEF Filter
  <2> HIDE DEF ids
  <2> QED
    BY <1>3, <2>1, <2>2, <2>3
<1> QED
  BY <1>2, <1>3 DEF TypeOK, FilterOK

\* What comes out stays a section of the stream.
LEMMA GenuineStep ==
  ASSUME TypeOK, PartsOK, FedOK, GenuineOK, [Next]_vars
  PROVE  GenuineOK'
<1>1. start' = start
  BY DEF Next, Receive, Lose, Repeat, Process, CopyDump, Processed, Extract, ExtractEnds,
         Send, vars, stream
<1>2. \A n \in Sections : Section(n)' = Section(n)
  BY <1>1 DEF Section
<1>3. /\ \A i \in 1 .. Len(ring) : \E n \in Sections \ Unwanted : ring[i] = Section(n)
      /\ \A i \in 1 .. Len(out) : \E n \in Sections \ Unwanted : out[i] = Section(n)
      /\ ring \in Seq(Seq(Nat)) /\ out \in Seq(Seq(Nat))
  BY DEF GenuineOK, AllGenuine, TypeOK, OutputOK
<1>4. SUFFICES /\ \A i \in 1 .. Len(ring') : \E n \in Sections \ Unwanted : ring'[i] = Section(n)
               /\ \A i \in 1 .. Len(out') : \E n \in Sections \ Unwanted : out'[i] = Section(n)
  <2>1. ASSUME NEW x, \E n \in Sections \ Unwanted : x = Section(n)
        PROVE  \E n \in Sections \ Unwanted : x = Section(n)'
    BY <1>2, <2>1
  <2> QED
    BY <2>1 DEF GenuineOK, AllGenuine
<1>5. CASE Extract
  <2>1. out' = out
    BY <1>5 DEF Extract
  <2>2. CASE ring' = ring
    BY <1>3, <2>1, <2>2
  <2>3. CASE ring' # ring
    <3>1. PICK m \in Sections \ Unwanted : ring' = Append(ring, Section(m))
      BY <1>5, <2>3, FilterIs
    <3>2. Section(m) \in Seq(Nat)
      BY SectionIs DEF TypeOK
    <3>3. /\ Len(ring') = Len(ring) + 1 /\ Len(ring) \in Nat
          /\ \A i \in 1 .. Len(ring) : ring'[i] = ring[i]
          /\ ring'[Len(ring) + 1] = Section(m)
      BY <1>3, <3>1, <3>2, Elements
    <3>4. ASSUME NEW i \in 1 .. Len(ring')
          PROVE  \E n \in Sections \ Unwanted : ring'[i] = Section(n)
      <4>1. i \in 1 .. Len(ring) \/ i = Len(ring) + 1
        BY <3>3
      <4> QED
        BY <1>3, <3>3, <4>1
    <3> QED
      BY <1>3, <2>1, <3>4
  <2> QED
    BY <2>2, <2>3
<1>6. CASE Send
  <2>1. /\ ring # <<>> /\ ring' = Tail(ring)
        /\ out' = Append(out, Head(ring)) \/ out' = out
    BY <1>6 DEF Send, DropFirst
  <2>2. <<>> \in Seq(Nat)
    BY EmptySeq
  <2>3. /\ Len(ring') = Len(ring) - 1 /\ Len(ring) \in Nat /\ Len(ring) >= 1
        /\ Head(ring) = ring[1]
        /\ \A i \in 1 .. Len(ring) - 1 : ring'[i] = ring[i + 1]
    BY <1>3, <2>1, <2>2, Elements
  <2>4. ASSUME NEW i \in 1 .. Len(ring')
        PROVE  \E n \in Sections \ Unwanted : ring'[i] = Section(n)
    <3>1. i \in 1 .. Len(ring) - 1 /\ i + 1 \in 1 .. Len(ring)
      BY <2>3
    <3> QED
      BY <1>3, <2>3, <3>1
  <2>5. \E n \in Sections \ Unwanted : Head(ring) = Section(n)
    <3>1. 1 \in 1 .. Len(ring)
      BY <2>3
    <3> QED
      BY <1>3, <2>3, <3>1
  <2>6. CASE out' = out
    BY <1>3, <2>4, <2>6
  <2>7. CASE out' = Append(out, Head(ring))
    <3>1. Head(ring) \in Seq(Nat)
      BY <2>5, SectionIs DEF TypeOK
    <3>2. /\ Len(out') = Len(out) + 1 /\ Len(out) \in Nat
          /\ \A i \in 1 .. Len(out) : out'[i] = out[i]
          /\ out'[Len(out) + 1] = Head(ring)
      BY <1>3, <2>7, <3>1, Elements
    <3>3. ASSUME NEW i \in 1 .. Len(out')
          PROVE  \E n \in Sections \ Unwanted : out'[i] = Section(n)
      <4>1. i \in 1 .. Len(out) \/ i = Len(out) + 1
        BY <3>2
      <4> QED
        BY <1>3, <2>5, <3>2, <4>1
    <3> QED
      BY <2>4, <3>3
  <2> QED
    BY <2>1, <2>6, <2>7
<1>7. CASE Receive \/ Lose \/ Repeat \/ CopyDump \/ Processed \/ ExtractEnds \/ UNCHANGED vars
  <2>1. ring' = ring /\ out' = out
    BY <1>7 DEF Receive, Lose, Repeat, Process, CopyDump, Processed, ExtractEnds, vars
  <2> QED
    BY <1>3, <2>1
<1> QED
  BY <1>5, <1>6, <1>7 DEF Next

-----------------------------------------------------------------------------
(* The order of what comes out. *)

\* The filter is not ahead of the bytes it has copied.
LEMMA CursorIs ==
  ASSUME TypeOK, PartsOK, FedOK
  PROVE  /\ Cursor \in Nat /\ Cursor =< Reached /\ Reached \in Nat /\ Reached =< Upto
         /\ Upto \in Nat
         /\ pusiSeen => Taken \in Nat
<1>1. /\ StreamOK /\ packet \in PacketType \cup {None} /\ pusiSeen \in BOOLEAN
      /\ buf \in Seq(Nat) /\ secBufp \in 0 .. Len(buf)
  BY DEF TypeOK, WayOK, FilterOK
<1>2. Reached \in 0 .. Total /\ Reached \in Nat /\ Reached =< Upto /\ Upto \in Nat
  BY <1>1, ReachedIs, UptoIs
<1>3. CASE pusiSeen
  <2>1. Fed(buf, secBufp, Reached)
    BY <1>3 DEF FedOK
  <2>2. From(buf) \in Nat /\ secBufp \in Nat
    BY <1>1, <1>2, <2>1, FedIs
  <2>3. Taken \in Nat /\ Taken =< Reached
    <3>1. PICK m \in 1 .. NumSections + 1 :
            start[m] \in Nat /\ From(buf) + secBufp = start[m] /\ start[m] =< Reached
      BY <1>1, <1>2, <2>1, FedIs
    <3> QED
      BY <3>1 DEF Taken
  <2> QED
    BY <1>2, <1>3, <2>3 DEF Cursor
<1>4. CASE ~pusiSeen
  <2>1. CASE packet = None
    BY <1>2, <1>4, <2>1 DEF Cursor
  <2>2. CASE packet # None
    <3>1. packet.first \in Nat \ {0} /\ packet.first =< packet.upto /\ packet.pointer \in Nat
          /\ packet.upto \in Nat
      BY <1>1, <2>2, UptoIs DEF PacketType, Upto
    <3>2. Reached = packet.upto \/ Reached = packet.first - 1 + packet.pointer
          \/ Reached = packet.first - 1 + 0
      BY <2>2 DEF Reached
    <3>3. Cursor = packet.first - 1
      BY <1>4, <2>2 DEF Cursor
    <3>4. packet.first - 1 \in Nat /\ packet.first - 1 =< Reached
      <4>1. PICK f \in Nat \ {0}, u \in Nat, t \in Nat :
              f = packet.first /\ u = packet.upto /\ t = packet.pointer
        BY <3>1
      <4>2. f =< u /\ (Reached = u \/ Reached = f - 1 + t \/ Reached = f - 1 + 0)
        BY <3>1, <3>2, <4>1
      <4>3. f - 1 \in Nat /\ f - 1 =< Reached
        BY <4>2
      <4> QED
        BY <4>1, <4>3
    <3> QED
      BY <1>2, <1>4, <3>3, <3>4
  <2> QED
    BY <2>1, <2>2
<1> QED
  BY <1>1, <1>3, <1>4

\* The rest of a section goes behind what the buffer has.
LEMMA CopyTaken ==
  ASSUME TypeOK, PartsOK, FedOK, CopyDump, ~Head(parts).new, pusiSeen
  PROVE  Taken' = Taken
<1>1. /\ secBufp' = secBufp /\ Old = buf /\ \A i \in 1 .. Len(Old) : buf'[i] = Old[i]
  BY CopyIs DEF Old
<1>2. Len(buf) \in Nat \ {0}
  <2>1. /\ StreamOK /\ buf \in Seq(Nat) /\ secBufp \in 0 .. Len(buf)
        /\ Fed(buf, secBufp, Reached) /\ Reached \in 0 .. Total
    BY ReachedIs DEF TypeOK, WayOK, FilterOK, FedOK
  <2> QED
    BY <2>1, FedIs
<1>3. buf'[1] = buf[1]
  <2>1. 1 \in 1 .. Len(buf)
    BY <1>2
  <2> QED
    BY <1>1, <2>1
<1> QED
  BY <1>1, <1>3 DEF Taken, From

\* The filter does not go back, unless a packet arrives again.
LEMMA CursorStep ==
  ASSUME TypeOK, PartsOK, CounterOK, FedOK, [Next]_vars, ~Repeat
  PROVE  Cursor' \in Nat /\ Cursor =< Cursor'
<1>1. /\ Cursor \in Nat /\ Cursor =< Reached /\ Reached \in Nat /\ Reached =< Upto
      /\ Upto \in Nat /\ Upto =< sent /\ sent \in Nat
  <2>1. sent \in Nat
    BY UptoIs DEF TypeOK, WayOK
  <2>2. Upto =< sent
    BY DEF CounterOK
  <2> QED
    BY <2>1, <2>2, CursorIs
<1>2. pusiSeen \in BOOLEAN
  BY DEF TypeOK, FilterOK
<1>3. CASE Receive
  <2>1. PICK p \in Packets, announced \in BOOLEAN : Process(p, announced)
    BY <1>3 DEF Receive
  <2>2. p \in PacketType /\ Legal(p) /\ p.first = sent + 1
    BY PacketsAre
  <2>3. /\ packet' = p /\ packet' # None /\ pusiSeen' \in BOOLEAN
        /\ \/ pusiSeen' = pusiSeen /\ buf' = buf /\ secBufp' = secBufp
           \/ pusiSeen' = FALSE
    BY <2>1, <2>2, ProcessIs DEF FilterOK
  <2>4. CASE ~pusiSeen'
    <3>1. Cursor' = sent
      BY <1>1, <2>2, <2>3, <2>4 DEF Cursor
    <3> QED
      BY <1>1, <3>1
  <2>5. CASE pusiSeen'
    <3>1. Cursor' = Cursor
      BY <2>3, <2>5 DEF Cursor, Taken, From
    <3> QED
      BY <1>1, <3>1
  <2> QED
    BY <2>3, <2>4, <2>5
<1>4. CASE CopyDump
  <2>1. packet' = packet /\ pusiSeen' = (pusiSeen \/ Head(parts).new)
        /\ Head(parts).new \in BOOLEAN
    BY <1>4, CopyIs
  <2>2. CASE Head(parts).new
    <3>1. Cursor' = Reached
      BY <1>4, <2>1, <2>2, CopyNewFed DEF Cursor
    <3> QED
      BY <1>1, <3>1
  <2>3. CASE ~Head(parts).new
    <3>1. pusiSeen => Taken' = Taken
      BY <1>4, <2>3, CopyTaken
    <3>2. Cursor' = Cursor
      BY <1>2, <2>1, <2>3, <3>1 DEF Cursor
    <3> QED
      BY <1>1, <3>2
  <2> QED
    BY <2>1, <2>2, <2>3
<1>5. CASE Extract
  <2>1. packet' = packet /\ pusiSeen' = pusiSeen
    BY <1>5 DEF Extract, way
  <2>2. CASE ~pusiSeen
    <3>1. Cursor' = Cursor
      BY <2>1, <2>2 DEF Cursor
    <3> QED
      BY <1>1, <3>1
  <2>3. CASE pusiSeen
    <3>1. PICK m \in Sections : Taken = start[m] /\ Taken' = start[m + 1]
      BY <1>5, <2>3, ExtractFed
    <3>2. /\ start[m] < start[m + 1] /\ start[m] \in Nat /\ start[m + 1] \in Nat
      BY LengthIs DEF TypeOK
    <3>3. Cursor = start[m] /\ Cursor' = start[m + 1]
      BY <2>1, <2>3, <3>1 DEF Cursor
    <3> QED
      BY <3>2, <3>3
  <2> QED
    BY <1>2, <2>2, <2>3
<1>6. CASE Lose \/ Send \/ Processed \/ ExtractEnds \/ UNCHANGED vars
  <2>1. /\ packet' = packet /\ pusiSeen' = pusiSeen /\ buf' = buf /\ secBufp' = secBufp
    BY <1>6 DEF Lose, Send, vars, Processed, ExtractEnds, way, filter
  <2>2. Cursor' = Cursor
    BY <2>1 DEF Cursor, Taken, From
  <2> QED
    BY <1>1, <2>2
<1> QED
  BY <1>3, <1>4, <1>5, <1>6 DEF Next

\* The first byte of a section that comes out is a number.
LEMMA FirstsAre ==
  ASSUME StreamOK, NEW s, AllGenuine(s)
  PROVE  \A i \in 1 .. Len(s) : s[i][1] \in Nat
<1> SUFFICES ASSUME NEW i \in 1 .. Len(s)
             PROVE  s[i][1] \in Nat
  OBVIOUS
<1>1. PICK n \in Sections : s[i] = Section(n)
  BY DEF AllGenuine
<1>2. start[n] \in Nat /\ Section(n)[1] = start[n] + 1
  BY SectionIs, LengthIs
<1> QED
  BY <1>1, <1>2

\* The sections that come out keep their order.
LEMMA OrderStep ==
  ASSUME TypeOK, PartsOK, CounterOK, FedOK, GenuineOK, OrderOK, [Next]_vars
  PROVE  OrderOK'
<1> SUFFICES ASSUME upsets' = 0
             PROVE  /\ Rising(out)' /\ Rising(ring)'
                    /\ \A i \in 1 .. Len(out'), j \in 1 .. Len(ring') : out'[i][1] < ring'[j][1]
                    /\ UpTo(out, Cursor)' /\ UpTo(ring, Cursor)'
  BY DEF OrderOK
<1>1. upsets = 0 /\ ~Repeat
  <2>1. upsets \in Nat
    BY SectionsAssumption DEF TypeOK, OutputOK
  <2>2. upsets' = upsets + 1 \/ (upsets' = upsets /\ ~Repeat)
    <3>1. CASE Repeat
      BY <3>1 DEF Repeat, Upset
    <3>2. CASE ~Repeat
      BY <3>2 DEF Next, Receive, Upset, Lose, CopyDump, Processed, Extract, ExtractEnds,
                  Send, vars, history
    <3> QED
      BY <3>1, <3>2
  <2> QED
    BY <2>1, <2>2
<1>2. Cursor' \in Nat /\ Cursor =< Cursor'
  BY <1>1, CursorStep
<1>3. Cursor \in Nat /\ Cursor' \in Nat
  BY <1>2, CursorIs
<1>4. /\ \A i, j \in 1 .. Len(out) : i < j => out[i][1] < out[j][1]
      /\ \A i, j \in 1 .. Len(ring) : i < j => ring[i][1] < ring[j][1]
      /\ \A i \in 1 .. Len(out), j \in 1 .. Len(ring) : out[i][1] < ring[j][1]
      /\ \A i \in 1 .. Len(out) : out[i][1] =< Cursor
      /\ \A i \in 1 .. Len(ring) : ring[i][1] =< Cursor
  BY <1>1 DEF OrderOK, Rising, UpTo
<1>5. /\ \A i \in 1 .. Len(out) : out[i][1] \in Nat
      /\ \A i \in 1 .. Len(ring) : ring[i][1] \in Nat
      /\ ring \in Seq(Seq(Nat)) /\ out \in Seq(Seq(Nat))
  BY FirstsAre DEF TypeOK, OutputOK, GenuineOK
<1>6. /\ \A i \in 1 .. Len(out) : out[i][1] =< Cursor'
      /\ \A i \in 1 .. Len(ring) : ring[i][1] =< Cursor'
  <2>1. ASSUME NEW a \in Nat, a =< Cursor
        PROVE  a =< Cursor'
    BY <1>2, <1>3, <2>1
  <2> QED
    BY <1>4, <1>5, <2>1
<1>7. CASE ring' = ring /\ out' = out
  BY <1>4, <1>6, <1>7 DEF Rising, UpTo
<1>8. CASE Extract
  <2>1. out' = out
    BY <1>8 DEF Extract
  <2>2. CASE ring' # ring
    <3>1. PICK m \in Sections : /\ Taken = start[m] /\ Taken' = start[m + 1] /\ pusiSeen
                                /\ ring' = Append(ring, Section(m))
      BY <1>8, <2>2, FilterIs
    <3>2. /\ Section(m) \in Seq(Nat) /\ Section(m)[1] = start[m] + 1
          /\ start[m] \in Nat /\ start[m + 1] \in Nat /\ start[m] < start[m + 1]
      BY SectionIs, LengthIs DEF TypeOK
    <3>3. Cursor = start[m] /\ Cursor' = start[m + 1]
      BY <1>8, <3>1 DEF Cursor, Extract
    <3>4. PICK c \in Nat : c = start[m] + 1 /\ Cursor < c /\ c =< Cursor'
      BY <3>2, <3>3
    <3>5. /\ Len(ring') = Len(ring) + 1 /\ Len(ring) \in Nat
          /\ \A i \in 1 .. Len(ring) : ring'[i] = ring[i]
          /\ ring'[Len(ring) + 1] = Section(m)
      BY <1>5, <3>1, <3>2, Elements
    <3>6. ring'[Len(ring) + 1][1] = c
      BY <3>2, <3>4, <3>5
    <3>7. /\ \A i \in 1 .. Len(out) : out[i][1] < c
          /\ \A i \in 1 .. Len(ring) : ring[i][1] < c
      <4>1. ASSUME NEW a \in Nat, a =< Cursor
            PROVE  a < c
        BY <1>3, <3>4, <4>1
      <4> QED
        BY <1>4, <1>5, <4>1
    <3>8. \A j \in 1 .. Len(ring') : j \in 1 .. Len(ring) \/ j = Len(ring) + 1
      BY <3>5
    <3>9. ASSUME NEW i \in 1 .. Len(ring'), NEW j \in 1 .. Len(ring'), i < j
          PROVE  ring'[i][1] < ring'[j][1]
      <4>1. i \in 1 .. Len(ring)
        BY <3>5, <3>9
      <4>2. CASE j \in 1 .. Len(ring)
        BY <1>4, <3>5, <3>9, <4>1, <4>2
      <4>3. CASE j = Len(ring) + 1
        BY <3>5, <3>6, <3>7, <4>1, <4>3
      <4> QED
        BY <3>8, <4>2, <4>3
    <3>10. ASSUME NEW i \in 1 .. Len(out), NEW j \in 1 .. Len(ring')
           PROVE  out[i][1] < ring'[j][1]
      <4>1. CASE j \in 1 .. Len(ring)
        BY <1>4, <3>5, <4>1
      <4>2. CASE j = Len(ring) + 1
        BY <3>6, <3>7, <4>2
      <4> QED
        BY <3>8, <4>1, <4>2
    <3>11. ASSUME NEW j \in 1 .. Len(ring')
           PROVE  ring'[j][1] =< Cursor'
      <4>1. CASE j \in 1 .. Len(ring)
        BY <1>6, <3>5, <4>1
      <4>2. CASE j = Len(ring) + 1
        BY <3>4, <3>6, <4>2
      <4> QED
        BY <3>8, <4>1, <4>2
    <3> QED
      BY <1>4, <1>6, <2>1, <3>9, <3>10, <3>11 DEF Rising, UpTo
  <2> QED
    BY <1>7, <2>1, <2>2
<1>9. CASE Send
  <2>1. /\ ring # <<>> /\ ring' = Tail(ring)
        /\ out' = Append(out, Head(ring)) \/ out' = out
    BY <1>9 DEF Send, DropFirst
  <2>2. <<>> \in Seq(Nat)
    BY EmptySeq
  <2>3. /\ Len(ring') = Len(ring) - 1 /\ Len(ring) \in Nat /\ Len(ring) >= 1
        /\ Head(ring) = ring[1]
        /\ \A i \in 1 .. Len(ring) - 1 : ring'[i] = ring[i + 1]
    BY <1>5, <2>1, <2>2, Elements
  <2>4. \A i \in 1 .. Len(ring') : /\ i + 1 \in 1 .. Len(ring) /\ 1 < i + 1
                                   /\ 1 \in 1 .. Len(ring) /\ ring'[i] = ring[i + 1]
    BY <2>3
  <2>5. ASSUME NEW i \in 1 .. Len(ring'), NEW j \in 1 .. Len(ring'), i < j
        PROVE  ring'[i][1] < ring'[j][1]
    <3>1. i + 1 < j + 1
      BY <2>3, <2>5
    <3> QED
      BY <1>4, <2>4, <3>1
  <2>6. ASSUME NEW j \in 1 .. Len(ring')
        PROVE  ring'[j][1] =< Cursor' /\ ring[1][1] < ring'[j][1]
    BY <1>4, <1>6, <2>4
  <2>7. 1 \in 1 .. Len(ring)
    BY <2>3
  <2>8. CASE out' = out
    <3>1. ASSUME NEW i \in 1 .. Len(out), NEW j \in 1 .. Len(ring')
          PROVE  out[i][1] < ring'[j][1]
      BY <1>4, <2>4
    <3> QED
      BY <1>4, <1>6, <2>5, <2>6, <2>8, <3>1 DEF Rising, UpTo
  <2>9. CASE out' = Append(out, Head(ring))
    <3>1. Head(ring) \in Seq(Nat)
      <4>1. ring[1] \in Seq(Nat)
        BY <1>5, <2>7, ElementOfSeq
      <4> QED
        BY <2>3, <4>1
    <3>2. /\ Len(out') = Len(out) + 1 /\ Len(out) \in Nat
          /\ \A i \in 1 .. Len(out) : out'[i] = out[i]
          /\ out'[Len(out) + 1] = ring[1]
      BY <1>5, <2>3, <2>9, <3>1, Elements
    <3>3. \A j \in 1 .. Len(out') : j \in 1 .. Len(out) \/ j = Len(out) + 1
      BY <3>2
    <3>4. ASSUME NEW i \in 1 .. Len(out'), NEW j \in 1 .. Len(out'), i < j
          PROVE  out'[i][1] < out'[j][1]
      <4>1. i \in 1 .. Len(out)
        BY <3>2, <3>4
      <4>2. CASE j \in 1 .. Len(out)
        BY <1>4, <3>2, <3>4, <4>1, <4>2
      <4>3. CASE j = Len(out) + 1
        BY <1>4, <2>7, <3>2, <4>1, <4>3
      <4> QED
        BY <3>3, <4>2, <4>3
    <3>5. ASSUME NEW i \in 1 .. Len(out'), NEW j \in 1 .. Len(ring')
          PROVE  out'[i][1] < ring'[j][1]
      <4>1. CASE i \in 1 .. Len(out)
        BY <1>4, <2>4, <3>2, <4>1
      <4>2. CASE i = Len(out) + 1
        BY <2>6, <3>2, <4>2
      <4> QED
        BY <3>3, <4>1, <4>2
    <3>6. ASSUME NEW i \in 1 .. Len(out')
          PROVE  out'[i][1] =< Cursor'
      <4>1. CASE i \in 1 .. Len(out)
        BY <1>6, <3>2, <4>1
      <4>2. CASE i = Len(out) + 1
        BY <1>6, <2>7, <3>2, <4>2
      <4> QED
        BY <3>3, <4>1, <4>2
    <3> QED
      BY <2>5, <2>6, <3>4, <3>5, <3>6 DEF Rising, UpTo
  <2> QED
    BY <2>1, <2>8, <2>9
<1>10. Extract \/ Send \/ (ring' = ring /\ out' = out)
  BY DEF Next, Receive, Lose, Repeat, Process, CopyDump, Processed, ExtractEnds, vars
<1> QED
  BY <1>7, <1>8, <1>9, <1>10

-----------------------------------------------------------------------------
(* What does not come out. *)

\* The stream is what it is, and what is lost or dropped remains so.
LEMMA HistoryStays ==
  ASSUME [Next]_vars
  PROVE  start' = start /\ broken \subseteq broken' /\ dropped \subseteq dropped'
<1>1. start' = start
  BY DEF Next, Receive, Lose, Repeat, Process, CopyDump, Processed, Extract, ExtractEnds,
         Send, vars, stream
<1>2. broken \subseteq broken'
  BY DEF Next, Receive, Lose, Repeat, CopyDump, Processed, Extract, ExtractEnds,
         Send, vars, history
<1>3. dropped \subseteq dropped'
  <2>1. CASE Extract
    <3> DEFINE section == SubSeq(buf, secBufp + 1, secBufp + GetLength(buf[secBufp + 1]))
    <3>1. IF pusiSeen THEN Filter(section) ELSE UNCHANGED <<ring, dropped>>
      BY <2>1 DEF Extract
    <3> HIDE DEF section
    <3> QED
      BY <3>1 DEF Filter
  <2>2. CASE ~Extract
    BY <2>2 DEF Next, Receive, Lose, Repeat, Process, CopyDump, Processed, ExtractEnds,
                Send, vars, history
  <2> QED
    BY <2>1, <2>2
<1> QED
  BY <1>1, <1>2, <1>3

\* A section that is out stays out, or the socket refuses it.
LEMMA OutStays ==
  ASSUME TypeOK, PartsOK, FedOK, [Next]_vars, NEW n \in Sections, IsOut(Section(n))
  PROVE  IsOut(Section(n))' \/ n \in dropped'
<1> DEFINE x == Section(n)
<1>1. Section(n)' = x
  BY HistoryStays DEF Section
<1>2. /\ ring \in Seq(Seq(Nat)) /\ out \in Seq(Seq(Nat)) /\ x \in Seq(Nat)
  BY SectionIs DEF TypeOK, OutputOK
<1>3. (\E i \in 1 .. Len(ring) : ring[i] = x) \/ (\E i \in 1 .. Len(out) : out[i] = x)
  BY DEF IsOut
<1>4. SUFFICES \/ \E i \in 1 .. Len(ring') : ring'[i] = x
               \/ \E i \in 1 .. Len(out') : out'[i] = x
               \/ n \in dropped'
  BY <1>1 DEF IsOut
<1>5. CASE ring' = ring /\ out' = out
  BY <1>3, <1>5
<1>6. CASE Extract /\ ring' # ring
  <2>1. PICK m \in Sections : ring' = Append(ring, Section(m)) /\ out' = out
    BY <1>6, FilterIs DEF Extract
  <2>2. Section(m) \in Seq(Nat)
    BY SectionIs DEF TypeOK
  <2>3. /\ Len(ring') = Len(ring) + 1 /\ Len(ring) \in Nat
        /\ \A i \in 1 .. Len(ring) : ring'[i] = ring[i]
    BY <1>2, <2>1, <2>2, Elements
  <2>4. \A i \in 1 .. Len(ring) : i \in 1 .. Len(ring')
    BY <2>3
  <2> QED
    BY <1>3, <2>1, <2>3, <2>4
<1>7. CASE Send
  <2>1. /\ ring # <<>> /\ ring' = Tail(ring)
        /\ \/ out' = Append(out, Head(ring))
           \/ /\ dropped' = dropped \cup {k \in Sections : Section(k) = Head(ring)}
              /\ out' = out
    BY <1>7 DEF Send, DropFirst
  <2>2. /\ Len(ring') = Len(ring) - 1 /\ Len(ring) \in Nat /\ Len(ring) >= 1
        /\ Head(ring) = ring[1]
        /\ \A i \in 1 .. Len(ring) - 1 : ring'[i] = ring[i + 1]
    BY <1>2, <2>1, Elements
  <2>3. Head(ring) \in Seq(Nat)
    <3>1. 1 \in 1 .. Len(ring)
      BY <2>2
    <3>2. ring[1] \in Seq(Nat)
      BY <1>2, <3>1, ElementOfSeq
    <3> QED
      BY <2>2, <3>2
  <2>4. /\ Len(Append(out, Head(ring))) = Len(out) + 1 /\ Len(out) \in Nat
        /\ \A i \in 1 .. Len(out) : Append(out, Head(ring))[i] = out[i]
        /\ Append(out, Head(ring))[Len(out) + 1] = Head(ring)
    BY <1>2, <2>3, Elements
  <2> HIDE DEF x
  <2>5. CASE \E i \in 1 .. Len(ring) : ring[i] = x
    <3>1. PICK i \in 1 .. Len(ring) : ring[i] = x
      BY <2>5
    <3>2. CASE i = 1
      <4>1. CASE out' = Append(out, Head(ring))
        <5>1. Len(out) + 1 \in 1 .. Len(out') /\ out'[Len(out) + 1] = x
          BY <2>2, <2>4, <3>1, <3>2, <4>1
        <5> QED
          BY <5>1
      <4>2. CASE dropped' = dropped \cup {k \in Sections : Section(k) = Head(ring)}
        BY <2>2, <3>1, <3>2, <4>2 DEF x
      <4> QED
        BY <2>1, <4>1, <4>2
    <3>3. CASE i # 1
      <4>1. PICK j \in 1 .. Len(ring) - 1 : j + 1 = i
        <5>1. i - 1 \in 1 .. Len(ring) - 1 /\ (i - 1) + 1 = i
          BY <2>2, <3>3
        <5> QED
          BY <5>1
      <4>2. j \in 1 .. Len(ring') /\ ring'[j] = x
        BY <2>2, <3>1, <4>1
      <4> QED
        BY <4>2
    <3> QED
      BY <3>2, <3>3
  <2>6. CASE \E i \in 1 .. Len(out) : out[i] = x
    <3>1. PICK i \in 1 .. Len(out) : out[i] = x
      BY <2>6
    <3>2. i \in 1 .. Len(out') /\ out'[i] = x
      <4>1. CASE out' = out
        BY <3>1, <4>1
      <4>2. CASE out' = Append(out, Head(ring))
        BY <2>4, <3>1, <4>2
      <4> QED
        BY <2>1, <4>1, <4>2
    <3> QED
      BY <3>2
  <2> QED
    BY <1>3, <2>5, <2>6
<1>8. Extract \/ Send \/ (ring' = ring /\ out' = out)
  BY DEF Next, Receive, Lose, Repeat, Process, CopyDump, Processed, ExtractEnds, vars
<1>9. Extract => out' = out
  BY DEF Extract
<1> QED
  BY <1>5, <1>6, <1>7, <1>8, <1>9

\* What has been dealt with remains so.
LEMMA DealtStays ==
  ASSUME TypeOK, PartsOK, FedOK, [Next]_vars, NEW n \in Sections, Dealt(n)
  PROVE  Dealt(n)'
BY HistoryStays, OutStays DEF Dealt

\* A section of which a packet has been sent, with the filter idle: it has been
\* dealt with, or the filter is in the middle of it.
LEMMA IdleIs ==
  ASSUME TypeOK, PartsOK, CounterOK, FedOK, MissOK, pc = "idle",
         NEW n \in Sections, start[n] < sent
  PROVE  \/ Dealt(n)
         \/ pusiSeen /\ Taken =< start[n] /\ gap = 0 /\ sent < start[n + 1]
<1> SUFFICES ASSUME ~Dealt(n)
             PROVE  pusiSeen /\ Taken =< start[n] /\ gap = 0 /\ sent < start[n + 1]
  OBVIOUS
<1>1. /\ Reached = Upto /\ Upto \in Nat /\ Upto =< sent /\ sent \in Nat /\ gap \in Nat
      /\ gap = 0 => sent = Upto
      /\ start[n] \in Nat /\ start[n + 1] \in Nat /\ start[n] < start[n + 1]
  <2>1. Reached = Upto /\ Upto \in Nat /\ Total \in Nat
    BY ReachedIs, UptoIs DEF TypeOK, WayOK, PartsOK
  <2>2. sent \in Nat /\ gap \in Nat
    BY <2>1, SectionsAssumption DEF TypeOK, WayOK
  <2>3. Upto =< sent /\ (gap = 0 => sent = Upto)
    BY DEF CounterOK
  <2>4. start[n] \in Nat /\ start[n + 1] \in Nat /\ start[n] < start[n + 1]
    BY LengthIs DEF TypeOK
  <2> QED
    BY <2>1, <2>2, <2>3, <2>4
<1>2. n \notin broken
  BY DEF Dealt
<1>3. gap > 0 => ~(Upto < start[n + 1])
  BY <1>2 DEF MissOK, LostOK
<1>4. start[n] < Reached => pusiSeen /\ Taken =< start[n]
  BY DEF MissOK, CopiedOK
<1>5. pusiSeen /\ Taken =< start[n] => Reached < start[n + 1]
  BY DEF FedOK, Waiting
<1>6. start[n] < Reached
  <2> SUFFICES ASSUME Upto =< start[n]
               PROVE  FALSE
    BY <1>1
  <2>1. Upto < start[n + 1]
    BY <1>1
  <2>2. gap = 0
    BY <1>1, <1>3, <2>1
  <2> QED
    BY <1>1, <2>2
<1>7. Upto < start[n + 1]
  BY <1>1, <1>4, <1>5, <1>6
<1>8. gap = 0
  BY <1>1, <1>3, <1>7
<1> QED
  BY <1>1, <1>4, <1>6, <1>7, <1>8

\* Sections with bytes in the packets that have been lost are broken.
LEMMA LostStep ==
  ASSUME TypeOK, PartsOK, CounterOK, LostOK, [Next]_vars
  PROVE  LostOK'
<1>1. start' = start /\ broken \subseteq broken'
  BY HistoryStays
<1>2. CASE Receive
  <2>1. gap' = 0
    BY <1>2 DEF Receive
  <2> QED
    BY <2>1 DEF LostOK
<1>3. CASE Lose
  <2>1. PICK p \in Packets :
          /\ sent' = p.upto
          /\ broken' = broken \cup
               {n \in Sections : Bytes(n) \cap p.first .. p.upto # {}}
    BY <1>3 DEF Lose
  <2>2. p.first = sent + 1 /\ sent < p.upto /\ p.upto \in Nat
    BY PacketsAre
  <2>3. packet' = packet /\ gap \in Nat /\ sent \in Nat /\ Upto \in Nat /\ (gap = 0 => sent = Upto)
    <3>1. sent \in Nat /\ Upto \in Nat /\ Total \in Nat
      BY UptoIs DEF TypeOK, WayOK
    <3>2. gap \in Nat
      BY SectionsAssumption DEF TypeOK, WayOK
    <3> QED
      BY <1>3, <3>1, <3>2 DEF Lose, CounterOK
  <2>4. Upto' = Upto
    BY <2>3 DEF Upto
  <2>5. ASSUME NEW n \in Sections, start[n] < p.upto, Upto < start[n + 1]
        PROVE  n \in broken'
    <3>1. start[n] \in Nat /\ start[n + 1] \in Nat /\ start[n] < start[n + 1]
      BY LengthIs DEF TypeOK
    <3>2. CASE start[n] < sent /\ gap > 0
      BY <1>1, <2>5, <3>2 DEF LostOK
    <3>3. CASE start[n] < sent /\ gap = 0
      <4>1. /\ sent + 1 \in start[n] + 1 .. start[n + 1]
            /\ sent + 1 \in p.first .. p.upto
        BY <2>2, <2>3, <2>5, <3>1, <3>3
      <4> QED
        BY <2>1, <4>1 DEF Bytes
    <3>4. CASE sent =< start[n]
      <4>1. /\ start[n] + 1 \in start[n] + 1 .. start[n + 1]
            /\ start[n] + 1 \in p.first .. p.upto
        BY <2>2, <2>3, <2>5, <3>1, <3>4
      <4> QED
        BY <2>1, <4>1 DEF Bytes
    <3> QED
      BY <2>3, <3>1, <3>2, <3>3, <3>4
  <2> QED
    BY <1>1, <2>1, <2>4, <2>5 DEF LostOK
<1>4. CASE ~Receive /\ ~Lose
  <2>1. /\ sent' = sent /\ gap' = gap /\ packet' = packet
    <3>1. CASE Repeat
      BY <3>1 DEF Repeat, Process
    <3>2. CASE ~Repeat
      BY <1>4, <3>2 DEF Next, CopyDump, Processed, Extract, ExtractEnds, Send, vars, way
    <3> QED
      BY <3>1, <3>2
  <2>2. Upto' = Upto
    BY <2>1 DEF Upto
  <2> QED
    BY <1>1, <2>1, <2>2 DEF LostOK
<1> QED
  BY <1>2, <1>3, <1>4

\* A packet arrives: what it interrupts is broken.
LEMMA ReceiveCopied ==
  ASSUME TypeOK, PartsOK, CounterOK, FedOK, MissOK, Receive
  PROVE  CopiedOK'
<1>1. PICK p \in Packets, announced \in BOOLEAN :
        /\ Process(p, announced)
        /\ announced => broken' = broken \cup Interrupted
  BY DEF Receive
<1>2. p \in PacketType /\ Legal(p) /\ p.first = sent + 1 /\ p.cc = cc /\ sent \in Nat
  BY PacketsAre, UptoIs DEF TypeOK, WayOK
<1>3. /\ start' = start /\ pc = "idle"
      /\ \/ /\ (feedCc + 1) % CcMod = p.cc /\ ~announced
            /\ pusiSeen' = pusiSeen /\ buf' = buf /\ secBufp' = secBufp
         \/ ~((feedCc + 1) % CcMod = p.cc /\ ~announced)
  BY <1>1, <1>2, ProcessIs
<1>4. Reached' = sent
  <2>1. Reached' = p.first - 1
    BY <1>1, <1>2, ProcessParts
  <2> QED
    BY <1>2, <2>1
<1> SUFFICES ASSUME NEW n \in Sections, start[n] < sent
             PROVE  Dealt(n)' \/ (pusiSeen' /\ Taken' =< start[n])
  BY <1>3, <1>4 DEF CopiedOK
<1>5. CASE Dealt(n)
  BY <1>5, DealtStays DEF Next
<1>6. CASE pusiSeen /\ Taken =< start[n] /\ gap = 0 /\ sent < start[n + 1]
  <2>1. (feedCc + 1) % CcMod = p.cc
    <3>1. packet # None
      BY <1>6 DEF PartsOK
    <3> QED
      BY <1>2, <1>6, <3>1, InSequence
  <2>2. CASE ~announced
    <3>1. pusiSeen' = pusiSeen /\ Taken' = Taken
      BY <1>3, <2>1, <2>2 DEF Taken, From
    <3> QED
      BY <1>6, <3>1
  <2>3. CASE announced
    <3>1. n \in broken'
      BY <1>1, <1>6, <2>3 DEF Interrupted
    <3> QED
      BY <3>1 DEF Dealt
  <2> QED
    BY <2>2, <2>3
<1> QED
  BY <1>3, <1>5, <1>6, IdleIs

\* A packet arrives again: what was at hand is broken.
LEMMA RepeatCopied ==
  ASSUME TypeOK, PartsOK, CounterOK, FedOK, MissOK, Repeat
  PROVE  CopiedOK'
<1>1. /\ packet \in PacketType /\ Legal(packet) /\ Process(packet, FALSE) /\ packet # None
      /\ broken' = broken \cup {n \in Interrupted : start[n] + 1 < packet.first}
  BY DEF Repeat, TypeOK, WayOK, PartsOK
<1>2. FALSE \in BOOLEAN
  OBVIOUS
<1>3. start' = start /\ pc = "idle" /\ Reached' = packet.first - 1
  BY <1>1, <1>2, ProcessIs, ProcessParts
<1>4. /\ packet.first \in Nat \ {0} /\ packet.first =< sent /\ sent \in Nat
  <2>1. /\ packet.first \in Nat \ {0} /\ packet.first =< Upto /\ Upto \in Nat /\ Total \in Nat
    BY <1>1, UptoIs DEF TypeOK, WayOK
  <2>2. sent \in Nat /\ Upto =< sent
    BY <2>1 DEF TypeOK, WayOK, CounterOK
  <2> QED
    BY <2>1, <2>2
<1> SUFFICES ASSUME NEW n \in Sections, start[n] < packet.first - 1
             PROVE  Dealt(n)'
  BY <1>3 DEF CopiedOK
<1>5. start[n] \in Nat /\ start[n] < sent /\ start[n] + 1 < packet.first
  <2>1. start[n] \in Nat
    BY LengthIs DEF TypeOK
  <2> QED
    BY <1>4, <2>1
<1>6. CASE Dealt(n)
  BY <1>6, DealtStays DEF Next
<1>7. CASE sent < start[n + 1]
  <2>1. n \in broken'
    BY <1>1, <1>5, <1>7 DEF Interrupted
  <2> QED
    BY <2>1 DEF Dealt
<1> QED
  BY <1>3, <1>5, <1>6, <1>7, IdleIs

\* Copying reaches no further section, or starts the buffer with it.
LEMMA CopyCopied ==
  ASSUME TypeOK, PartsOK, FedOK, CopiedOK, CopyDump
  PROVE  CopiedOK'
<1>1. /\ StreamOK /\ packet \in PacketType \cup {None} /\ pusiSeen \in BOOLEAN
  BY DEF TypeOK, WayOK, FilterOK
<1>2. /\ start' = start /\ parts # <<>> /\ Reached' = After /\ pc = "copy"
      /\ pusiSeen' = (pusiSeen \/ Head(parts).new) /\ Head(parts).new \in BOOLEAN
  BY CopyIs
<1>3. /\ Reached \in Nat /\ After \in Nat /\ Reached =< After
      /\ IF Head(parts).new
         THEN \E n \in Sections : Reached = start[n]
         ELSE \/ After = Reached
              \/ \E n \in Sections :
                   start[n] < Reached /\ Reached < After /\ After =< start[n + 1]
  BY <1>1, <1>2, HeadIs
<1> SUFFICES ASSUME NEW n \in Sections, start[n] < After
             PROVE  Dealt(n)' \/ (pusiSeen' /\ Taken' =< start[n])
  BY <1>2 DEF CopiedOK
<1>4. CASE Dealt(n)
  BY <1>4, DealtStays DEF Next
<1>5. CASE ~Dealt(n) /\ Head(parts).new
  <2>1. pusiSeen' /\ Taken' = Reached
    BY <1>5, CopyNewFed
  <2>2. PICK k \in Sections : Reached = start[k]
    BY <1>3, <1>5
  <2>3. /\ n \in 1 .. NumSections + 1 /\ n + 1 \in 1 .. NumSections + 1
        /\ k \in 1 .. NumSections + 1 /\ start[n] \in Nat /\ start[n + 1] \in Nat
        /\ start[k] \in Nat /\ NumSections \in Nat
    BY <1>1, LengthIs
  <2>4. ~(start[n] < Reached)
    <3> SUFFICES ASSUME start[n] < Reached
                 PROVE  FALSE
      OBVIOUS
    <3>1. pusiSeen /\ Taken =< start[n]
      BY <1>5 DEF CopiedOK
    <3>2. Reached < start[n + 1]
      BY <1>2, <3>1 DEF FedOK, Waiting
    <3>3. start[n] < start[k] /\ start[k] < start[n + 1]
      BY <2>2, <3>2
    <3>4. n < k /\ k < n + 1
      BY <1>1, <2>3, <3>3, Grows
    <3> QED
      BY <2>3, <3>4
  <2> QED
    BY <1>3, <2>1, <2>3, <2>4
<1>6. CASE ~Dealt(n) /\ ~Head(parts).new
  <2>1. start[n] < Reached
    <3>1. CASE After = Reached
      BY <3>1
    <3>2. CASE \E k \in Sections :
                 start[k] < Reached /\ Reached < After /\ After =< start[k + 1]
      <4>1. PICK k \in Sections :
              start[k] < Reached /\ Reached < After /\ After =< start[k + 1]
        BY <3>2
      <4>2. /\ n \in 1 .. NumSections + 1 /\ k + 1 \in 1 .. NumSections + 1
            /\ k \in 1 .. NumSections + 1 /\ start[n] \in Nat /\ start[k + 1] \in Nat
            /\ start[k] \in Nat /\ NumSections \in Nat
        BY <1>1, LengthIs
      <4>3. start[n] < start[k + 1]
        BY <1>3, <4>1, <4>2
      <4>4. n < k + 1
        BY <1>1, <4>2, <4>3, Grows
      <4>5. n =< k
        BY <4>2, <4>4
      <4>6. start[n] =< start[k]
        BY <1>1, <4>2, <4>5, Grows
      <4> QED
        BY <1>3, <4>1, <4>2, <4>6
    <3> QED
      BY <1>3, <1>6, <3>1, <3>2
  <2>2. pusiSeen /\ Taken =< start[n]
    BY <1>6, <2>1 DEF CopiedOK
  <2>3. Taken' = Taken
    BY <1>6, <2>2, CopyTaken
  <2> QED
    BY <1>2, <2>2, <2>3
<1> QED
  BY <1>2, <1>4, <1>5, <1>6

\* The section taken out is dealt with.
LEMMA ExtractCopied ==
  ASSUME TypeOK, PartsOK, FedOK, CopiedOK, Extract
  PROVE  CopiedOK'
<1>1. /\ start' = start /\ parts' = parts /\ packet' = packet /\ pusiSeen' = pusiSeen
      /\ buf' = buf
  BY DEF Extract, stream, way
<1>2. Reached' = Reached
  BY <1>1 DEF Reached
<1> SUFFICES ASSUME NEW n \in Sections, start[n] < Reached, ~Dealt(n)
             PROVE  Dealt(n)' \/ (pusiSeen' /\ Taken' =< start[n])
  BY <1>1, <1>2, DealtStays DEF CopiedOK, Next
<1>3. pusiSeen /\ Taken =< start[n]
  BY DEF CopiedOK
<1>4. PICK m \in Sections :
        /\ Taken = start[m] /\ Taken' = start[m + 1]
        /\ \/ m \in Unwanted
           \/ ring' = Append(ring, Section(m))
           \/ dropped' = dropped \cup {m}
  BY <1>3, FilterIs
<1>5. /\ n \in 1 .. NumSections + 1 /\ m \in 1 .. NumSections + 1
      /\ m + 1 \in 1 .. NumSections + 1 /\ start[n] \in Nat /\ start[m] \in Nat
      /\ start[m + 1] \in Nat /\ NumSections \in Nat
  BY LengthIs DEF TypeOK
<1>6. CASE n = m
  <2>1. CASE ring' = Append(ring, Section(m))
    <3>1. ring \in Seq(Seq(Nat)) /\ Section(m) \in Seq(Nat)
      BY SectionIs DEF TypeOK, OutputOK
    <3>2. /\ Len(ring') = Len(ring) + 1 /\ Len(ring) \in Nat
          /\ ring'[Len(ring) + 1] = Section(m)
      BY <2>1, <3>1, Elements
    <3>3. Len(ring) + 1 \in 1 .. Len(ring')
      BY <3>2
    <3>4. Section(n)' = Section(m)
      BY <1>1, <1>6 DEF Section
    <3>5. IsOut(Section(n))'
      BY <3>2, <3>3, <3>4 DEF IsOut
    <3> QED
      BY <3>5 DEF Dealt
  <2>2. CASE m \in Unwanted \/ dropped' = dropped \cup {m}
    BY <1>6, <2>2 DEF Dealt
  <2> QED
    BY <1>4, <2>1, <2>2
<1>7. CASE n # m
  <2>1. ~(start[n] < start[m])
    BY <1>3, <1>4, <1>5
  <2>2. ~(n < m)
    BY <1>5, <2>1, Grows DEF TypeOK
  <2>3. m + 1 =< n
    BY <1>5, <1>7, <2>2
  <2>4. start[m + 1] =< start[n]
    BY <1>5, <2>3, Grows DEF TypeOK
  <2> QED
    BY <1>1, <1>3, <1>4, <2>4
<1> QED
  BY <1>6, <1>7

\* Each section is dealt with, or still to be taken out.
LEMMA MissStep ==
  ASSUME TypeOK, PartsOK, CounterOK, FedOK, MissOK, [Next]_vars
  PROVE  MissOK'
<1>1. CopiedOK /\ LostOK
  BY DEF MissOK
<1>2. LostOK'
  BY <1>1, LostStep
<1>3. CopiedOK'
  <2>1. CASE Receive
    BY <2>1, ReceiveCopied
  <2>2. CASE Repeat
    BY <2>2, RepeatCopied
  <2>3. CASE CopyDump
    BY <1>1, <2>3, CopyCopied
  <2>4. CASE Extract
    BY <1>1, <2>4, ExtractCopied
  <2>5. CASE Lose \/ Send \/ Processed \/ ExtractEnds \/ UNCHANGED vars
    <3>1. /\ start' = start /\ parts' = parts /\ packet' = packet
          /\ pusiSeen' = pusiSeen /\ buf' = buf /\ secBufp' = secBufp
      BY <2>5 DEF Lose, Send, Processed, ExtractEnds, vars, stream, way, filter
    <3>2. Reached' = Reached /\ Taken' = Taken
      BY <3>1 DEF Reached, Taken, From
    <3> QED
      BY <1>1, <3>1, <3>2, DealtStays DEF CopiedOK
  <2> QED
    BY <2>1, <2>2, <2>3, <2>4, <2>5 DEF Next
<1> QED
  BY <1>2, <1>3 DEF MissOK

-----------------------------------------------------------------------------
(* The theorems. *)

\* Nothing has arrived at first.
LEMMA InitInv ==
  ASSUME Init
  PROVE  Inv
<1>1. /\ sent = 0 /\ cc \in 0 .. CcMod - 1 /\ gap = 0 /\ packet = None
      /\ pusiSeen = FALSE /\ feedCc = 0 /\ buf = <<>> /\ secBufp = 0
      /\ parts = <<>> /\ pc = "idle" /\ ring = <<>> /\ out = <<>>
      /\ broken = {} /\ dropped = {} /\ lost = 0 /\ upsets = 0
  BY DEF Init
<1>2. StreamOK
  <2>1. start \in [1 .. NumSections + 1 -> 0 .. NumSections * MaxSection]
    BY DEF Init
  <2>2. start \in [1 .. NumSections + 1 -> Nat]
    <3> DEFINE top == NumSections * MaxSection
    <3>1. top \in Nat
      BY SectionsAssumption
    <3> HIDE DEF top
    <3>2. 0 .. top \subseteq Nat
      BY <3>1
    <3>3. start \in [1 .. NumSections + 1 -> 0 .. top]
      BY <2>1 DEF top
    <3> QED
      BY <3>2, <3>3
  <2> QED
    BY <2>2 DEF Init, StreamOK
<1>3. /\ CcMod \in Nat \ {0} /\ Total \in Nat /\ FeedSize \in Nat /\ RingSize \in Nat
      /\ MaxLost \in Nat /\ MaxUpsets \in Nat
  BY <1>2, SectionsAssumption, LengthIs DEF Total
<1>4. /\ Len(buf) = 0 /\ Len(ring) = 0 /\ Len(out) = 0
  BY <1>1
<1>5. WayOK
  BY <1>1, <1>3 DEF WayOK
<1>6. FilterOK
  <2>1. buf \in Seq(Nat) /\ parts \in Seq([new : BOOLEAN, data : Seq(Nat)])
    BY <1>1, EmptySeq
  <2>2. Len(buf) =< FeedSize /\ secBufp \in 0 .. Len(buf) /\ feedCc \in 0 .. CcMod - 1
    BY <1>1, <1>3, <1>4
  <2>3. pusiSeen \in BOOLEAN /\ pc \in {"idle", "copy", "extract"}
    BY <1>1
  <2> QED
    BY <2>1, <2>2, <2>3 DEF FilterOK
<1>7. OutputOK
  <2>1. ring \in Seq(Seq(Nat)) /\ out \in Seq(Seq(Nat))
    BY <1>1, EmptySeq
  <2> QED
    BY <1>1, <1>3, <1>4, <2>1 DEF OutputOK
<1>8. PartsOK /\ FedOK
  BY <1>1 DEF PartsOK, FedOK
<1>9. CounterOK
  BY <1>1 DEF CounterOK, Upto
<1>10. GenuineOK /\ OrderOK
  BY <1>4 DEF GenuineOK, AllGenuine, OrderOK, Rising, UpTo
<1>11. MissOK
  <2>1. Reached = 0 /\ ~(gap > 0)
    BY <1>1 DEF Reached
  <2>2. ASSUME NEW n \in Sections
        PROVE  ~(start[n] < 0)
    BY <1>2, LengthIs
  <2> QED
    BY <2>1, <2>2 DEF MissOK, CopiedOK, LostOK
<1> QED
  BY <1>2, <1>5, <1>6, <1>7, <1>8, <1>9, <1>10, <1>11 DEF Inv, TypeOK

\* The invariant is kept by every step.
THEOREM Invariance == Spec => []Inv
<1>1. Init => Inv
  BY InitInv
<1>2. ASSUME Inv, [Next]_vars
      PROVE  Inv'
  <2>1. TypeOK /\ PartsOK /\ CounterOK /\ FedOK /\ GenuineOK /\ OrderOK /\ MissOK
    BY <1>2 DEF Inv
  <2>2. TypeOK'
    BY <1>2, <2>1, TypeStep
  <2>3. PartsOK'
    BY <1>2, <2>1, PartsStep
  <2>4. CounterOK'
    BY <1>2, <2>1, CounterStep
  <2>5. FedOK'
    BY <1>2, <2>1, FedStep
  <2>6. GenuineOK'
    BY <1>2, <2>1, GenuineStep
  <2>7. OrderOK'
    BY <1>2, <2>1, OrderStep
  <2>8. MissOK'
    BY <1>2, <2>1, MissStep
  <2> QED
    BY <2>2, <2>3, <2>4, <2>5, <2>6, <2>7, <2>8 DEF Inv
<1> QED
  BY <1>1, <1>2, PTL DEF Spec

\* The state of the filter and of the way to it is always of its type: the buffer
\* never grows beyond its size, the position never leaves it.
THEOREM TypeCorrect == Spec => []TypeOK
<1>1. Inv => TypeOK
  BY DEF Inv
<1> QED
  BY <1>1, Invariance, PTL

\* What has come out is in the ring buffer or with VDR.
LEMMA DeliveredIs ==
  ASSUME ring \in Seq(Seq(Nat)), out \in Seq(Seq(Nat)), NEW x
  PROVE  x \in Delivered <=> IsOut(x)
<1> DEFINE k == Len(ring)
           l == Len(out)
           f == ring \o out
<1>1. /\ k \in Nat /\ l \in Nat /\ f \in Seq(Seq(Nat)) /\ Len(f) = k + l
      /\ \A i \in 1 .. k + l : f[i] = IF i =< k THEN ring[i] ELSE out[i - k]
  BY ConcatProperties
<1>2. DOMAIN f = 1 .. k + l
  BY <1>1
<1>3. x \in Delivered <=> \E i \in 1 .. k + l : f[i] = x
  BY <1>2 DEF Delivered, Found
<1>4. IsOut(x) <=> (\E i \in 1 .. k : ring[i] = x) \/ (\E i \in 1 .. l : out[i] = x)
  BY DEF IsOut
<1> HIDE DEF k, l, f
<1>5. ASSUME NEW i \in 1 .. k + l
      PROVE  \/ i \in 1 .. k /\ f[i] = ring[i]
             \/ i - k \in 1 .. l /\ f[i] = out[i - k]
  <2>1. CASE i =< k
    BY <1>1, <2>1
  <2>2. CASE ~(i =< k)
    BY <1>1, <2>2
  <2> QED
    BY <2>1, <2>2
<1>6. ASSUME NEW i \in 1 .. k
      PROVE  i \in 1 .. k + l /\ f[i] = ring[i]
  <2>1. i \in 1 .. k + l /\ i =< k
    BY <1>1
  <2> QED
    BY <1>1, <2>1
<1>7. ASSUME NEW i \in 1 .. l
      PROVE  k + i \in 1 .. k + l /\ f[k + i] = out[i]
  <2>1. k + i \in 1 .. k + l /\ ~(k + i =< k) /\ (k + i) - k = i
    BY <1>1
  <2> QED
    BY <1>1, <2>1
<1> QED
  BY <1>3, <1>4, <1>5, <1>6, <1>7

\* Whatever packets are lost or repeated: each section handed out is one of the
\* stream, as a whole, and of the table asked for.
THEOREM OnlyGenuine == Spec => []Genuine
<1>1. ASSUME Inv
      PROVE  Genuine
  <2>1. ring \in Seq(Seq(Nat)) /\ out \in Seq(Seq(Nat)) /\ AllGenuine(ring) /\ AllGenuine(out)
    BY <1>1 DEF Inv, TypeOK, OutputOK, GenuineOK
  <2> SUFFICES ASSUME NEW x \in Delivered
               PROVE  \E n \in Sections \ Unwanted : x = Section(n)
    BY DEF Genuine
  <2>2. IsOut(x)
    BY <2>1, DeliveredIs
  <2> QED
    BY <2>1, <2>2 DEF IsOut, AllGenuine
<1> QED
  BY <1>1, Invariance, PTL

\* With the filter idle, every section that was sent in full has come out, unless
\* it is of another table, was interrupted, or found no room.
THEOREM NoneMissed == Spec => []NothingMissed
<1>1. ASSUME Inv
      PROVE  NothingMissed
  <2> SUFFICES ASSUME pc = "idle", NEW n \in Sections \ (Unwanted \cup broken \cup dropped),
                      start[n + 1] =< sent
               PROVE  Section(n) \in Delivered
    BY DEF NothingMissed
  <2>1. TypeOK /\ PartsOK /\ CounterOK /\ FedOK /\ MissOK
    BY <1>1 DEF Inv
  <2>2. /\ start[n] \in Nat /\ start[n + 1] \in Nat /\ start[n] < start[n + 1]
        /\ sent \in Nat /\ n \in Sections
    <3>1. StreamOK /\ n \in Sections
      BY <2>1 DEF TypeOK
    <3>2. Total \in Nat /\ sent \in 0 .. Total
      BY <2>1, <3>1, LengthIs DEF TypeOK, WayOK, Total
    <3> QED
      BY <3>1, <3>2, LengthIs
  <2>3. start[n] < sent /\ ~(sent < start[n + 1])
    BY <2>2
  <2>4. Dealt(n)
    BY <2>1, <2>2, <2>3, IdleIs
  <2>5. IsOut(Section(n))
    BY <2>4 DEF Dealt
  <2> QED
    BY <2>1, <2>5, DeliveredIs DEF TypeOK, OutputOK
<1> QED
  BY <1>1, Invariance, PTL

\* As long as no packet arrives again and none announces a discontinuity, the
\* sections come out in the order of the stream, none twice.
THEOREM SectionsInOrder == Spec => []InOrder
<1>1. ASSUME Inv
      PROVE  InOrder
  <2> DEFINE l == Len(out)
             k == Len(ring)
             all == out \o ring
  <2> SUFFICES ASSUME upsets = 0, NEW i \in DOMAIN all, NEW j \in DOMAIN all, i < j
               PROVE  all[i][1] < all[j][1]
    BY DEF InOrder
  <2>1. ring \in Seq(Seq(Nat)) /\ out \in Seq(Seq(Nat)) /\ OrderOK
    BY <1>1 DEF Inv, TypeOK, OutputOK
  <2>2. /\ \A x, y \in 1 .. l : x < y => out[x][1] < out[y][1]
        /\ \A x, y \in 1 .. k : x < y => ring[x][1] < ring[y][1]
        /\ \A x \in 1 .. l, y \in 1 .. k : out[x][1] < ring[y][1]
    BY <2>1 DEF OrderOK, Rising
  <2>3. /\ k \in Nat /\ l \in Nat /\ all \in Seq(Seq(Nat)) /\ Len(all) = l + k
        /\ \A x \in 1 .. l + k : all[x] = IF x =< l THEN out[x] ELSE ring[x - l]
    BY <2>1, ConcatProperties
  <2>4. i \in 1 .. l + k /\ j \in 1 .. l + k
    BY <2>3
  <2> HIDE DEF l, k, all
  <2>5. CASE j =< l
    <3>1. i \in 1 .. l /\ j \in 1 .. l /\ i =< l
      BY <2>3, <2>4, <2>5
    <3> QED
      BY <2>2, <2>3, <2>4, <2>5, <3>1
  <2>6. CASE i =< l /\ ~(j =< l)
    <3>1. i \in 1 .. l /\ j - l \in 1 .. k
      BY <2>3, <2>4, <2>6
    <3>2. all[i] = out[i] /\ all[j] = ring[j - l]
      BY <2>3, <2>4, <2>6
    <3> QED
      BY <2>2, <3>1, <3>2
  <2>7. CASE ~(i =< l) /\ ~(j =< l)
    <3>1. i - l \in 1 .. k /\ j - l \in 1 .. k /\ i - l < j - l
      BY <2>3, <2>4, <2>7
    <3>2. all[i] = ring[i - l] /\ all[j] = ring[j - l]
      BY <2>3, <2>4, <2>7
    <3> QED
      BY <2>2, <3>1, <3>2
  <2> QED
    BY <2>3, <2>4, <2>5, <2>6, <2>7
<1> QED
  BY <1>1, Invariance, PTL
=============================================================================
