------------------------- MODULE SatipDiscoverProofs -------------------------
(***************************************************************************)
(* Proofs about SatipDiscover: the list of servers holds each server once, *)
(* and one that gives its description stays, for any number of hosts and   *)
(* of servers they are listed as, and any time a server is given that is   *)
(* two intervals at least.                                                 *)
(***************************************************************************)
EXTENDS SatipDiscover, FunctionTheorems, FiniteSetTheorems, SequenceTheorems, TLAPS

\* An entry is for one of the servers of its host, or has no description; there
\* are no two for the same server.
EntriesOK ==
  /\ \A i \in 1 .. Len(servers) : servers[i].part =< Parts[servers[i].host]
  /\ \A i, j \in 1 .. Len(servers) :
       servers[i].host = servers[j].host /\ servers[i].part = servers[j].part => i = j

Inv == TypeOK /\ EntriesOK

\* The time since the last round began, as far as the thread has got with it,
\* and the rounds before.
Since(m, at, time) ==
  CASE at = "probe"   -> m * Interval + Interval
    [] at = "cleanup" -> m * Interval
    [] OTHER          -> m * Interval + time

\* A server is seen whenever its host gives a description.
AgesOK ==
  \A i \in 1 .. Len(servers) :
    servers[i].part > 0 /\ missed[servers[i].host] < 3
      => servers[i].age =< Since(missed[servers[i].host], pc, sinceProbe)

-----------------------------------------------------------------------------
(* What is left of a list. *)

\* A number of K is the first, the second and so on of K, and each place is
\* taken.
LEMMA Places ==
  ASSUME NEW n \in Nat, NEW K \in SUBSET (1 .. n)
  PROVE  /\ Cardinality(K) \in Nat
         /\ \A k, l \in K : k < l =>
              Cardinality({j \in K : j =< k}) < Cardinality({j \in K : j =< l})
         /\ \A k \in K : Cardinality({j \in K : j =< k}) \in 1 .. Cardinality(K)
         /\ \A i \in 1 .. Cardinality(K) :
              \E k \in K : Cardinality({j \in K : j =< k}) = i
<1> DEFINE c == Cardinality(K)
           Upto(k) == {j \in K : j =< k}
           r == [k \in K |-> Cardinality(Upto(k))]
<1>1. IsFiniteSet(K) /\ c \in Nat
  <2>1. IsFiniteSet(1 .. n)
    BY FS_Interval
  <2>2. IsFiniteSet(K)
    BY <2>1, FS_Subset
  <2> QED
    BY <2>2, FS_CardinalityType
<1>2. ASSUME NEW k \in K
      PROVE  /\ IsFiniteSet(Upto(k)) /\ Cardinality(Upto(k)) \in 1 .. c
             /\ \A l \in K : k < l => Cardinality(Upto(k)) < Cardinality(Upto(l))
  <2>1. k \in Nat /\ k \in Upto(k)
    OBVIOUS
  <2>2. ASSUME NEW l \in K
        PROVE  /\ IsFiniteSet(Upto(l)) /\ Cardinality(Upto(l)) \in Nat
               /\ Cardinality(Upto(l)) =< c
    <3>1. Upto(l) \in SUBSET K
      OBVIOUS
    <3> HIDE DEF Upto
    <3>2. IsFiniteSet(Upto(l)) /\ Cardinality(Upto(l)) =< Cardinality(K)
      BY <1>1, <3>1, FS_Subset
    <3> QED
      BY <3>2, FS_CardinalityType
  <2>3. Cardinality(Upto(k)) # 0
    <3> HIDE DEF Upto
    <3> QED
      BY <2>1, <2>2, FS_EmptySet
  <2>4. ASSUME NEW l \in K, k < l
        PROVE  Cardinality(Upto(k)) < Cardinality(Upto(l))
    <3>1. l \in Nat /\ l \in Upto(l) /\ l \notin Upto(k) /\ Upto(k) \in SUBSET Upto(l)
      <4>1. l \in Nat /\ \A j \in K : j \in Nat
        OBVIOUS
      <4>2. \A j \in K : j =< k => j =< l
        BY <2>1, <2>4, <4>1
      <4>3. ~(l =< k) /\ l =< l
        BY <2>1, <2>4, <4>1
      <4> QED
        BY <4>1, <4>2, <4>3
    <3> HIDE DEF Upto
    <3>2. /\ Cardinality(Upto(k)) =< Cardinality(Upto(l))
          /\ Cardinality(Upto(l)) = Cardinality(Upto(k)) => Upto(l) = Upto(k)
      BY <2>2, <3>1, FS_Subset
    <3> QED
      BY <2>2, <3>1, <3>2
  <2> HIDE DEF Upto, c
  <2>5. Cardinality(Upto(k)) \in 1 .. c
    BY <1>1, <2>2, <2>3
  <2> QED
    BY <2>2, <2>4, <2>5
<1>3. r \in Injection(K, 1 .. c)
  <2>1. r \in [K -> 1 .. c]
    <3> HIDE DEF c, Upto
    <3> QED
      BY <1>2
  <2>2. ASSUME NEW k \in K, NEW l \in K, k # l
        PROVE  r[k] # r[l]
    <3>1. k < l \/ l < k
      BY <2>2
    <3>2. /\ Cardinality(Upto(k)) \in Nat /\ Cardinality(Upto(l)) \in Nat
          /\ k < l => Cardinality(Upto(k)) < Cardinality(Upto(l))
          /\ l < k => Cardinality(Upto(l)) < Cardinality(Upto(k))
      <4> HIDE DEF Upto, c
      <4> QED
        BY <1>1, <1>2
    <3>3. r[k] = Cardinality(Upto(k)) /\ r[l] = Cardinality(Upto(l))
      <4> HIDE DEF Upto
      <4> QED
        OBVIOUS
    <3> HIDE DEF Upto, r
    <3> QED
      BY <3>1, <3>2, <3>3
  <2> HIDE DEF r, c
  <2> QED
    BY <2>1, <2>2, Zenon DEF Injection, IsInjective
<1>4. r \in Surjection(K, 1 .. c)
  <2>1. IsFiniteSet(1 .. c) /\ Cardinality(1 .. c) = c
    BY <1>1, FS_Interval
  <2> HIDE DEF r
  <2> QED
    BY <1>3, <2>1, FS_Injection DEF c
<1>5. ASSUME NEW i \in 1 .. c
      PROVE  \E k \in K : Cardinality(Upto(k)) = i
  <2>1. PICK k \in K : r[k] = i
    <3> HIDE DEF r, c
    <3> QED
      BY <1>4, Zenon DEF Surjection
  <2> QED
    BY <2>1
<1> QED
  BY <1>1, <1>2, <1>5

\* f tells which place in the list each element had of what is left.
Origin(f, list, K) ==
  /\ f \in [1 .. Len(Left(list, K)) -> K]
  /\ \A i, j \in 1 .. Len(Left(list, K)) : i < j => f[i] < f[j]
  /\ \A k \in K : \E i \in 1 .. Len(Left(list, K)) : f[i] = k
  /\ \A i \in 1 .. Len(Left(list, K)) : Left(list, K)[i] = list[f[i]]

\* What is left keeps its order.
LEMMA LeftIs ==
  ASSUME NEW S, NEW list \in Seq(S), NEW K \in SUBSET (1 .. Len(list))
  PROVE  Left(list, K) \in Seq(S) /\ \E f : Origin(f, list, K)
<1> DEFINE c == Cardinality(K)
           R(k) == Cardinality({j \in K : j =< k})
           f == [i \in 1 .. c |-> CHOOSE k \in K : R(k) = i]
<1>1. /\ c \in Nat /\ \A k, l \in K : k < l => R(k) < R(l)
      /\ \A k \in K : R(k) \in 1 .. c
      /\ \A i \in 1 .. c : \E k \in K : R(k) = i
  <2>1. Len(list) \in Nat
    OBVIOUS
  <2> QED
    BY <2>1, Places, Zenon
<1>2. K \subseteq Nat /\ \A k \in K : list[k] \in S
  BY ElementOfSeq
<1>3. Left(list, K) = [i \in 1 .. c |-> list[f[i]]]
  BY DEF Left, Ascending
<1> HIDE DEF c, R
<1>4. ASSUME NEW i \in 1 .. c PROVE f[i] \in K /\ R(f[i]) = i
  <2>1. \E k \in K : R(k) = i
    BY <1>1
  <2>2. f[i] = CHOOSE k \in K : R(k) = i
    OBVIOUS
  <2> HIDE DEF f
  <2> QED
    BY <2>1, <2>2, Zenon
<1>5. f \in [1 .. c -> K]
  BY <1>4
<1> HIDE DEF f
<1>6. Left(list, K) \in Seq(S) /\ Len(Left(list, K)) = c
  <2> DEFINE q == [i \in 1 .. c |-> list[f[i]]]
  <2>1. q \in [1 .. c -> S]
    BY <1>2, <1>4
  <2> HIDE DEF q
  <2>2. q \in Seq(S) /\ Len(q) = c
    BY <1>1, <2>1
  <2> QED
    BY <1>3, <2>2 DEF q
<1>7. ASSUME NEW i \in 1 .. c, NEW j \in 1 .. c, i < j
      PROVE  f[i] < f[j]
  <2>1. /\ f[i] \in K /\ f[j] \in K /\ R(f[i]) = i /\ R(f[j]) = j
        /\ f[i] \in Nat /\ f[j] \in Nat /\ i \in Nat /\ j \in Nat
    <3>1. f[i] \in K /\ f[j] \in K /\ R(f[i]) = i /\ R(f[j]) = j
      BY <1>4, Zenon
    <3>2. i \in Nat /\ j \in Nat
      BY <1>1
    <3> QED
      BY <1>2, <3>1, <3>2
  <2>2. f[j] < f[i] => j < i
    <3>1. f[j] < f[i] => R(f[j]) < R(f[i])
      BY <1>1, <2>1, Zenon
    <3> QED
      BY <2>1, <3>1
  <2>3. f[j] # f[i]
    BY <1>7, <2>1
  <2> QED
    BY <1>7, <2>1, <2>2, <2>3
<1>8. ASSUME NEW k \in K PROVE \E i \in 1 .. c : f[i] = k
  <2>1. R(k) \in 1 .. c
    BY <1>1
  <2>2. f[R(k)] \in K /\ R(f[R(k)]) = R(k) /\ R(k) \in Nat
    BY <1>4, <2>1
  <2>3. f[R(k)] \in Nat /\ k \in Nat
    BY <1>2, <2>2
  <2>4. ~(f[R(k)] < k) /\ ~(k < f[R(k)])
    <3>1. f[R(k)] < k => R(f[R(k)]) < R(k)
      BY <1>1, <2>2, Zenon
    <3>2. k < f[R(k)] => R(k) < R(f[R(k)])
      BY <1>1, <2>2, Zenon
    <3>3. ~(R(k) < R(k))
      BY <2>2
    <3> QED
      BY <2>2, <3>1, <3>2, <3>3, Zenon
  <2>5. f[R(k)] = k
    BY <2>3, <2>4
  <2> QED
    BY <2>1, <2>5
<1>9. \A i \in 1 .. c : Left(list, K)[i] = list[f[i]]
  BY <1>3
<1>10. Origin(f, list, K)
  BY <1>5, <1>6, <1>7, <1>8, <1>9 DEF Origin
<1> QED
  BY <1>6, <1>10

-----------------------------------------------------------------------------
(* The list of servers. *)

\* The entries of a list of servers before the steps of an update.
LEMMA EntryIs ==
  ASSUME TypeOK
  PROVE  /\ Len(servers) \in Nat /\ DOMAIN servers = 1 .. Len(servers)
         /\ \A i \in 1 .. Len(servers) :
              /\ servers[i] \in Entry /\ servers[i].host \in Hosts
              /\ servers[i].part \in Nat /\ servers[i].age \in 0 .. Timeout + 1
<1>1. servers \in Seq(Entry)
  BY DEF TypeOK
<1>2. Len(servers) \in Nat /\ DOMAIN servers = 1 .. Len(servers)
      /\ \A i \in 1 .. Len(servers) : servers[i] \in Entry
  BY <1>1, ElementOfSeq
<1> QED
  BY <1>2 DEF Entry

\* A description refreshes the servers that are listed and appends the others.
LEMMA AddServerIs ==
  ASSUME TypeOK, NEW h \in Hosts, NEW parts \in Seq(Nat),
         \A i, j \in 1 .. Len(parts) : parts[i] = parts[j] => i = j,
         AddServer(h, parts)
  PROVE  /\ servers' \in Seq(Entry) /\ Len(servers) =< Len(servers')
         /\ \A i \in 1 .. Len(servers) :
              /\ servers'[i].host = servers[i].host
              /\ servers'[i].part = servers[i].part
              /\ servers'[i].age =
                   IF servers[i].host = h
                      /\ \E j \in 1 .. Len(parts) : servers[i].part = parts[j]
                   THEN 0 ELSE servers[i].age
         /\ \A i \in 1 .. Len(servers') : ~(i =< Len(servers)) =>
              /\ servers'[i].host = h /\ servers'[i].age = 0
              /\ \E k \in 1 .. Len(parts) : servers'[i].part = parts[k]
              /\ \A j \in 1 .. Len(servers') :
                   j # i => servers'[j].host # h \/ servers'[j].part # servers'[i].part
<1> DEFINE Same(s, p) == s.host = h /\ s.part = p
           seen == [i \in DOMAIN servers |->
                     IF \E j \in DOMAIN parts : Same(servers[i], parts[j])
                     THEN [servers[i] EXCEPT !.age = 0] ELSE servers[i]]
           K    == {j \in DOMAIN parts :
                     ~ \E i \in DOMAIN servers : Same(servers[i], parts[j])}
           new  == Left(parts, K)
           added == [i \in 1 .. Len(new) |-> [host |-> h, part |-> new[i], age |-> 0]]
<1>1. servers' = seen \o added
  BY DEF AddServer
<1>2. /\ Len(servers) \in Nat /\ DOMAIN servers = 1 .. Len(servers)
      /\ \A i \in 1 .. Len(servers) : servers[i] \in Entry
      /\ DOMAIN parts = 1 .. Len(parts) /\ Len(parts) \in Nat
  BY EntryIs
<1>3. seen \in Seq(Entry) /\ Len(seen) = Len(servers)
  <2>1. \A s \in Entry : [s EXCEPT !.age = 0] \in Entry
    <3> SUFFICES ASSUME NEW s \in Entry PROVE [s EXCEPT !.age = 0] \in Entry
      OBVIOUS
    <3>1. 0 \in 0 .. Timeout + 1
      BY DiscoverAssumption
    <3> QED
      BY <3>1 DEF Entry
  <2>2. seen \in [1 .. Len(servers) -> Entry]
    BY <1>2, <2>1
  <2> HIDE DEF seen
  <2> QED
    BY <1>2, <2>2
<1>4. \A i \in 1 .. Len(servers) :
        /\ seen[i].host = servers[i].host /\ seen[i].part = servers[i].part
        /\ seen[i].age = IF servers[i].host = h
                            /\ \E j \in 1 .. Len(parts) : servers[i].part = parts[j]
                         THEN 0 ELSE servers[i].age
  BY <1>2 DEF Entry
<1>5. PICK f : /\ f \in [1 .. Len(new) -> K]
               /\ \A i, j \in 1 .. Len(new) : i < j => f[i] < f[j]
               /\ \A i \in 1 .. Len(new) : new[i] = parts[f[i]]
  <2>1. K \in SUBSET (1 .. Len(parts))
    BY <1>2
  <2> HIDE DEF K
  <2>2. \E f : Origin(f, parts, K)
    BY <2>1, LeftIs, Zenon
  <2> QED
    BY <2>2, Zenon DEF Origin
<1>6. new \in Seq(Nat) /\ Len(new) \in Nat
  <2>1. K \in SUBSET (1 .. Len(parts))
    BY <1>2
  <2> HIDE DEF K
  <2>2. new \in Seq(Nat)
    BY <2>1, LeftIs, Zenon
  <2> HIDE DEF new
  <2> QED
    BY <2>2
<1>7. \A k \in K : /\ k \in 1 .. Len(parts)
                  /\ \A i \in 1 .. Len(servers) :
                       servers[i].host # h \/ servers[i].part # parts[k]
  BY <1>2
<1> HIDE DEF new, K
<1>8. added \in Seq(Entry) /\ Len(added) = Len(new)
  <2>1. \A i \in 1 .. Len(new) : new[i] \in Nat
    BY <1>6, ElementOfSeq
  <2>2. added \in [1 .. Len(new) -> Entry]
    BY <2>1, DiscoverAssumption DEF Entry
  <2>3. Len(new) \in Nat
    BY <1>6
  <2> HIDE DEF added
  <2> QED
    BY <2>2, <2>3
<1>9. \A i \in 1 .. Len(new) :
        added[i].host = h /\ added[i].part = new[i] /\ added[i].age = 0
  OBVIOUS
<1> HIDE DEF seen, added
<1>10. /\ servers' \in Seq(Entry) /\ Len(servers') = Len(servers) + Len(new)
       /\ \A i \in 1 .. Len(servers) + Len(new) :
            servers'[i] = IF i =< Len(servers) THEN seen[i]
                          ELSE added[i - Len(servers)]
  <2>1. /\ seen \o added \in Seq(Entry)
        /\ Len(seen \o added) = Len(seen) + Len(added)
        /\ \A i \in 1 .. Len(seen) + Len(added) :
             (seen \o added)[i] = IF i <= Len(seen) THEN seen[i]
                                  ELSE added[i - Len(seen)]
    BY <1>3, <1>8, ConcatProperties
  <2> QED
    BY <1>1, <1>3, <1>8, <2>1
<1>11. \A i \in 1 .. Len(servers) : servers'[i] = seen[i]
  BY <1>2, <1>6, <1>10
<1>12. ASSUME NEW i \in 1 .. Len(servers'), ~(i =< Len(servers))
       PROVE  /\ i - Len(servers) \in 1 .. Len(new)
              /\ f[i - Len(servers)] \in K
              /\ servers'[i].host = h /\ servers'[i].age = 0
              /\ servers'[i].part = parts[f[i - Len(servers)]]
  <2>1. i - Len(servers) \in 1 .. Len(new) /\ i \in 1 .. Len(servers) + Len(new)
    BY <1>2, <1>6, <1>10, <1>12
  <2>2. servers'[i] = added[i - Len(servers)] /\ f[i - Len(servers)] \in K
    BY <1>5, <1>10, <1>12, <2>1
  <2>3. new[i - Len(servers)] = parts[f[i - Len(servers)]]
    BY <1>5, <2>1
  <2> QED
    BY <1>9, <2>1, <2>2, <2>3
<1>13. ASSUME NEW i \in 1 .. Len(servers'), ~(i =< Len(servers)),
              NEW j \in 1 .. Len(servers'), j # i
       PROVE  servers'[j].host # h \/ servers'[j].part # servers'[i].part
  <2> DEFINE a == i - Len(servers)
             b == j - Len(servers)
  <2>1. a \in 1 .. Len(new) /\ f[a] \in K /\ servers'[i].part = parts[f[a]]
        /\ f[a] \in 1 .. Len(parts)
    BY <1>7, <1>12, <1>13
  <2>2. CASE j =< Len(servers)
    <3>1. j \in 1 .. Len(servers)
      BY <1>2, <1>10, <2>2
    <3>2. servers[j].host # h \/ servers[j].part # parts[f[a]]
      BY <1>7, <2>1, <3>1
    <3>3. servers'[j].host = servers[j].host /\ servers'[j].part = servers[j].part
      BY <1>4, <1>11, <3>1
    <3> QED
      BY <2>1, <3>2, <3>3
  <2>3. CASE ~(j =< Len(servers))
    <3>1. b \in 1 .. Len(new) /\ f[b] \in K /\ servers'[j].part = parts[f[b]]
          /\ f[b] \in 1 .. Len(parts)
      BY <1>7, <1>12, <2>3
    <3>2. a < b \/ b < a
      BY <1>2, <1>10, <1>13
    <3> HIDE DEF a, b
    <3>3. f[a] # f[b]
      BY <1>5, <2>1, <3>1, <3>2
    <3> QED
      BY <2>1, <3>1, <3>3
  <2> QED
    BY <2>2, <2>3
<1>14. ASSUME NEW i \in 1 .. Len(servers'), ~(i =< Len(servers))
       PROVE  \E k \in 1 .. Len(parts) : servers'[i].part = parts[k]
  BY <1>7, <1>12, <1>14
<1>15. Len(servers) =< Len(servers')
  BY <1>2, <1>6, <1>10
<1>16. \A i \in 1 .. Len(servers) :
         /\ servers'[i].host = servers[i].host
         /\ servers'[i].part = servers[i].part
         /\ servers'[i].age =
              IF servers[i].host = h
                 /\ \E j \in 1 .. Len(parts) : servers[i].part = parts[j]
              THEN 0 ELSE servers[i].age
  BY <1>4, <1>11
<1> QED
  BY <1>10, <1>12, <1>13, <1>14, <1>15, <1>16

\* Servers that are not expired are left, in their order.
LEMMA CleanupIs ==
  ASSUME TypeOK, Cleanup
  PROVE  /\ servers' \in Seq(Entry)
         /\ \E f \in [1 .. Len(servers') -> 1 .. Len(servers)] :
              /\ \A i, j \in 1 .. Len(servers') : i < j => f[i] < f[j]
              /\ \A i \in 1 .. Len(servers') : servers'[i] = servers[f[i]]
              /\ \A k \in 1 .. Len(servers) :
                   ~Expired(servers[k]) => \E i \in 1 .. Len(servers') : f[i] = k
<1> DEFINE expired == {i \in DOMAIN servers : Expired(servers[i])}
<1>1. PICK last \in expired \cup {0} :
        servers' = Left(servers, {i \in DOMAIN servers : i \in expired => i > last})
  BY Zenon DEF Cleanup
<1> DEFINE K == {i \in DOMAIN servers : i \in expired => i > last}
<1>2. /\ servers \in Seq(Entry) /\ servers' = Left(servers, K)
      /\ K \in SUBSET (1 .. Len(servers))
      /\ \A k \in 1 .. Len(servers) : ~Expired(servers[k]) => k \in K
  BY <1>1, EntryIs DEF TypeOK
<1> HIDE DEF K
<1>3. servers' \in Seq(Entry) /\ \E f : Origin(f, servers, K)
  BY <1>2, LeftIs, Zenon
<1>4. PICK f : Origin(f, servers, K)
  BY <1>3
<1>5. /\ f \in [1 .. Len(servers') -> K]
      /\ \A i, j \in 1 .. Len(servers') : i < j => f[i] < f[j]
      /\ \A k \in K : \E i \in 1 .. Len(servers') : f[i] = k
      /\ \A i \in 1 .. Len(servers') : servers'[i] = servers[f[i]]
  BY <1>2, <1>4, Zenon DEF Origin
<1>6. f \in [1 .. Len(servers') -> 1 .. Len(servers)]
  BY <1>2, <1>5
<1> QED
  BY <1>2, <1>3, <1>5, <1>6

\* The servers of a description.
LEMMA PartsAre ==
  ASSUME NEW h \in Hosts
  PROVE  LET parts == [p \in 1 .. Parts[h] |-> p]
         IN  /\ parts \in Seq(Nat) /\ Len(parts) = Parts[h] /\ Parts[h] \in Nat
             /\ \A i \in 1 .. Parts[h] : parts[i] = i
<1> DEFINE parts == [p \in 1 .. Parts[h] |-> p]
<1>1. Parts[h] \in Nat
  BY DiscoverAssumption
<1>2. parts \in [1 .. Parts[h] -> Nat] /\ \A i \in 1 .. Parts[h] : parts[i] = i
  BY <1>1
<1> HIDE DEF parts
<1>3. parts \in Seq(Nat) /\ Len(parts) = Parts[h]
  BY <1>1, <1>2
<1> QED
  BY <1>1, <1>2, <1>3 DEF parts

\* A description, or the default one, adds no server twice.
LEMMA AddServerOK ==
  ASSUME Inv, NEW h \in Hosts, NEW parts \in Seq(Nat),
         \A i, j \in 1 .. Len(parts) : parts[i] = parts[j] => i = j,
         \A i \in 1 .. Len(parts) : parts[i] =< Parts[h],
         AddServer(h, parts)
  PROVE  EntriesOK'
<1>1. TypeOK /\ EntriesOK
  BY DEF Inv
<1>2. /\ Len(servers) =< Len(servers')
      /\ \A i \in 1 .. Len(servers) :
           servers'[i].host = servers[i].host /\ servers'[i].part = servers[i].part
      /\ \A i \in 1 .. Len(servers') : ~(i =< Len(servers)) =>
           /\ servers'[i].host = h
           /\ \E k \in 1 .. Len(parts) : servers'[i].part = parts[k]
           /\ \A j \in 1 .. Len(servers') :
                j # i => servers'[j].host # h \/ servers'[j].part # servers'[i].part
  BY <1>1, AddServerIs
<1>3. Len(servers) \in Nat
      /\ \A i \in 1 .. Len(servers') : i =< Len(servers) => i \in 1 .. Len(servers)
  BY <1>1, EntryIs
<1>4. ASSUME NEW i \in 1 .. Len(servers')
      PROVE  servers'[i].part =< Parts[servers'[i].host]
  <2>1. CASE i =< Len(servers)
    BY <1>1, <1>2, <1>3, <2>1 DEF EntriesOK
  <2>2. CASE ~(i =< Len(servers))
    BY <1>2, <2>2
  <2> QED
    BY <2>1, <2>2
<1>5. ASSUME NEW i \in 1 .. Len(servers'), NEW j \in 1 .. Len(servers'),
             servers'[i].host = servers'[j].host, servers'[i].part = servers'[j].part
      PROVE  i = j
  <2>1. CASE i =< Len(servers) /\ j =< Len(servers)
    BY <1>1, <1>2, <1>3, <1>5, <2>1 DEF EntriesOK
  <2>2. CASE ~(i =< Len(servers))
    BY <1>2, <1>5, <2>2
  <2>3. CASE ~(j =< Len(servers))
    BY <1>2, <1>5, <2>3
  <2> QED
    BY <2>1, <2>2, <2>3
<1> QED
  BY <1>4, <1>5 DEF EntriesOK

-----------------------------------------------------------------------------
(* Every step keeps the types, and each server once in the list. *)

\* At first no server is listed.
LEMMA InitInv == Init => Inv
<1> SUFFICES ASSUME Init PROVE Inv
  OBVIOUS
<1>1. /\ Interval \in Nat \ {0} /\ MaxChanges \in Nat /\ MaxLost \in Nat
      /\ MaxScans \in Nat
  BY DiscoverAssumption
<1>2. TypeOK
  <2>1. mode \in [Hosts -> {"up", "down", "error"}] /\ missed \in [Hosts -> 0 .. 3]
    BY DEF Init
  <2>2. /\ answers = {} /\ pc = "probe" /\ stale = FALSE /\ tmp = <<>>
        /\ probeUrls = <<>> /\ servers = <<>>
        /\ sinceProbe = 0 /\ changes = 0 /\ lost = 0 /\ scans = 0
    BY DEF Init
  <2>3. /\ probeUrls \in Seq(Hosts) /\ tmp \in Seq(Hosts) /\ servers \in Seq(Entry)
        /\ (pc = "fetch") = (tmp # <<>>)
    BY <2>2
  <2>4. /\ answers \subseteq Hosts /\ stale \in BOOLEAN /\ sinceProbe \in 0 .. Interval
        /\ changes \in 0 .. MaxChanges /\ lost \in 0 .. MaxLost /\ scans \in 0 .. MaxScans
        /\ pc \in {"probe", "cleanup", "take", "fetch", "sleep"}
    <3>1. 0 \in 0 .. Interval /\ 0 \in 0 .. MaxChanges /\ 0 \in 0 .. MaxLost
          /\ 0 \in 0 .. MaxScans
      BY <1>1
    <3> QED
      BY <2>2, <3>1
  <2> QED
    BY <2>1, <2>3, <2>4, Zenon DEF TypeOK
<1>3. 1 .. Len(servers) = {}
  BY EmptySeq DEF Init
<1>4. EntriesOK
  BY <1>3 DEF EntriesOK
<1> QED
  BY <1>2, <1>4 DEF Inv

\* Steps that leave the list alone leave its entries alone.
LEMMA SameServers ==
  ASSUME EntriesOK, UNCHANGED servers
  PROVE  EntriesOK'
BY DEF EntriesOK

\* Time only makes the servers older.
LEMMA TickInv ==
  ASSUME Inv, Tick
  PROVE  /\ Inv' /\ Len(servers') = Len(servers)
         /\ \A i \in 1 .. Len(servers) :
              /\ servers'[i].host = servers[i].host
              /\ servers'[i].part = servers[i].part
              /\ servers'[i].age =< servers[i].age + 1
<1>1. /\ sinceProbe < Interval /\ sinceProbe' = sinceProbe + 1
      /\ servers' = [i \in DOMAIN servers |->
           [servers[i] EXCEPT !.age = AtMost(@ + 1, Timeout + 1)]]
      /\ UNCHANGED <<network, thread, probeUrls, stale, missed, scans>>
  BY DEF Tick
<1>2. TypeOK /\ EntriesOK
  BY DEF Inv
<1>3. /\ Len(servers) \in Nat /\ DOMAIN servers = 1 .. Len(servers)
      /\ \A i \in 1 .. Len(servers) :
           servers[i] \in Entry /\ servers[i].age \in 0 .. Timeout + 1
  BY <1>2, EntryIs
<1>4. ASSUME NEW e \in Entry
      PROVE  /\ [e EXCEPT !.age = AtMost(@ + 1, Timeout + 1)] \in Entry
             /\ [e EXCEPT !.age = AtMost(@ + 1, Timeout + 1)].host = e.host
             /\ [e EXCEPT !.age = AtMost(@ + 1, Timeout + 1)].part = e.part
             /\ [e EXCEPT !.age = AtMost(@ + 1, Timeout + 1)].age =< e.age + 1
  <2>1. e.age \in 0 .. Timeout + 1 /\ Timeout \in Nat
    BY DiscoverAssumption DEF Entry
  <2> DEFINE a == AtMost(e.age + 1, Timeout + 1)
  <2>2. a \in 0 .. Timeout + 1 /\ a =< e.age + 1
    BY <2>1 DEF AtMost
  <2> HIDE DEF a
  <2>3. /\ [e EXCEPT !.age = a] \in Entry
        /\ [e EXCEPT !.age = a].host = e.host /\ [e EXCEPT !.age = a].part = e.part
        /\ [e EXCEPT !.age = a].age = a
    BY <2>2 DEF Entry
  <2> QED
    BY <2>2, <2>3 DEF a
<1>5. servers' \in Seq(Entry) /\ Len(servers') = Len(servers)
  <2>1. servers' \in [1 .. Len(servers) -> Entry]
    BY <1>1, <1>3, <1>4
  <2> QED
    BY <1>3, <2>1
<1>6. \A i \in 1 .. Len(servers) :
        /\ servers'[i].host = servers[i].host
        /\ servers'[i].part = servers[i].part
        /\ servers'[i].age =< servers[i].age + 1
  BY <1>1, <1>3, <1>4
<1>7. TypeOK'
  <2>1. sinceProbe' \in 0 .. Interval
    BY <1>1, <1>2, DiscoverAssumption DEF TypeOK
  <2> QED
    BY <1>1, <1>2, <1>5, <2>1 DEF TypeOK, network, thread
<1>8. EntriesOK'
  BY <1>2, <1>5, <1>6 DEF EntriesOK
<1> QED
  BY <1>5, <1>6, <1>7, <1>8 DEF Inv

\* What hosts, callers and the poller's thread do leaves the list alone.
LEMMA OutsideInv ==
  ASSUME Inv,
         \/ TriggerScan
         \/ \E h \in Hosts : SetUrl(h)
         \/ \E h \in Hosts, m \in {"up", "down", "error"} : Change(h, m)
  PROVE  Inv' /\ UNCHANGED servers
<1>1. /\ TypeOK /\ EntriesOK /\ Interval \in Nat /\ MaxChanges \in Nat
      /\ MaxScans \in Nat
  BY DiscoverAssumption DEF Inv
<1>2. CASE TriggerScan
  <2>1. TypeOK' /\ UNCHANGED servers
    BY <1>1, <1>2 DEF TriggerScan, TypeOK, network, thread
  <2> QED
    BY <1>1, <2>1, SameServers DEF Inv
<1>3. ASSUME NEW h \in Hosts, SetUrl(h)
      PROVE  Inv' /\ UNCHANGED servers
  <2>1. probeUrls' \in Seq(Hosts) /\ answers' \subseteq Hosts
    BY <1>1, <1>3 DEF SetUrl, TypeOK
  <2>2. TypeOK' /\ UNCHANGED servers
    BY <1>1, <1>3, <2>1 DEF SetUrl, TypeOK, thread
  <2> QED
    BY <1>1, <2>2, SameServers DEF Inv
<1>4. ASSUME NEW h \in Hosts, NEW m \in {"up", "down", "error"}, Change(h, m)
      PROVE  Inv' /\ UNCHANGED servers
  <2>1. mode' \in [Hosts -> {"up", "down", "error"}] /\ changes' \in 0 .. MaxChanges
    BY <1>1, <1>4 DEF Change, TypeOK
  <2>2. TypeOK' /\ UNCHANGED servers
    BY <1>1, <1>4, <2>1 DEF Change, TypeOK, thread
  <2> QED
    BY <1>1, <2>2, SameServers DEF Inv
<1> QED
  BY <1>2, <1>3, <1>4

\* A host that misses a round gave no description in it, and is counted as long
\* as it matters.
LEMMA ProbeInv ==
  ASSUME Inv, Probe
  PROVE  /\ Inv' /\ UNCHANGED <<servers, sinceProbe>>
         /\ pc = "probe" /\ pc' = "cleanup"
         /\ \A h \in Hosts : missed'[h] = IF missed[h] < 3 THEN missed[h] + 1 ELSE 3
<1>1. TypeOK /\ EntriesOK /\ MaxLost \in Nat /\ IsFiniteSet(Hosts)
  BY DiscoverAssumption DEF Inv
<1>2. /\ pc = "probe" /\ pc' = "cleanup"
      /\ missed' = [h \in Hosts |-> AtMost(missed[h] + 1, 3)]
      /\ UNCHANGED <<mode, changes, tmp, sinceProbe, probeUrls, stale, servers, scans>>
  BY DEF Probe
<1>3. answers' \subseteq Hosts /\ lost' \in 0 .. MaxLost
  <2> DEFINE reached == {h \in Hosts : mode[h] # "down"}
  <2>1. PICK S \in SUBSET reached :
          /\ lost' = lost + Cardinality(reached \ S) /\ lost' =< MaxLost
          /\ answers' = answers \cup S
    BY Zenon DEF Probe
  <2>2. reached \ S \in SUBSET Hosts /\ S \subseteq Hosts
    OBVIOUS
  <2> HIDE DEF reached
  <2>3. Cardinality(reached \ S) \in Nat
    <3>1. IsFiniteSet(reached \ S)
      BY <1>1, <2>2, FS_Subset
    <3> QED
      BY <3>1, FS_CardinalityType
  <2> QED
    BY <1>1, <2>1, <2>2, <2>3 DEF TypeOK
<1>4. \A h \in Hosts :
        /\ missed[h] \in 0 .. 3
        /\ missed'[h] = IF missed[h] < 3 THEN missed[h] + 1 ELSE 3
  BY <1>1, <1>2 DEF TypeOK, AtMost
<1>5. missed' \in [Hosts -> 0 .. 3]
  <2>1. \A h \in Hosts : AtMost(missed[h] + 1, 3) \in 0 .. 3
    BY <1>2, <1>4
  <2> QED
    BY <1>2, <2>1
<1>6. TypeOK'
  BY <1>1, <1>2, <1>3, <1>5 DEF TypeOK
<1> QED
  BY <1>1, <1>2, <1>4, <1>6, SameServers DEF Inv

\* Removing servers makes none appear twice.
LEMMA CleanupInv ==
  ASSUME Inv, Cleanup
  PROVE  Inv' /\ pc = "cleanup" /\ pc' = "take" /\ UNCHANGED <<missed, sinceProbe>>
<1>1. TypeOK /\ EntriesOK
  BY DEF Inv
<1>2. /\ pc = "cleanup" /\ pc' = "take"
      /\ UNCHANGED <<network, tmp, sinceProbe, probeUrls, stale, missed, scans>>
  BY DEF Cleanup
<1>3. PICK f \in [1 .. Len(servers') -> 1 .. Len(servers)] :
        /\ \A i, j \in 1 .. Len(servers') : i < j => f[i] < f[j]
        /\ \A i \in 1 .. Len(servers') : servers'[i] = servers[f[i]]
  BY <1>1, CleanupIs, Zenon
<1>4. servers' \in Seq(Entry)
  BY <1>1, CleanupIs
<1>5. TypeOK'
  BY <1>1, <1>2, <1>4 DEF TypeOK, network
<1>6. \A i \in 1 .. Len(servers') : servers'[i].part =< Parts[servers'[i].host]
  BY <1>1, <1>3 DEF EntriesOK
<1>7. ASSUME NEW i \in 1 .. Len(servers'), NEW j \in 1 .. Len(servers'),
             servers'[i].host = servers'[j].host, servers'[i].part = servers'[j].part
      PROVE  i = j
  <2>1. f[i] \in 1 .. Len(servers) /\ f[j] \in 1 .. Len(servers)
        /\ Len(servers) \in Nat /\ Len(servers') \in Nat
    BY <1>1, <1>4, EntryIs
  <2>2. f[i] = f[j]
    BY <1>1, <1>3, <1>7, <2>1 DEF EntriesOK
  <2>3. ~(f[i] < f[j]) /\ ~(f[j] < f[i])
    BY <2>1, <2>2
  <2>4. ~(i < j) /\ ~(j < i)
    BY <1>3, <2>3
  <2> QED
    BY <2>1, <2>4
<1> QED
  BY <1>2, <1>5, <1>6, <1>7 DEF Inv, EntriesOK

\* The thread goes on, or sleeps.
LEMMA ThreadInv ==
  ASSUME Inv, Check \/ Take \/ FetchError \/ FetchTimeout
  PROVE  Inv' /\ UNCHANGED servers
<1>1. TypeOK /\ EntriesOK /\ Interval \in Nat
  BY DiscoverAssumption DEF Inv
<1>2. CASE Check
  <2>1. /\ pc = "sleep" /\ pc' \in {"probe", "take"} /\ sinceProbe' \in {0, sinceProbe}
        /\ UNCHANGED <<network, tmp, probeUrls, stale, servers, missed, scans>>
    BY <1>2 DEF Check
  <2>2. TypeOK'
    BY <1>1, <2>1 DEF TypeOK, network
  <2> QED
    BY <1>1, <2>1, <2>2, SameServers DEF Inv
<1>3. CASE Take
  <2>1. /\ tmp' = probeUrls /\ probeUrls' = <<>> /\ pc' = FetchOrSleep(tmp')
        /\ UNCHANGED <<network, sinceProbe, stale, servers, missed, scans>>
    BY <1>3 DEF Take
  <2>2. /\ pc' \in {"fetch", "sleep"} /\ (pc' = "fetch") = (tmp' # <<>>)
        /\ probeUrls' \in Seq(Hosts) /\ tmp' \in Seq(Hosts)
    BY <1>1, <2>1, EmptySeq DEF FetchOrSleep, TypeOK
  <2>3. TypeOK'
    BY <1>1, <2>1, <2>2 DEF TypeOK, network
  <2> QED
    BY <1>1, <2>1, <2>3, SameServers DEF Inv
<1>4. CASE FetchError \/ FetchTimeout
  <2>1. /\ pc = "fetch" /\ tmp' = Tail(tmp) /\ pc' = FetchOrSleep(tmp')
        /\ stale' \in {stale, TRUE}
        /\ UNCHANGED <<network, sinceProbe, probeUrls, servers, missed, scans>>
    BY <1>4 DEF FetchError, FetchTimeout, Fetched
  <2>2. /\ pc' \in {"fetch", "sleep"} /\ (pc' = "fetch") = (tmp' # <<>>)
        /\ tmp' \in Seq(Hosts)
    BY <1>1, <2>1 DEF FetchOrSleep, TypeOK
  <2>3. TypeOK'
    BY <1>1, <2>1, <2>2 DEF TypeOK, network
  <2> QED
    BY <1>1, <2>1, <2>3, SameServers DEF Inv
<1> QED
  BY <1>2, <1>3, <1>4

\* What a description does to the list.
LEMMA FetchDescriptionIs ==
  ASSUME Inv, FetchDescription
  PROVE  /\ Inv' /\ pc = "fetch" /\ pc' \in {"fetch", "sleep"} /\ UNCHANGED sinceProbe
         /\ \E h \in Hosts, parts \in Seq(Nat) :
              /\ \A i, j \in 1 .. Len(parts) : parts[i] = parts[j] => i = j
              /\ AddServer(h, parts)
              /\ \/ /\ missed' = [missed EXCEPT ![h] = 0]
                    /\ \A n \in 1 .. Parts[h] : \E j \in 1 .. Len(parts) : n = parts[j]
                 \/ UNCHANGED missed /\ parts = <<0>>
<1>1. TypeOK /\ EntriesOK /\ MaxLost \in Nat
  BY DiscoverAssumption DEF Inv
<1> DEFINE h == Head(tmp)
           all == [p \in 1 .. Parts[h] |-> p]
<1>2. /\ pc = "fetch" /\ tmp' = Tail(tmp) /\ pc' = FetchOrSleep(tmp')
      /\ \/ /\ AddServer(h, all) /\ missed' = [missed EXCEPT ![h] = 0]
            /\ UNCHANGED lost
         \/ /\ stale \/ lost < MaxLost
            /\ lost' = IF stale THEN lost ELSE lost + 1
            /\ AddServer(h, <<0>>)
            /\ UNCHANGED missed
      /\ stale' = FALSE
      /\ UNCHANGED <<mode, answers, changes, sinceProbe, probeUrls, scans>>
  BY DEF FetchDescription, Fetched, ResetBuffers
<1>3. /\ pc' \in {"fetch", "sleep"} /\ (pc' = "fetch") = (tmp' # <<>>)
      /\ tmp' \in Seq(Hosts) /\ h \in Hosts
  BY <1>1, <1>2 DEF FetchOrSleep, TypeOK
<1> HIDE DEF h
<1>4. /\ all \in Seq(Nat) /\ Len(all) = Parts[h] /\ Parts[h] \in Nat
      /\ \A i \in 1 .. Parts[h] : all[i] = i
  BY <1>3, PartsAre, Zenon
<1> HIDE DEF all
<1>5. PICK parts \in Seq(Nat) :
        /\ \A i, j \in 1 .. Len(parts) : parts[i] = parts[j] => i = j
        /\ \A i \in 1 .. Len(parts) : parts[i] =< Parts[h]
        /\ AddServer(h, parts)
        /\ \/ /\ missed' = [missed EXCEPT ![h] = 0] /\ UNCHANGED lost
              /\ \A n \in 1 .. Parts[h] : \E j \in 1 .. Len(parts) : n = parts[j]
           \/ /\ stale \/ lost < MaxLost
              /\ lost' = IF stale THEN lost ELSE lost + 1
              /\ UNCHANGED missed /\ parts = <<0>>
  <2>1. CASE /\ AddServer(h, all) /\ missed' = [missed EXCEPT ![h] = 0]
             /\ UNCHANGED lost
    <3>1. /\ \A i, j \in 1 .. Len(all) : all[i] = all[j] => i = j
          /\ \A i \in 1 .. Len(all) : all[i] =< Parts[h]
          /\ \A n \in 1 .. Parts[h] : \E j \in 1 .. Len(all) : n = all[j]
      BY <1>4
    <3> QED
      BY <1>4, <2>1, <3>1, Zenon
  <2>2. CASE /\ stale \/ lost < MaxLost
             /\ lost' = IF stale THEN lost ELSE lost + 1
             /\ AddServer(h, <<0>>) /\ UNCHANGED missed
    <3>1. /\ <<0>> \in Seq(Nat)
          /\ \A i, j \in 1 .. Len(<<0>>) : <<0>>[i] = <<0>>[j] => i = j
          /\ \A i \in 1 .. Len(<<0>>) : <<0>>[i] =< Parts[h]
      BY <1>4
    <3> QED
      BY <2>2, <3>1, Zenon
  <2> QED
    BY <1>2, <2>1, <2>2
<1>6. EntriesOK'
  BY <1>3, <1>5, AddServerOK
<1>7. TypeOK'
  <2>1. servers' \in Seq(Entry)
    BY <1>1, <1>3, <1>5, AddServerIs
  <2>2. missed' \in [Hosts -> 0 .. 3] /\ lost' \in 0 .. MaxLost
    BY <1>1, <1>3, <1>5 DEF TypeOK
  <2> QED
    BY <1>1, <1>2, <1>3, <2>1, <2>2 DEF TypeOK
<1> QED
  BY <1>2, <1>3, <1>5, <1>6, <1>7 DEF Inv

\* So does every step.
LEMMA NextInv == Inv /\ [Next]_vars => Inv'
<1> SUFFICES ASSUME Inv, [Next]_vars PROVE Inv'
  OBVIOUS
<1>1. CASE UNCHANGED vars
  <2>1. UNCHANGED <<network, thread, sinceProbe, probeUrls, stale, servers, missed, scans>>
    BY <1>1 DEF vars
  <2>2. TypeOK'
    BY <2>1 DEF Inv, TypeOK, network, thread
  <2> QED
    BY <2>1, <2>2, SameServers DEF Inv
<1>2. CASE Action
  BY <1>2, ThreadInv, ProbeInv, CleanupInv, FetchDescriptionIs DEF Action
<1>3. CASE Tick
  BY <1>3, TickInv
<1>4. CASE \/ TriggerScan
           \/ \E h \in Hosts : SetUrl(h)
           \/ \E h \in Hosts, m \in {"up", "down", "error"} : Change(h, m)
  BY <1>4, OutsideInv
<1> QED
  BY <1>1, <1>2, <1>3, <1>4 DEF Next

\* The invariant these proofs rest on.
THEOREM Invariance == Spec => []Inv
BY InitInv, NextInv, PTL DEF Spec

\* Every variable has its type, and the thread fetches exactly while it has
\* URLs left, src/discover.c:145-177.
THEOREM TypeCorrect == Spec => []TypeOK
<1>1. Inv => TypeOK
  BY DEF Inv
<1> QED
  BY <1>1, Invariance, PTL

\* However often a host answers, and with whatever, each of its servers is
\* listed once: src/discover.c:277-308 and src/server.c.
THEOREM NoneTwice == Spec => []ListedOnce
<1>1. Inv => ListedOnce
  <2> SUFFICES ASSUME Inv PROVE Cardinality(Listed) = Len(servers)
    BY DEF ListedOnce
  <2> DEFINE n == Len(servers)
             f == [i \in 1 .. n |-> <<servers[i].host, servers[i].part>>]
  <2>1. n \in Nat /\ DOMAIN servers = 1 .. n
    BY EntryIs DEF Inv
  <2>2. f \in [1 .. n -> Listed]
    BY <2>1 DEF Listed
  <2>3. ASSUME NEW i \in 1 .. n, NEW j \in 1 .. n, f[i] = f[j]
        PROVE  i = j
    BY <2>3 DEF Inv, EntriesOK
  <2>4. \A e \in Listed : \E i \in 1 .. n : f[i] = e
    BY <2>1 DEF Listed
  <2> HIDE DEF f, n
  <2>5. f \in Injection(1 .. n, Listed) /\ f \in Surjection(1 .. n, Listed)
    BY <2>2, <2>3, <2>4, Zenon DEF Injection, IsInjective, Surjection
  <2>6. ExistsBijection(1 .. n, Listed)
    BY <2>5 DEF ExistsBijection, Bijection
  <2>7. IsFiniteSet(1 .. n) /\ Cardinality(1 .. n) = n
    BY <2>1, FS_Interval
  <2>8. Cardinality(Listed) = n
    BY <2>6, <2>7, FS_Bijection
  <2> QED
    BY <2>8 DEF n
<1> QED
  BY <1>1, Invariance, PTL

-----------------------------------------------------------------------------
(* How long servers have not been seen. *)

\* The time of a number of rounds.
LEMMA Rounds ==
  ASSUME NEW m \in 0 .. 3
  PROVE  /\ m * Interval \in Nat /\ 0 * Interval = 0
         /\ (m + 1) * Interval = m * Interval + Interval
         /\ m < 3 => m * Interval =< 2 * Interval
<1>1. m \in {0, 1, 2, 3} /\ Interval \in Nat
  BY DiscoverAssumption
<1> QED
  BY <1>1

\* The time grows with the rounds, and within each.
LEMMA SinceIs ==
  ASSUME NEW m \in 0 .. 3, NEW at, NEW t \in Nat
  PROVE  /\ Since(m, at, t) \in Nat /\ Since(m, "cleanup", t) =< Since(m, at, t)
         /\ Since(m, "sleep", Interval) = Since(m, "probe", t)
         /\ m < 3 => /\ Since(m + 1, "cleanup", t) = Since(m, "probe", t)
                     /\ Since(m, "cleanup", t) =< 2 * Interval
         /\ at \notin {"probe", "cleanup"} => Since(m, at, t) = m * Interval + t
<1> DEFINE past == m * Interval
<1>1. /\ past \in Nat /\ Interval \in Nat
      /\ (m + 1) * Interval = past + Interval /\ m < 3 => past =< 2 * Interval
  BY Rounds, DiscoverAssumption
<1>2. /\ Since(m, "cleanup", t) = past /\ Since(m, "probe", t) = past + Interval
      /\ Since(m, "sleep", Interval) = past + Interval
      /\ Since(m + 1, "cleanup", t) = (m + 1) * Interval
      /\ at \notin {"probe", "cleanup"} => Since(m, at, t) = past + t
  BY DEF Since
<1>3. Since(m, at, t) \in {past + Interval, past, past + t}
  BY DEF Since
<1> HIDE DEF past
<1>4. Since(m, at, t) \in Nat /\ past =< Since(m, at, t)
  BY <1>1, <1>3
<1> QED
  BY <1>1, <1>2, <1>4 DEF past

\* Steps within a round leave more time.
LEMMA AgesStay ==
  ASSUME Inv, AgesOK, UNCHANGED <<servers, missed>>, sinceProbe' \in Nat,
         \A m \in 0 .. 3 : Since(m, pc, sinceProbe) =< Since(m, pc', sinceProbe')
  PROVE  AgesOK'
<1> SUFFICES ASSUME NEW i \in 1 .. Len(servers), servers[i].part > 0,
                    missed[servers[i].host] < 3
             PROVE  servers[i].age =< Since(missed[servers[i].host], pc', sinceProbe')
  BY DEF AgesOK
<1>1. /\ servers[i].age \in 0 .. Timeout + 1 /\ servers[i].host \in Hosts
      /\ missed \in [Hosts -> 0 .. 3] /\ Timeout \in Nat /\ sinceProbe \in Nat
  <2>1. TypeOK /\ Interval \in Nat
    BY DiscoverAssumption DEF Inv
  <2>2. sinceProbe \in 0 .. Interval /\ missed \in [Hosts -> 0 .. 3]
    BY <2>1 DEF TypeOK
  <2> QED
    BY <2>1, <2>2, EntryIs, DiscoverAssumption
<1> DEFINE m == missed[servers[i].host]
<1>2. m \in 0 .. 3 /\ servers[i].age =< Since(m, pc, sinceProbe)
  BY <1>1 DEF AgesOK
<1>3. /\ Since(m, pc, sinceProbe) \in Nat /\ Since(m, pc', sinceProbe') \in Nat
      /\ Since(m, pc, sinceProbe) =< Since(m, pc', sinceProbe')
  BY <1>1, <1>2, SinceIs
<1> QED
  BY <1>1, <1>2, <1>3

\* A description makes those servers of its host new that it lists.
LEMMA FetchAges ==
  ASSUME Inv, AgesOK, FetchDescription
  PROVE  AgesOK'
<1>1. /\ TypeOK /\ TypeOK' /\ pc = "fetch" /\ pc' \in {"fetch", "sleep"}
      /\ UNCHANGED sinceProbe
  BY FetchDescriptionIs DEF Inv
<1>2. PICK h \in Hosts, parts \in Seq(Nat) :
        /\ \A i, j \in 1 .. Len(parts) : parts[i] = parts[j] => i = j
        /\ AddServer(h, parts)
        /\ \/ /\ missed' = [missed EXCEPT ![h] = 0]
              /\ \A n \in 1 .. Parts[h] : \E j \in 1 .. Len(parts) : n = parts[j]
           \/ UNCHANGED missed /\ parts = <<0>>
  BY FetchDescriptionIs, Zenon
<1>3. /\ \A i \in 1 .. Len(servers) :
           /\ servers'[i].host = servers[i].host
           /\ servers'[i].part = servers[i].part
           /\ servers'[i].age =
                IF servers[i].host = h
                   /\ \E j \in 1 .. Len(parts) : servers[i].part = parts[j]
                THEN 0 ELSE servers[i].age
      /\ \A i \in 1 .. Len(servers') : ~(i =< Len(servers)) =>
           servers'[i].host = h /\ servers'[i].age = 0
  BY <1>1, <1>2, AddServerIs
<1>4. /\ sinceProbe \in Nat /\ sinceProbe' \in Nat
      /\ missed \in [Hosts -> 0 .. 3] /\ missed' \in [Hosts -> 0 .. 3]
      /\ Len(servers) \in Nat
  <2>1. /\ sinceProbe \in 0 .. Interval /\ Interval \in Nat
        /\ missed \in [Hosts -> 0 .. 3] /\ missed' \in [Hosts -> 0 .. 3]
    BY <1>1, DiscoverAssumption DEF TypeOK
  <2> QED
    BY <1>1, <2>1, EntryIs
<1>5. ASSUME NEW i \in 1 .. Len(servers'), servers'[i].part > 0,
             missed'[servers'[i].host] < 3
      PROVE  servers'[i].age =< Since(missed'[servers'[i].host], pc', sinceProbe')
  <2> DEFINE g == servers'[i].host
  <2>1. g \in Hosts /\ missed'[g] \in 0 .. 3
    <3>1. servers' \in Seq(Entry)
      BY <1>1 DEF TypeOK
    <3>2. servers'[i] \in Entry
      BY <3>1, ElementOfSeq, Zenon
    <3>3. g \in Hosts
      BY <3>2 DEF Entry
    <3> QED
      BY <1>4, <3>3
  <2> HIDE DEF g
  <2>2. Since(missed'[g], pc', sinceProbe') \in Nat
    BY <1>4, <2>1, SinceIs
  <2>3. CASE servers'[i].age = 0
    <3>1. servers'[i].age =< Since(missed'[g], pc', sinceProbe')
      BY <2>2, <2>3
    <3> QED
      BY <3>1 DEF g
  <2>4. CASE servers'[i].age # 0
    <3>1. i \in 1 .. Len(servers)
      BY <1>3, <1>4, <2>4
    <3>2. /\ servers[i].host = g /\ servers[i].part > 0
          /\ servers'[i].age = servers[i].age
          /\ ~(g = h /\ \E j \in 1 .. Len(parts) : servers[i].part = parts[j])
      BY <1>3, <1>5, <2>4, <3>1 DEF g
    <3>3. missed'[g] = missed[g]
      <4>1. CASE UNCHANGED missed
        BY <4>1
      <4>2. CASE /\ missed' = [missed EXCEPT ![h] = 0]
                 /\ \A n \in 1 .. Parts[h] : \E j \in 1 .. Len(parts) : n = parts[j]
        <5>1. servers[i].part \in Nat /\ servers[i].part =< Parts[g]
          BY <1>1, <3>1, <3>2, EntryIs DEF Inv, EntriesOK
        <5>2. Parts[g] \in Nat
          BY <2>1, DiscoverAssumption
        <5>3. servers[i].part \in 1 .. Parts[g]
          BY <3>2, <5>1, <5>2
        <5>4. g # h
          BY <3>2, <4>2, <5>3
        <5> QED
          BY <1>4, <2>1, <4>2, <5>4
      <4> QED
        BY <1>2, <4>1, <4>2
    <3>4. missed[g] < 3
      BY <1>5, <3>3 DEF g
    <3>5. servers[i].age =< Since(missed[g], pc, sinceProbe)
      BY <3>1, <3>2, <3>4 DEF AgesOK
    <3>6. Since(missed'[g], pc', sinceProbe') = Since(missed[g], pc, sinceProbe)
      BY <1>1, <3>3 DEF Since
    <3> QED
      BY <3>2, <3>5, <3>6 DEF g
  <2> QED
    BY <2>3, <2>4
<1> QED
  BY <1>5 DEF AgesOK

\* Each step keeps the ages within the time.
LEMMA NextAges == Inv /\ AgesOK /\ [Next]_vars => AgesOK'
<1> SUFFICES ASSUME Inv, AgesOK, [Next]_vars PROVE AgesOK'
  OBVIOUS
<1>1. /\ sinceProbe \in 0 .. Interval /\ Interval \in Nat \ {0}
      /\ missed \in [Hosts -> 0 .. 3] /\ Timeout \in Nat
      /\ sinceProbe' \in Nat /\ missed' \in [Hosts -> 0 .. 3]
  <2>1. TypeOK /\ TypeOK'
    BY NextInv DEF Inv
  <2>2. /\ sinceProbe \in 0 .. Interval /\ sinceProbe' \in 0 .. Interval
        /\ missed \in [Hosts -> 0 .. 3] /\ missed' \in [Hosts -> 0 .. 3]
    BY <2>1 DEF TypeOK
  <2> QED
    BY <2>2, DiscoverAssumption
<1>2. /\ Len(servers) \in Nat
      /\ \A i \in 1 .. Len(servers) :
           /\ servers[i].age \in Nat /\ servers[i].host \in Hosts
           /\ servers[i].part \in Nat /\ servers[i].part =< Parts[servers[i].host]
  <2>1. \A n \in 0 .. Timeout + 1 : n \in Nat
    BY <1>1
  <2> QED
    BY <2>1, EntryIs DEF Inv, EntriesOK
<1>3. \A m \in 0 .. 3 : m * Interval \in Nat
  BY Rounds
<1>4. CASE UNCHANGED vars
  <2>1. UNCHANGED <<servers, missed, pc, sinceProbe>>
    BY <1>4 DEF vars, thread
  <2>2. \A m \in 0 .. 3 : Since(m, pc, sinceProbe) =< Since(m, pc', sinceProbe')
    BY <1>1, <2>1, SinceIs
  <2> QED
    BY <1>1, <2>1, <2>2, AgesStay
<1>5. CASE \/ \E h \in Hosts : SetUrl(h)
           \/ \E h \in Hosts, m \in {"up", "down", "error"} : Change(h, m)
  <2>1. UNCHANGED <<servers, missed, pc, sinceProbe>>
    BY <1>5 DEF SetUrl, Change, thread
  <2>2. \A m \in 0 .. 3 : Since(m, pc, sinceProbe) =< Since(m, pc', sinceProbe')
    BY <1>1, <2>1, SinceIs
  <2> QED
    BY <1>1, <2>1, <2>2, AgesStay
<1>6. CASE TriggerScan
  <2>1. UNCHANGED <<servers, missed, pc>> /\ sinceProbe' = Interval
    BY <1>6 DEF TriggerScan, thread
  <2>2. \A m \in 0 .. 3 : Since(m, pc, sinceProbe) =< Since(m, pc', sinceProbe')
    BY <1>1, <1>3, <2>1 DEF Since
  <2> QED
    BY <1>1, <2>1, <2>2, AgesStay
<1>7. CASE Check
  <2>1. /\ UNCHANGED <<servers, missed>> /\ pc = "sleep"
        /\ \/ sinceProbe = Interval /\ pc' = "probe"
           \/ UNCHANGED sinceProbe /\ pc' = "take"
    BY <1>1, <1>7 DEF Check
  <2>2. \A m \in 0 .. 3 : Since(m, pc, sinceProbe) =< Since(m, pc', sinceProbe')
    BY <1>1, <1>3, <2>1 DEF Since
  <2> QED
    BY <1>1, <2>1, <2>2, AgesStay
<1>8. CASE Take \/ FetchError \/ FetchTimeout
  <2>1. /\ UNCHANGED <<servers, missed, sinceProbe>> /\ pc \in {"take", "fetch"}
        /\ pc' \in {"fetch", "sleep"}
    BY <1>8 DEF Take, FetchError, FetchTimeout, Fetched, FetchOrSleep
  <2>2. \A m \in 0 .. 3 : Since(m, pc, sinceProbe) =< Since(m, pc', sinceProbe')
    BY <1>1, <1>3, <2>1 DEF Since
  <2> QED
    BY <1>1, <2>1, <2>2, AgesStay
<1>9. CASE Tick
  <2>1. /\ pc = "sleep" /\ UNCHANGED <<pc, missed>> /\ sinceProbe' = sinceProbe + 1
    BY <1>9 DEF Tick, thread
  <2>2. /\ Len(servers') = Len(servers)
        /\ \A i \in 1 .. Len(servers) :
             /\ servers'[i].host = servers[i].host
             /\ servers'[i].part = servers[i].part
             /\ servers'[i].age =< servers[i].age + 1
    BY <1>9, TickInv
  <2>3. \A i \in 1 .. Len(servers') : servers'[i].age \in Nat
    <3>1. TypeOK'
      BY NextInv DEF Inv
    <3>2. servers' \in Seq(Entry)
      BY <3>1 DEF TypeOK
    <3>3. \A i \in 1 .. Len(servers') : servers'[i] \in Entry
      BY <3>2, ElementOfSeq, Zenon
    <3>4. \A i \in 1 .. Len(servers') : servers'[i].age \in 0 .. Timeout + 1
      BY <3>3 DEF Entry
    <3> QED
      BY <1>1, <3>4
  <2> SUFFICES ASSUME NEW i \in 1 .. Len(servers), servers[i].part > 0,
                      missed[servers[i].host] < 3
               PROVE  servers'[i].age =< Since(missed[servers[i].host], pc', sinceProbe')
    BY <2>1, <2>2 DEF AgesOK
  <2> DEFINE m == missed[servers[i].host]
  <2>4. m \in 0 .. 3 /\ servers[i].age =< Since(m, pc, sinceProbe)
    BY <1>1, <1>2 DEF AgesOK
  <2>5. /\ Since(m, pc, sinceProbe) = m * Interval + sinceProbe
        /\ Since(m, pc', sinceProbe') = m * Interval + sinceProbe + 1
        /\ m * Interval \in Nat
    <3>1. /\ Since(m, pc, sinceProbe) = m * Interval + sinceProbe
          /\ Since(m, pc', sinceProbe') = m * Interval + sinceProbe'
      BY <2>1 DEF Since
    <3> HIDE DEF m
    <3> QED
      BY <1>1, <1>3, <2>1, <2>4, <3>1
  <2>6. servers'[i].age =< servers[i].age + 1 /\ servers'[i].age \in Nat
    BY <2>2, <2>3
  <2> HIDE DEF m
  <2>7. servers'[i].age =< Since(m, pc', sinceProbe')
    BY <1>1, <1>2, <2>4, <2>5, <2>6
  <2> QED
    BY <2>7 DEF m
<1>10. CASE Probe
  <2>1. /\ UNCHANGED <<servers, sinceProbe>> /\ pc = "probe" /\ pc' = "cleanup"
        /\ \A h \in Hosts : missed'[h] = IF missed[h] < 3 THEN missed[h] + 1 ELSE 3
    BY <1>10, ProbeInv
  <2> SUFFICES ASSUME NEW i \in 1 .. Len(servers), servers[i].part > 0,
                      missed'[servers[i].host] < 3
               PROVE  servers[i].age =< Since(missed'[servers[i].host], pc', sinceProbe')
    BY <2>1 DEF AgesOK
  <2> DEFINE m == missed[servers[i].host]
             m2 == missed'[servers[i].host]
  <2>2. m \in 0 .. 3 /\ m < 3 /\ m2 = m + 1
    BY <1>1, <1>2, <2>1
  <2>3. servers[i].age =< Since(m, pc, sinceProbe)
    BY <2>2 DEF AgesOK
  <2> HIDE DEF m, m2
  <2>4. Since(m2, pc', sinceProbe') = Since(m, pc, sinceProbe)
    BY <1>1, <2>1, <2>2, SinceIs
  <2> QED
    BY <2>3, <2>4 DEF m2
<1>11. CASE Cleanup
  <2>1. pc = "cleanup" /\ pc' = "take" /\ UNCHANGED <<missed, sinceProbe>>
    BY <1>11, CleanupInv
  <2>2. PICK f \in [1 .. Len(servers') -> 1 .. Len(servers)] :
          \A i \in 1 .. Len(servers') : servers'[i] = servers[f[i]]
    BY <1>11, CleanupIs, Zenon DEF Inv
  <2> SUFFICES ASSUME NEW i \in 1 .. Len(servers'), servers'[i].part > 0,
                      missed[servers'[i].host] < 3
               PROVE  servers'[i].age =< Since(missed[servers'[i].host], pc', sinceProbe')
    BY <2>1 DEF AgesOK
  <2> DEFINE k == f[i]
             m == missed[servers[k].host]
  <2>3. k \in 1 .. Len(servers) /\ servers'[i] = servers[k]
    BY <2>2
  <2> HIDE DEF k
  <2>4. m \in 0 .. 3 /\ servers[k].age =< Since(m, pc, sinceProbe) /\ servers[k].age \in Nat
    BY <1>1, <1>2, <2>3 DEF AgesOK
  <2>5. Since(m, pc, sinceProbe) =< Since(m, pc', sinceProbe')
    BY <1>1, <1>3, <2>1, <2>4 DEF Since
  <2>6. Since(m, pc, sinceProbe) \in Nat /\ Since(m, pc', sinceProbe') \in Nat
    BY <1>1, <2>1, <2>4, SinceIs
  <2>7. servers[k].age =< Since(m, pc', sinceProbe')
    BY <2>4, <2>5, <2>6
  <2>8. servers'[i].age =< Since(missed[servers'[i].host], pc', sinceProbe')
    BY <2>3, <2>7
  <2> QED
    BY <2>1, <2>8
<1> QED
  BY <1>4, <1>5, <1>6, <1>7, <1>8, <1>9, <1>10, <1>11, FetchAges DEF Next, Action

\* No server is listed that was not seen.
LEMMA InitAges == Init => AgesOK
<1> SUFFICES ASSUME Init PROVE AgesOK
  OBVIOUS
<1>1. 1 .. Len(servers) = {}
  BY EmptySeq DEF Init
<1> QED
  BY <1>1 DEF AgesOK

\* Only Cleanup takes servers off the list.
LEMMA ListedStay ==
  ASSUME Inv, [Next]_vars, ~Cleanup
  PROVE  Listed \subseteq Listed'
<1>1. TypeOK /\ TypeOK'
  BY NextInv DEF Inv
<1>2. Len(servers) =< Len(servers')
      /\ \A i \in 1 .. Len(servers) :
           servers'[i].host = servers[i].host /\ servers'[i].part = servers[i].part
  <2>1. CASE UNCHANGED servers
    BY <1>1, <2>1, EntryIs
  <2>2. CASE Tick
    BY <1>1, <2>2, TickInv, EntryIs
  <2>3. CASE FetchDescription
    <3>1. PICK h \in Hosts, parts \in Seq(Nat) :
            /\ \A i, j \in 1 .. Len(parts) : parts[i] = parts[j] => i = j
            /\ AddServer(h, parts)
      BY <2>3, FetchDescriptionIs, Zenon
    <3> QED
      BY <1>1, <3>1, AddServerIs
  <2>4. UNCHANGED vars => UNCHANGED servers
    BY DEF vars
  <2> QED
    BY <2>1, <2>2, <2>3, <2>4, OutsideInv, ThreadInv, ProbeInv DEF Next, Action
<1>3. /\ Len(servers) \in Nat /\ DOMAIN servers = 1 .. Len(servers)
      /\ Len(servers') \in Nat /\ DOMAIN servers' = 1 .. Len(servers')
  BY <1>1, ElementOfSeq DEF TypeOK
<1>4. \A i \in DOMAIN servers : i \in DOMAIN servers'
  BY <1>2, <1>3
<1> QED
  BY <1>2, <1>3, <1>4 DEF Listed

\* The action of SeenStays.
LEMMA SeenStep ==
  ASSUME Timeout >= 2 * Interval, Inv, AgesOK, [Next]_vars,
         NEW e \in Listed \ Listed', e[2] > 0
  PROVE  missed[e[1]] >= 3
<1>1. Cleanup /\ TypeOK
  BY ListedStay DEF Inv
<1>2. /\ Timeout \in Nat /\ Interval \in Nat /\ sinceProbe \in Nat
      /\ missed \in [Hosts -> 0 .. 3] /\ pc = "cleanup"
  BY <1>1, DiscoverAssumption DEF TypeOK, Cleanup
<1>3. PICK k \in 1 .. Len(servers) : e = <<servers[k].host, servers[k].part>>
  BY <1>1, EntryIs DEF Listed
<1>4. Expired(servers[k])
  <2> SUFFICES ASSUME ~Expired(servers[k]) PROVE FALSE
    OBVIOUS
  <2>1. servers' \in Seq(Entry)
        /\ \E i \in 1 .. Len(servers') : servers'[i] = servers[k]
    BY <1>1, CleanupIs
  <2>2. DOMAIN servers' = 1 .. Len(servers')
    BY <2>1
  <2> QED
    BY <1>3, <2>1, <2>2 DEF Listed
<1>5. /\ servers[k].age \in 0 .. Timeout + 1 /\ servers[k].age > Timeout
      /\ servers[k].host \in Hosts /\ servers[k].part > 0
  BY <1>1, <1>3, <1>4, EntryIs DEF Expired
<1> DEFINE m == missed[servers[k].host]
<1>6. m \in 0 .. 3
  BY <1>2, <1>5
<1>7. ~(m < 3)
  <2> SUFFICES ASSUME m < 3 PROVE FALSE
    OBVIOUS
  <2>1. servers[k].age =< Since(m, "cleanup", sinceProbe)
    BY <1>2, <1>5 DEF AgesOK
  <2> HIDE DEF m
  <2>2. Since(m, "cleanup", sinceProbe) \in Nat
        /\ Since(m, "cleanup", sinceProbe) =< 2 * Interval
    BY <1>2, <1>6, SinceIs
  <2> QED
    BY <1>2, <1>5, <2>1, <2>2
<1>8. missed[e[1]] = m
  BY <1>3
<1> HIDE DEF m
<1> QED
  BY <1>6, <1>7, <1>8

\* A server is removed only when its host has given no description in the last
\* two whole rounds and the one just begun, src/server.c:519-533; for this
\* eCleanupTimeoutMs is two times eProbeIntervalMs at least, src/discover.h:54-55.
THEOREM SeenServersStay ==
  ASSUME Timeout >= 2 * Interval
  PROVE  Spec => SeenStays
<1>1. Init => Inv /\ AgesOK
  BY InitInv, InitAges
<1>2. Inv /\ AgesOK /\ [Next]_vars => (Inv /\ AgesOK)'
  BY NextInv, NextAges
<1>3. Inv /\ AgesOK /\ [Next]_vars
        => [\A e \in Listed \ Listed' : e[2] > 0 => missed[e[1]] >= 3]_vars
  BY SeenStep
<1> QED
  BY <1>1, <1>2, <1>3, PTL DEF Spec, SeenStays
=============================================================================
