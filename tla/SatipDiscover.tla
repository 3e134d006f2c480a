---------------------------- MODULE SatipDiscover ----------------------------
(***************************************************************************)
(* The discovery of SAT>IP servers (src/discover.c, src/msearch.c, and the *)
(* list of servers of src/server.c): a thread sends two queries at regular *)
(* intervals, the poller's thread passes on the URLs of the answers, the   *)
(* discovery thread fetches a description from each and adds or refreshes  *)
(* servers, and it removes those not seen for a while.                     *)
(*                                                                         *)
(* Time is counted in units long enough for a round of answers and fetches *)
(* (a fraction of eProbeIntervalMs), so it passes only while the thread    *)
(* sleeps.  The thread lets go of mutexM between the steps, not within.    *)
(***************************************************************************)
EXTENDS Naturals, Sequences, FiniteSets

CONSTANTS
  Hosts,       \* hosts that may run a SAT>IP server
  Parts,       \* servers a host is listed as, see UseSingleModelServers
  Interval,    \* eProbeIntervalMs
  Timeout,     \* eCleanupTimeoutMs
  MaxChanges,  \* bound: hosts that start, stop, or answer with an error
  MaxLost,     \* bound: rounds of queries lost, descriptions cut off
  MaxScans     \* bound: TriggerScan calls

ASSUME DiscoverAssumption ==
  /\ IsFiniteSet(Hosts) /\ Parts \in [Hosts -> Nat \ {0}]
  /\ Interval \in Nat \ {0} /\ Timeout \in Nat
  /\ {MaxChanges, MaxLost, MaxScans} \subseteq Nat

VARIABLES
  mode,        \* what a host does: up, down, or error (to any fetch)
  answers,     \* hosts whose answer is on its way to the poller
  pc,          \* where the thread is in Action()
  sinceProbe,  \* time since probeIntervalM was set, up to Interval
  probeUrls,   \* probeUrlListM: hosts for the URLs
  tmp,         \* tmp of Action(): URLs still to be fetched
  stale,       \* headerBufferM and dataBufferM hold a former answer
  servers,     \* serversM: entries with host, part, and time since last seen;
               \* part 0 is an entry without description
  missed,      \* history: rounds of queries in a row without a description
  changes, lost, scans

network == <<mode, answers, changes, lost>>
thread  == <<pc, tmp>>
vars == <<network, thread, sinceProbe, probeUrls, stale, servers, missed, scans>>

\* The first round finds no server to remove.
Init ==
  /\ mode \in [Hosts -> {"up", "down"}]
  /\ answers = {}
  /\ pc = "probe" /\ sinceProbe = 0
  /\ probeUrls = <<>> /\ tmp = <<>> /\ stale = FALSE /\ servers = <<>>
  /\ missed = [h \in Hosts |-> 0]
  /\ changes = 0 /\ lost = 0 /\ scans = 0

-----------------------------------------------------------------------------
(* Time, hosts, and callers. *)

\* The numbers in K from the least to the greatest.
Ascending(K) ==
  [i \in 1 .. Cardinality(K) |->
     CHOOSE k \in K : Cardinality({j \in K : j =< k}) = i]

\* What is left of a list of what is in the places K.
Left(list, K) ==
  LET f == Ascending(K) IN [i \in 1 .. Cardinality(K) |-> list[f[i]]]

AtMost(n, limit) == IF n < limit THEN n ELSE limit

\* The thread sleeps, nothing is on its way, the next round is not due.
Tick ==
  /\ pc = "sleep" /\ sinceProbe < Interval /\ sinceProbe' = sinceProbe + 1
  /\ probeUrls = <<>> /\ answers = {}
  /\ servers' = [i \in DOMAIN servers |->
       [servers[i] EXCEPT !.age = AtMost(@ + 1, Timeout + 1)]]
  /\ UNCHANGED <<network, thread, probeUrls, stale, missed, scans>>

Change(h, m) ==
  /\ changes < MaxChanges /\ changes' = changes + 1
  /\ m # mode[h] /\ mode' = [mode EXCEPT ![h] = m]
  /\ UNCHANGED <<answers, lost, thread, sinceProbe, probeUrls>>
  /\ UNCHANGED <<stale, servers, missed, scans>>

\* probeIntervalM.Set(0): the next look at it finds it timed out.
TriggerScan ==
  /\ scans < MaxScans /\ scans' = scans + 1
  /\ sinceProbe' = Interval
  /\ UNCHANGED <<network, thread, probeUrls, stale, servers, missed>>

\* cSatipMsearch::Process() in the poller's thread.  Both lists of URLs are
\* filled from the front, so the oldest is fetched first.
SetUrl(h) ==
  /\ h \in answers /\ answers' = answers \ {h}
  /\ probeUrls' = Append(probeUrls, h)
  /\ UNCHANGED <<mode, changes, lost, thread, sinceProbe>>
  /\ UNCHANGED <<stale, servers, missed, scans>>

-----------------------------------------------------------------------------
(* The discovery thread. *)

\* cSatipMsearch::Probe() sends two queries, as one may be lost; when both
\* are, or both answers, the host misses the round.
Probe ==
  /\ pc = "probe" /\ pc' = "cleanup"
  /\ LET reached == {h \in Hosts : mode[h] # "down"}
     IN  \E S \in SUBSET reached :
           /\ lost' = lost + Cardinality(reached \ S) /\ lost' =< MaxLost
           /\ answers' = answers \cup S
  /\ missed' = [h \in Hosts |-> AtMost(missed[h] + 1, 3)]
  /\ UNCHANGED <<mode, changes, tmp, sinceProbe, probeUrls, stale, servers, scans>>

\* Faulty: servers are given one interval.
ExpiredEarly(server) == server.age >= Interval

Expired(server) == server.age > Timeout

\* Next(s) reads a server just deleted: the loop may end there, or go on.
Cleanup ==
  /\ pc = "cleanup" /\ pc' = "take"
  /\ LET expired == {i \in DOMAIN servers : Expired(servers[i])}
     IN  \E last \in expired \cup {0} :
           /\ last = 0 => expired = {}
           /\ servers' = Left(servers, {i \in DOMAIN servers : i \in expired => i > last})
  /\ UNCHANGED <<network, tmp, sinceProbe, probeUrls, stale, missed, scans>>

\* sleepM ends after eSleepTimeoutMs, or with SetUrl; then the timer is
\* looked at, and set again when it has run out.
Check ==
  /\ pc = "sleep"
  /\ IF sinceProbe >= Interval THEN sinceProbe' = 0 /\ pc' = "probe"
                               ELSE UNCHANGED sinceProbe /\ pc' = "take"
  /\ UNCHANGED <<network, tmp, probeUrls, stale, servers, missed, scans>>

\* Faulty: the list is not looked at.
FetchAnyway(urls) == "fetch"

FetchOrSleep(urls) == IF urls = <<>> THEN "sleep" ELSE "fetch"

Take ==
  /\ pc = "take"
  /\ tmp' = probeUrls /\ probeUrls' = <<>>
  /\ pc' = FetchOrSleep(tmp')
  /\ UNCHANGED <<network, sinceProbe, stale, servers, missed, scans>>

\* Faulty: a server that is listed is added once more.
AddServerAnyway(h, parts) ==
  servers' = servers \o [i \in 1 .. Len(parts) |->
                          [host |-> h, part |-> parts[i], age |-> 0]]

\* Update() of the servers that are listed, Add() of the others.
AddServer(h, parts) ==
  LET Same(s, p) == s.host = h /\ s.part = p
      seen == [i \in DOMAIN servers |->
                IF \E j \in DOMAIN parts : Same(servers[i], parts[j])
                THEN [servers[i] EXCEPT !.age = 0] ELSE servers[i]]
      new  == Left(parts, {j \in DOMAIN parts :
                            ~ \E i \in DOMAIN servers : Same(servers[i], parts[j])})
  IN  servers' = seen \o [i \in 1 .. Len(new) |->
                           [host |-> h, part |-> new[i], age |-> 0]]

Fetched == pc = "fetch" /\ tmp' = Tail(tmp) /\ pc' = FetchOrSleep(tmp')

\* Faulty: the buffers are not emptied.
KeepBuffers == UNCHANGED stale

ResetBuffers == stale' = FALSE

\* Status 200.  What is left of a former answer, or a description cut off by
\* the time-out, may make it unreadable: the server gets the default one.
FetchDescription ==
  /\ Fetched /\ mode[Head(tmp)] = "up"
  /\ LET h == Head(tmp)
     IN  \/ /\ AddServer(h, [p \in 1 .. Parts[h] |-> p])
            /\ missed' = [missed EXCEPT ![h] = 0]
            /\ UNCHANGED lost
         \/ /\ stale \/ lost < MaxLost
            /\ lost' = IF stale THEN lost ELSE lost + 1
            /\ AddServer(h, <<0>>)
            /\ UNCHANGED missed
  /\ ResetBuffers
  /\ UNCHANGED <<mode, answers, changes, sinceProbe, probeUrls, scans>>

\* Another status: headers and body stay in the buffers.
FetchError ==
  /\ Fetched /\ mode[Head(tmp)] = "error"
  /\ stale' = TRUE
  /\ UNCHANGED <<network, sinceProbe, probeUrls, servers, missed, scans>>

\* No connection within eConnectTimeoutMs.
FetchTimeout ==
  /\ Fetched /\ mode[Head(tmp)] = "down"
  /\ UNCHANGED <<network, sinceProbe, probeUrls, stale, servers, missed, scans>>

Action ==
  \/ Check \/ Probe \/ Cleanup \/ Take
  \/ FetchDescription \/ FetchError \/ FetchTimeout

Next ==
  \/ Action \/ Tick \/ TriggerScan
  \/ \E h \in Hosts : SetUrl(h)
  \/ \E h \in Hosts, m \in {"up", "down", "error"} : Change(h, m)

\* The thread runs and time passes, also between two of its naps.
Fairness ==
  /\ WF_vars(Action) /\ SF_vars(Tick) /\ \A h \in Hosts : WF_vars(SetUrl(h))

Spec == Init /\ [][Next]_vars /\ Fairness
-----------------------------------------------------------------------------
Entry == [host : Hosts, part : Nat, age : 0 .. Timeout + 1]
TypeOK ==
  /\ mode \in [Hosts -> {"up", "down", "error"}]
  /\ answers \subseteq Hosts
  /\ pc \in {"probe", "cleanup", "take", "fetch", "sleep"}
  /\ (pc = "fetch") = (tmp # <<>>)
  /\ sinceProbe \in 0 .. Interval
  /\ probeUrls \in Seq(Hosts) /\ tmp \in Seq(Hosts)
  /\ stale \in BOOLEAN /\ servers \in Seq(Entry) /\ missed \in [Hosts -> 0 .. 3]
  /\ changes \in 0 .. MaxChanges /\ lost \in 0 .. MaxLost /\ scans \in 0 .. MaxScans

Listed == {<<servers[i].host, servers[i].part>> : i \in DOMAIN servers}

\* However often a host answers, and with whatever, each of its servers is
\* listed once.
ListedOnce == Cardinality(Listed) = Len(servers)

\* A server is removed only when its host has given no description in the
\* last two whole rounds and the one just begun: one lost round does no harm,
\* nor do scans that are asked for.
SeenStays ==
  [][\A e \in Listed \ Listed' : e[2] > 0 => missed[e[1]] >= 3]_vars

\* Once hosts stop changing, and none answers with errors for ever, exactly
\* those that are up are listed, with the description they give.
ListedForReal ==
  Listed = UNION {{h} \X (1 .. Parts[h]) : h \in {g \in Hosts : mode[g] = "up"}}
Converges ==
  (<>[](\A h \in Hosts : mode[h] # "error")) => <>[]ListedForReal
=============================================================================
