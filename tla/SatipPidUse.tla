------------------------------ MODULE SatipPidUse ------------------------------
(***************************************************************************)
(* The PIDs of one device: src/device.c and the table of filters of        *)
(* src/sectionfilter.c.                                                    *)
(*                                                                         *)
(* Receivers and section filters ask for PIDs in threads of their own.     *)
(* VDR counts the receivers of a PID; the filters are the handles VDR has  *)
(* open.  The tuner keeps one set of PIDs for both, without counting, and  *)
(* each call below consists of several calls to the tuner and to the table *)
(* of filters, each under its own mutex, between which the other thread    *)
(* may run.  What becomes of the set of PIDs is the subject of SatipTuner. *)
(***************************************************************************)
EXTENDS Naturals, FiniteSets

CONSTANTS
  Pids,       \* PIDs
  Tables,     \* pairs of a table id and a mask
  Disabled,   \* PIDs with tables: the filters disabled in the setup
  Tapped,     \* PIDs in VDR's slots for video, audio and teletext
  Fds,        \* file descriptors, to be had for filters
  NumSlots,   \* eMaxSecFilterCount
  None,
  MaxUsed     \* bound: receivers of one PID

Slots  == 1 .. NumSlots
Filter == [fd : Fds \cup {None}, pid : Pids]
Call   == [step : {"opened", "found", "removed"}, fd : Fds, pid : Pids]

ASSUME PidsAssumption ==
  /\ NumSlots \in Nat /\ MaxUsed \in Nat
  /\ None \notin Pids \cup Fds \cup Filter \cup Call
  /\ Tapped \subseteq Pids /\ Disabled \subseteq Pids \X Tables

VARIABLES
  pids,     \* pidsM of the tuner
  slots,    \* filtersM
  used,     \* VDR: the receivers of each PID
  leaving,  \* VDR: the PID DelPid is about to take from the tuner
  handles,  \* VDR: file descriptors of its filters with their PIDs
  call,     \* VDR: how far a call of OpenFilter or CloseFilter has come
  \* history
  cut,      \* PIDs taken from the tuner by CloseFilter with other users left,
            \* or for which a filter was opened while DelPid gave them up
  late      \* PIDs of which a receiver began between the steps of CloseFilter

receivers == <<used, leaving>>
filters   == <<slots, handles, call>>
history   == <<cut, late>>
vars      == <<pids, receivers, filters, history>>

Taken == {i \in Slots : slots[i] # None}

TypeOK ==
  /\ pids \subseteq Pids /\ cut \subseteq Pids /\ late \subseteq Pids
  /\ slots \in [Slots -> Filter \cup {None}]
  /\ used \in [Pids -> 0 .. MaxUsed] /\ leaving \in Pids \cup {None}
  /\ handles \subseteq Fds \X Pids
  /\ call = None \/ call \in Call

Init ==
  /\ pids = {} /\ cut = {} /\ late = {}
  /\ slots = [i \in Slots |-> None]
  /\ used = [p \in Pids |-> 0] /\ leaving = None
  /\ handles = {} /\ call = None

-----------------------------------------------------------------------------
(* The tuner and the table of filters. *)

\* A PID that is asked for, or given up, is all right again.
SwitchOn(p)  == pids' = pids \cup {p} /\ cut' = cut \ {p}
SwitchOff(p) == pids' = pids \ {p} /\ late' = late \ {p}

Exists(p) == \E i \in Taken : slots[i].pid = p

\* The filter with a file descriptor, which GetPid and Close look for.
Find(fd) == {i \in Taken : slots[i].fd = fd}

\* Faulty: the first filter is deleted.
DeleteFirst(fd) ==
  LET i == CHOOSE i \in Taken : \A j \in Taken : i <= j
  IN  slots' = [slots EXCEPT ![i] = None]

Delete(fd) == slots' = [i \in Slots |-> IF i \in Find(fd) THEN None ELSE slots[i]]

IsBlackListed(p, t) == <<p, t>> \in Disabled

\* The first slot that is free; without socketpair() the filter stays in it
\* and has no file descriptor.
Open(p, fd) ==
  \E i \in Slots \ Taken :
    /\ \A j \in Slots \ Taken : i <= j
    /\ slots' = [slots EXCEPT ![i] = [fd |-> fd, pid |-> p]]

-----------------------------------------------------------------------------
(* Receivers: AddPid and DelPid of VDR, which call cSatipDevice::SetPid. *)

AddPid(p) ==
  /\ leaving = None /\ used[p] < MaxUsed
  /\ used' = [used EXCEPT ![p] = @ + 1]
  /\ IF used[p] = 0 \/ (used[p] = 1 /\ p \in Tapped)
     THEN SwitchOn(p) ELSE UNCHANGED <<pids, cut>>
  /\ IF call # None /\ call.step = "removed" /\ call.pid = p
     THEN late' = late \cup {p} ELSE UNCHANGED late
  /\ UNCHANGED <<leaving, filters>>

\* Faulty: a PID is given up that no filter needs, but a receiver.
OffUnlessFiltered(p, n) == ~Exists(p)

\* The condition of SetPid for giving up a PID with n receivers left.
Unneeded(p, n) == n = 0 /\ ~Exists(p)

DelPid(p) ==
  /\ leaving = None /\ used[p] > 0
  /\ used' = [used EXCEPT ![p] = @ - 1]
  /\ leaving' = IF used[p] <= 2 /\ Unneeded(p, used[p] - 1) THEN p ELSE None
  /\ UNCHANGED <<pids, filters, history>>

GiveUp ==
  /\ leaving # None /\ leaving' = None
  /\ SwitchOff(leaving)
  /\ UNCHANGED <<used, filters, cut>>

-----------------------------------------------------------------------------
(* Section filters: cSatipDevice::OpenFilter and CloseFilter. *)

\* Faulty: the handle is not looked at before the PID is asked for.
HandleIgnored(p) == call' = [step |-> "opened", fd |-> None, pid |-> p]

NoHandle(p) == UNCHANGED call

OpenFilter(p, t) ==
  /\ call = None /\ ~IsBlackListed(p, t)
  /\ \/ \E fd \in Fds \ {slots[i].fd : i \in Taken} :
          /\ Open(p, fd)
          /\ call' = [step |-> "opened", fd |-> fd, pid |-> p]
     \/ Open(p, None) /\ NoHandle(p)
  /\ cut' = IF leaving = p THEN cut \cup {p} ELSE cut
  /\ UNCHANGED <<pids, receivers, handles, late>>

Opened ==
  /\ call # None /\ call.step = "opened"
  /\ call' = None /\ handles' = handles \cup {<<call.fd, call.pid>>}
  /\ pids' = pids \cup {call.pid}
  /\ cut' = IF leaving = call.pid THEN cut ELSE cut \ {call.pid}
  /\ UNCHANGED <<slots, receivers, late>>

CloseFilter(h) ==
  /\ call = None /\ h \in handles /\ handles' = handles \ {h}
  /\ \E i \in Find(h[1]) :
       call' = [step |-> "found", fd |-> h[1], pid |-> slots[i].pid]
  /\ UNCHANGED <<pids, slots, receivers, history>>

\* Faulty: the filter is deleted, its PID stays.
RemoveNothing(p) == UNCHANGED <<pids, late>>

Remove(p) == SwitchOff(p)

\* Others need the PID, but SetPid of the tuner does not ask.
Others(p, fd) == used[p] > 0 \/ \E i \in Taken : slots[i].pid = p /\ slots[i].fd # fd

Removed ==
  /\ call # None /\ call.step = "found"
  /\ call' = [call EXCEPT !.step = "removed"]
  /\ Remove(call.pid)
  /\ cut' = IF Others(call.pid, call.fd) THEN cut \cup {call.pid} ELSE cut
  /\ UNCHANGED <<slots, receivers, handles>>

Closed ==
  /\ call # None /\ call.step = "removed" /\ call' = None
  /\ Delete(call.fd)
  /\ UNCHANGED <<pids, receivers, handles, history>>

Next ==
  \/ \E p \in Pids : AddPid(p) \/ DelPid(p)
  \/ GiveUp
  \/ \E p \in Pids, t \in Tables : OpenFilter(p, t)
  \/ \E h \in handles : CloseFilter(h)
  \/ Opened \/ Removed \/ Closed

Spec == Init /\ [][Next]_vars

-----------------------------------------------------------------------------
Busy(p) == leaving = p \/ (call # None /\ call.pid = p)

\* Every filter VDR has open is a slot of the table with its file descriptor
\* and PID, and no other slot has a file descriptor: no filter is lost or left
\* over when filters come and go and descriptors are used again.
HandlesAreSlots ==
  call = None =>
    /\ \A h \in handles : \E i \in Taken : slots[i] = [fd |-> h[1], pid |-> h[2]]
    /\ \A i \in Taken : slots[i].fd # None => <<slots[i].fd, slots[i].pid>> \in handles
    /\ \A i, j \in Taken : slots[i].fd = slots[j].fd /\ i # j => slots[i].fd = None

\* A PID that a receiver or an open filter needs is asked of the server,
\* except after the two cases of cut: CloseFilter asks nobody else
\* (device.c:495), and SetPid acts on what it read before (device.c:471).
NeededIsAsked ==
  \A p \in Pids \ cut :
    ~Busy(p) /\ (used[p] > 0 \/ \E h \in handles : h[2] = p) => p \in pids

\* A PID that is asked of the server is needed by a receiver or is that of a
\* filter in the table, except when its receiver came and went between the two
\* halves of CloseFilter.
AskedIsNeeded ==
  \A p \in pids \ late : ~Busy(p) => used[p] > 0 \/ Exists(p)
=============================================================================
