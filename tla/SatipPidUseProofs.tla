--------------------------- MODULE SatipPidUseProofs ---------------------------
(***************************************************************************)
(* Proofs about SatipPidUse: its invariants hold for any number of PIDs,   *)
(* slots, file descriptors and receivers.                                  *)
(***************************************************************************)
EXTENDS SatipPidUse, TLAPS

\* The filter that is being opened or closed is in the table, too.
CallIs(fd, p) == call # None /\ call.fd = fd /\ call.pid = p
TableOK ==
  /\ \A h \in handles : \E i \in Taken : slots[i] = [fd |-> h[1], pid |-> h[2]]
  /\ call # None =>
       /\ \E i \in Taken : slots[i] = [fd |-> call.fd, pid |-> call.pid]
       /\ <<call.fd, call.pid>> \notin handles
  /\ \A i \in Taken :
       slots[i].fd # None => \/ <<slots[i].fd, slots[i].pid>> \in handles
                             \/ CallIs(slots[i].fd, slots[i].pid)
  /\ \A i, j \in Taken : slots[i].fd = slots[j].fd /\ i # j => slots[i].fd = None

\* A PID about to be given up has no receiver, and a filter only if the filter
\* came after the decision.
LeavingOK ==
  leaving # None => used[leaving] = 0 /\ (leaving \notin cut => ~Exists(leaving))

Needed ==
  \A p \in Pids \ cut :
    leaving # p /\ (used[p] > 0 \/ \E h \in handles : h[2] = p) => p \in pids

\* A PID whose filter is being closed is no longer asked for.
Asked ==
  /\ \A p \in pids \ late : leaving # p => used[p] > 0 \/ Exists(p)
  /\ call # None /\ call.step = "removed" => call.pid \notin pids \ late

Inv == TypeOK /\ TableOK /\ LeavingOK /\ Needed /\ Asked

-----------------------------------------------------------------------------
\* The slot of a handle.
LEMMA SlotOf ==
  ASSUME TableOK, NEW h \in handles
  PROVE  \E i \in Taken : slots[i].fd = h[1] /\ slots[i].pid = h[2]
<1>1. PICK i \in Taken : slots[i] = [fd |-> h[1], pid |-> h[2]]
  BY DEF TableOK
<1>2. slots[i].fd = h[1] /\ slots[i].pid = h[2]
  BY <1>1
<1> QED
  BY <1>2

\* At first nobody asks for anything.
LEMMA InitInv == Init => Inv
BY PidsAssumption
   DEF Init, Inv, TypeOK, TableOK, LeavingOK, Needed, Asked, Taken, Exists,
       Filter, Slots

LEMMA AddPidInv ==
  ASSUME Inv, NEW p \in Pids, AddPid(p)
  PROVE  Inv'
<1>1. TypeOK'
  BY PidsAssumption DEF Inv, TypeOK, AddPid, SwitchOn, filters
<1>2. TableOK'
  BY DEF Inv, TableOK, AddPid, filters, Taken, CallIs
<1>3. LeavingOK'
  BY DEF AddPid, LeavingOK
<1>4. Needed'
  BY DEF Inv, TypeOK, Needed, AddPid, SwitchOn, filters
<1>5. Asked'
  BY DEF Inv, TypeOK, Asked, AddPid, SwitchOn, filters, Exists, Taken
<1> QED
  BY <1>1, <1>2, <1>3, <1>4, <1>5 DEF Inv

LEMMA DelPidInv ==
  ASSUME Inv, NEW p \in Pids, DelPid(p)
  PROVE  Inv'
<1>1. TypeOK'
  BY PidsAssumption DEF Inv, TypeOK, DelPid, filters, history
<1>2. TableOK'
  BY DEF Inv, TableOK, DelPid, filters, Taken, CallIs
<1>3. LeavingOK'
  BY DEF Inv, TypeOK, DelPid, LeavingOK, Unneeded, filters, Exists, Taken
<1>4. Needed'
  <2>1. \A q \in Pids : leaving # q /\ (used'[q] > 0 => used[q] > 0)
    BY PidsAssumption DEF Inv, TypeOK, DelPid
  <2> QED
    BY <2>1 DEF Inv, Needed, DelPid, filters, history
<1>5. Asked'
  BY PidsAssumption
     DEF Inv, TypeOK, Asked, DelPid, Unneeded, filters, history, Exists, Taken
<1> QED
  BY <1>1, <1>2, <1>3, <1>4, <1>5 DEF Inv

LEMMA GiveUpInv ==
  ASSUME Inv, GiveUp
  PROVE  Inv'
<1>1. TypeOK'
  BY DEF Inv, TypeOK, GiveUp, SwitchOff, filters
<1>2. TableOK'
  BY DEF Inv, TableOK, GiveUp, filters, Taken, CallIs
<1>3. LeavingOK'
  BY DEF GiveUp, LeavingOK
<1>4. Needed'
  <2>1. leaving \notin cut => used[leaving] = 0 /\ \A h \in handles : h[2] # leaving
    <3>1. \A h \in handles : Exists(h[2])
      BY SlotOf DEF Inv, Exists
    <3> QED
      BY <3>1 DEF Inv, LeavingOK, GiveUp
  <2>2. \A q \in Pids \ cut :
          q # leaving /\ (used[q] > 0 \/ \E h \in handles : h[2] = q) => q \in pids'
    BY DEF Inv, Needed, GiveUp, SwitchOff
  <2>3. UNCHANGED <<used, handles, cut>>
    BY DEF GiveUp, filters
  <2> QED
    BY <2>1, <2>2, <2>3 DEF Needed
<1>5. Asked'
  BY DEF Inv, TypeOK, Asked, GiveUp, SwitchOff, filters, Exists, Taken
<1> QED
  BY <1>1, <1>2, <1>3, <1>4, <1>5 DEF Inv

-----------------------------------------------------------------------------
\* A new filter, with a file descriptor that no other has or with none.
LEMMA OpenFilterInv ==
  ASSUME Inv, NEW p \in Pids, NEW t \in Tables, OpenFilter(p, t)
  PROVE  Inv'
<1>1. PICK fd \in Fds \cup {None} :
        /\ \A i \in Taken : fd = None \/ slots[i].fd # fd
        /\ Open(p, fd)
        /\ IF fd = None THEN UNCHANGED call
           ELSE call' = [step |-> "opened", fd |-> fd, pid |-> p]
  BY PidsAssumption DEF OpenFilter, NoHandle
<1>2. PICK i \in Slots \ Taken :
        slots' = [slots EXCEPT ![i] = [fd |-> fd, pid |-> p]]
  BY <1>1 DEF Open
<1>3. /\ call = None /\ cut' = IF leaving = p THEN cut \cup {p} ELSE cut
      /\ UNCHANGED <<pids, receivers, handles, late>>
  BY DEF OpenFilter
<1>4. [fd |-> fd, pid |-> p] \in Filter \ {None}
  BY PidsAssumption DEF Filter
<1>5. slots'[i] = [fd |-> fd, pid |-> p]
      /\ \A j \in Slots \ {i} : slots'[j] = slots[j]
  BY <1>2 DEF Inv, TypeOK
<1>6. Taken' = Taken \cup {i}
  BY <1>2, <1>4, <1>5 DEF Taken
<1>7. TypeOK'
  <2>1. slots' \in [Slots -> Filter \cup {None}]
    BY <1>2, <1>4 DEF Inv, TypeOK
  <2>2. call' = None \/ call' \in Call
    BY <1>1, <1>3 DEF Call
  <2> QED
    BY <1>3, <2>1, <2>2 DEF Inv, TypeOK, receivers
<1>8. TableOK'
  <2>1. \A h \in handles : \E j \in Taken : slots'[j] = [fd |-> h[1], pid |-> h[2]]
    BY <1>2, <1>5 DEF Inv, TableOK, Taken
  <2>2. \A j \in Taken : slots'[j] = slots[j] /\ j # i /\ j \in Slots
    BY <1>2, <1>5 DEF Taken
  <2>3. call' # None =>
          /\ \E j \in Taken' : slots'[j] = [fd |-> call'.fd, pid |-> call'.pid]
          /\ <<call'.fd, call'.pid>> \notin handles
    <3> SUFFICES ASSUME call' # None
                 PROVE  /\ \E j \in Taken' :
                             slots'[j] = [fd |-> call'.fd, pid |-> call'.pid]
                        /\ <<call'.fd, call'.pid>> \notin handles
      OBVIOUS
    <3>1. fd # None /\ call' = [step |-> "opened", fd |-> fd, pid |-> p]
      BY <1>1, <1>3
    <3>2. \A h \in handles : h[1] # fd
      <4>1. \A h \in handles : \E j \in Taken : slots[j].fd = h[1]
        BY SlotOf DEF Inv
      <4> QED
        BY <1>1, <3>1, <4>1
    <3> QED
      BY <1>5, <1>6, <3>1, <3>2
  <2>4. \A j \in Taken' :
          slots'[j].fd # None =>
            \/ <<slots'[j].fd, slots'[j].pid>> \in handles
            \/ call' # None /\ call'.fd = slots'[j].fd /\ call'.pid = slots'[j].pid
    <3>1. fd # None => call' # None /\ call'.fd = fd /\ call'.pid = p
      BY <1>1, PidsAssumption DEF Call
    <3>2. \A j \in Taken :
            slots[j].fd # None => <<slots[j].fd, slots[j].pid>> \in handles
      BY <1>3 DEF Inv, TableOK, CallIs
    <3> QED
      BY <1>5, <1>6, <2>2, <3>1, <3>2
  <2>5. \A j, k \in Taken' :
          slots'[j].fd = slots'[k].fd /\ j # k => slots'[j].fd = None
    BY <1>1, <1>5, <1>6, <2>2 DEF Inv, TableOK
  <2> QED
    BY <1>3, <1>6, <2>1, <2>3, <2>4, <2>5 DEF TableOK, CallIs
<1>9. LeavingOK'
  BY <1>2, <1>3, <1>5, <1>6 DEF Inv, TypeOK, LeavingOK, Exists, Taken, receivers
<1>10. Needed'
  BY <1>3 DEF Inv, TypeOK, Needed, receivers
<1>11. Asked'
  <2>1. \A q \in Pids : Exists(q) => Exists(q)'
    BY <1>2, <1>5, <1>6 DEF Exists, Taken
  <2>2. call' # None => call'.step # "removed"
    BY <1>1, <1>3
  <2> QED
    BY <1>3, <2>1, <2>2 DEF Inv, TypeOK, Asked, receivers
<1> QED
  BY <1>7, <1>8, <1>9, <1>10, <1>11 DEF Inv

\* The PID of the new filter is asked for.
LEMMA OpenedInv ==
  ASSUME Inv, Opened
  PROVE  Inv'
<1>1. call \in Call /\ call # None /\ call' = None
  BY DEF Inv, TypeOK, Opened
<1>2. TypeOK'
  BY <1>1 DEF Inv, TypeOK, Opened, receivers, Call
<1>3. TableOK'
  BY <1>1 DEF Inv, TypeOK, TableOK, Opened, CallIs, Taken, Call
<1>4. LeavingOK'
  BY <1>1 DEF Inv, LeavingOK, Opened, receivers, Exists, Taken
<1>5. Needed'
  BY <1>1 DEF Inv, Needed, Opened, receivers
<1>6. Asked'
  <2>1. Exists(call.pid) /\ \A q \in Pids : Exists(q) => Exists(q)'
    BY <1>1 DEF Inv, TableOK, Opened, Exists, Taken
  <2>2. /\ pids' = pids \cup {call.pid} /\ call.pid \in Pids
        /\ UNCHANGED <<used, leaving, late>>
    BY <1>1 DEF Opened, receivers, Call
  <2> QED
    BY <1>1, <2>1, <2>2 DEF Inv, TypeOK, Asked
<1> QED
  BY <1>2, <1>3, <1>4, <1>5, <1>6 DEF Inv

-----------------------------------------------------------------------------
\* CloseFilter: GetPid finds the PID that VDR opened the filter for.
LEMMA CloseFilterInv ==
  ASSUME Inv, NEW h \in handles, CloseFilter(h)
  PROVE  Inv'
<1>1. h = <<h[1], h[2]>> /\ h[1] \in Fds /\ h[2] \in Pids /\ h[1] # None
  BY PidsAssumption DEF Inv, TypeOK
<1>2. PICK i \in Taken : /\ slots[i].fd = h[1]
                         /\ call' = [step |-> "found", fd |-> h[1],
                                     pid |-> slots[i].pid]
  BY DEF CloseFilter, Find
<1>3. slots[i] = [fd |-> h[1], pid |-> h[2]]
  BY <1>1, <1>2 DEF Inv, TableOK
<1>4. call' = [step |-> "found", fd |-> h[1], pid |-> h[2]] /\ call' \in Call
  BY <1>1, <1>2, <1>3 DEF Call
<1>5. /\ call = None /\ handles' = handles \ {h}
      /\ UNCHANGED <<pids, slots, receivers, history>>
  BY DEF CloseFilter
<1>6. TypeOK'
  BY <1>4, <1>5 DEF Inv, TypeOK, receivers, history
<1>7. TableOK'
  BY <1>1, <1>2, <1>3, <1>4, <1>5, PidsAssumption
     DEF Inv, TypeOK, TableOK, CallIs, Taken
<1>8. LeavingOK'
  BY <1>5 DEF Inv, LeavingOK, receivers, history, Exists, Taken
<1>9. Needed'
  BY <1>5 DEF Inv, Needed, receivers, history
<1>10. Asked'
  BY <1>4, <1>5 DEF Inv, Asked, receivers, history, Exists, Taken
<1> QED
  BY <1>6, <1>7, <1>8, <1>9, <1>10 DEF Inv

LEMMA RemovedInv ==
  ASSUME Inv, Removed
  PROVE  Inv'
<1>1. /\ call \in Call /\ call # None
      /\ call' = [call EXCEPT !.step = "removed"]
      /\ pids' = pids \ {call.pid} /\ late' = late \ {call.pid}
      /\ cut' = IF Others(call.pid, call.fd) THEN cut \cup {call.pid} ELSE cut
      /\ UNCHANGED <<slots, used, leaving, handles>>
  BY DEF Inv, TypeOK, Removed, Remove, SwitchOff, receivers
<1>2. call' \in Call /\ call' # None
      /\ call'.fd = call.fd /\ call'.pid = call.pid
  BY <1>1, PidsAssumption DEF Call
<1>3. TypeOK'
  BY <1>1, <1>2 DEF Inv, TypeOK, Call
<1>4. TableOK'
  BY <1>1, <1>2 DEF Inv, TableOK, CallIs, Taken
<1>5. LeavingOK'
  BY <1>1 DEF Inv, LeavingOK, Exists, Taken
<1>6. Needed'
  <2>1. (\E h \in handles : h[2] = call.pid) => Others(call.pid, call.fd)
    <3> SUFFICES ASSUME NEW h \in handles, h[2] = call.pid
                 PROVE  Others(call.pid, call.fd)
      OBVIOUS
    <3>1. h = <<h[1], call.pid>>
      BY DEF Inv, TypeOK
    <3>2. h[1] # call.fd
      BY <1>1, <3>1 DEF Inv, TableOK
    <3> QED
      BY <3>1, <3>2, SlotOf DEF Inv, Others
  <2> QED
    BY <1>1, <2>1 DEF Inv, TypeOK, Needed, Others
<1>7. Asked'
  BY <1>1, <1>2 DEF Inv, TypeOK, Asked, Exists, Taken
<1> QED
  BY <1>3, <1>4, <1>5, <1>6, <1>7 DEF Inv

\* The filter that Close finds is the one whose PID is no longer asked for.
LEMMA ClosedInv ==
  ASSUME Inv, Closed
  PROVE  Inv'
<1>1. /\ call \in Call /\ call # None /\ call.step = "removed" /\ call' = None
      /\ slots' = [i \in Slots |-> IF i \in Find(call.fd) THEN None ELSE slots[i]]
      /\ UNCHANGED <<pids, used, leaving, handles, cut, late>>
  BY DEF Inv, TypeOK, Closed, Delete, receivers, history
<1>2. call.fd # None
  BY <1>1, PidsAssumption DEF Call
<1>3. PICK i \in Taken : slots[i] = [fd |-> call.fd, pid |-> call.pid]
  BY <1>1 DEF Inv, TableOK
<1>4. Find(call.fd) = {i}
  BY <1>2, <1>3 DEF Inv, TableOK, Find
<1>5. Taken' = Taken \ {i} /\ \A j \in Taken' : slots'[j] = slots[j]
  BY <1>1, <1>4 DEF Taken
<1>6. TypeOK'
  BY <1>1 DEF Inv, TypeOK
<1>7. TableOK'
  <2>1. \A h \in handles : \E j \in Taken' :
          slots'[j] = [fd |-> h[1], pid |-> h[2]]
    <3> SUFFICES ASSUME NEW h \in handles
                 PROVE  \E j \in Taken' : slots'[j] = [fd |-> h[1], pid |-> h[2]]
      OBVIOUS
    <3>1. PICK j \in Taken : slots[j] = [fd |-> h[1], pid |-> h[2]]
      BY DEF Inv, TableOK
    <3>2. h = <<h[1], h[2]>> /\ h # <<call.fd, call.pid>>
      BY <1>1 DEF Inv, TypeOK, TableOK
    <3>3. j # i
      BY <1>3, <3>1, <3>2
    <3> QED
      BY <1>5, <3>1, <3>3
  <2>2. \A j \in Taken' : slots[j].fd # call.fd
    BY <1>4, <1>5 DEF Find
  <2>3. \A j \in Taken' :
          slots[j].fd # None => <<slots[j].fd, slots[j].pid>> \in handles
    BY <1>5, <2>2 DEF Inv, TableOK, CallIs
  <2>4. \A j, k \in Taken' : slots[j].fd = slots[k].fd /\ j # k => slots[j].fd = None
    BY <1>5 DEF Inv, TableOK
  <2> QED
    BY <1>1, <1>5, <2>1, <2>3, <2>4 DEF TableOK
<1>8. LeavingOK'
  BY <1>1, <1>5 DEF Inv, LeavingOK, Exists
<1>9. Needed'
  BY <1>1 DEF Inv, Needed
<1>10. Asked'
  <2>1. \A q \in Pids : q # call.pid /\ Exists(q) => Exists(q)'
    BY <1>3, <1>5 DEF Exists
  <2> QED
    BY <1>1, <2>1 DEF Inv, TypeOK, Asked
<1> QED
  BY <1>6, <1>7, <1>8, <1>9, <1>10 DEF Inv

-----------------------------------------------------------------------------
LEMMA NextInv == Inv /\ [Next]_vars => Inv'
<1> SUFFICES ASSUME Inv, [Next]_vars
             PROVE  Inv'
  OBVIOUS
<1>1. CASE \E p \in Pids : AddPid(p) \/ DelPid(p)
  BY <1>1, AddPidInv, DelPidInv
<1>2. CASE GiveUp
  BY <1>2, GiveUpInv
<1>3. CASE \E p \in Pids, t \in Tables : OpenFilter(p, t)
  BY <1>3, OpenFilterInv
<1>4. CASE \E h \in handles : CloseFilter(h)
  BY <1>4, CloseFilterInv
<1>5. CASE Opened
  BY <1>5, OpenedInv
<1>6. CASE Removed
  BY <1>6, RemovedInv
<1>7. CASE Closed
  BY <1>7, ClosedInv
<1>8. CASE UNCHANGED vars
  BY <1>8 DEF vars, receivers, filters, history, Inv, TypeOK, TableOK,
              LeavingOK, Needed, Asked, Taken, Exists, CallIs
<1> QED
  BY <1>1, <1>2, <1>3, <1>4, <1>5, <1>6, <1>7, <1>8 DEF Next

LEMMA Invariance == Spec => []Inv
<1>1. Init => Inv
  BY InitInv
<1>2. Inv /\ [Next]_vars => Inv'
  BY NextInv
<1> QED
  BY <1>1, <1>2, PTL DEF Spec

\* Types, for all PIDs, slots and descriptors.
THEOREM TypeCorrect == Spec => []TypeOK
<1>1. Inv => TypeOK
  BY DEF Inv
<1> QED
  BY <1>1, Invariance, PTL

\* VDR's handles and the slots of the table stay in step.
THEOREM HandlesCorrect == Spec => []HandlesAreSlots
<1>1. Inv => HandlesAreSlots
  BY DEF Inv, TableOK, HandlesAreSlots, CallIs
<1> QED
  BY <1>1, Invariance, PTL

\* What receivers and filters need is asked of the server, except in the two
\* cases of cut.
THEOREM NeededCorrect == Spec => []NeededIsAsked
<1>1. Inv => NeededIsAsked
  BY DEF Inv, Needed, NeededIsAsked, Busy
<1> QED
  BY <1>1, Invariance, PTL

\* What is asked of the server is needed, except in the case of late.
THEOREM AskedCorrect == Spec => []AskedIsNeeded
<1>1. Inv => AskedIsNeeded
  BY DEF Inv, Asked, AskedIsNeeded, Busy
<1> QED
  BY <1>1, Invariance, PTL
=============================================================================
