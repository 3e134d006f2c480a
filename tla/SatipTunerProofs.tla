-------------------------- MODULE SatipTunerProofs --------------------------
(***************************************************************************)
(* What TLAPS proves of SatipTuner, for every choice of its constants:     *)
(* its types, its safety properties, and that it implements TunerLease.    *)
(* One lemma per part of the type invariant and of the inductive           *)
(* invariants: each goes through the actions of Next.                      *)
(***************************************************************************)
EXTENDS SatipTuner, SequenceTheorems, TLAPS

\* A step keeps the types of the program counter and of the request queues.
LEMMA QueuesOKStep == TypeOK /\ [Next]_vars => QueuesOK'
  <2> SUFFICES ASSUME TypeOK, [Next]_vars PROVE QueuesOK'
    OBVIOUS
  <2> USE DEF TypeOK, QueuesOK, AddressesOK, DataOK, FlagsOK, CountsOK,
              OrNone, States, Points, vars, thread, target, client, pidSets,
              remote, history
  <2> USE DEF Goto, RequestInternal, RequestExternal, Request, Disconnect,
              Teardown, ForgetStream, Reaches, Answers, Accepted, Forbidden,
              Refused, Upset, LockReport, SetupDone, UpdatePidsOk,
              UpdatePidsFailed, PidsNotDue, PidsDue, PidsDone, AfterPlay,
              FullList, PidOn, PidOff
  <2>1. CASE UpdateCurrentState
    <3>1. CASE internal # <<>>
      <4>1. /\ state' = Head(internal) /\ internal' = Tail(internal)
            /\ external' = external /\ pc' = "dispatch"
        BY <2>1, <3>1 DEF UpdateCurrentState
      <4>2. Head(internal) \in States
        BY <3>1
      <4>3. internal' \in Seq(States)
        BY <3>1, <4>1
      <4> QED
        BY <4>1, <4>2, <4>3
    <3>2. CASE internal = <<>> /\ external # <<>>
      <4>1. /\ state' = Head(external) /\ external' = Tail(external)
            /\ internal' = internal /\ pc' = "dispatch"
        BY <2>1, <3>2 DEF UpdateCurrentState
      <4>2. Head(external) \in {"tsSet", "tsRelease"}
        BY <3>2
      <4>3. external' \in Seq({"tsSet", "tsRelease"})
        BY <3>2, <4>1
      <4> QED
        BY <4>1, <4>2, <4>3
    <3>3. CASE internal = <<>> /\ external = <<>>
      BY <2>1, <3>3 DEF UpdateCurrentState
    <3> QED
      BY <3>1, <3>2, <3>3
  <2>2. CASE Idle  BY <2>2 DEF Idle
  <2>3. CASE Release  BY <2>3 DEF Release
  <2>4. CASE RequestIdle  BY <2>4 DEF RequestIdle
  <2>5. CASE Set  BY <2>5 DEF Set
  <2>6. CASE Retune  BY <2>6 DEF Retune
  <2>7. CASE Setup  BY <2>7 DEF Setup
  <2>8. CASE ConnectFailed  BY <2>8 DEF ConnectFailed
  <2>9. CASE RequestTuned  BY <2>9 DEF RequestTuned
  <2>10. CASE ForcePids  BY <2>10 DEF ForcePids
  <2>11. CASE Tuned  BY <2>11 DEF Tuned
  <2>12. CASE StatusRead  BY <2>12 DEF StatusRead
  <2>13. CASE StatusNotRead  BY <2>13 DEF StatusNotRead
  <2>14. CASE TunedLock
    <3>1. /\ pc' = "update" /\ UNCHANGED <<state, external>>
          /\ internal' = Append(internal, "tsLocked") \/ internal' = internal
      BY <2>14 DEF TunedLock
    <3>2. internal' \in Seq(States)
      BY <3>1
    <3> QED
      BY <3>1, <3>2
  <2>15. ASSUME NEW expired \in BOOLEAN, TuningTimeout(expired)
        PROVE  QueuesOK'
    BY <2>15 DEF TuningTimeout
  <2>16. CASE Locked  BY <2>16 DEF Locked
  <2>17. CASE KeepAlive  BY <2>17 DEF KeepAlive
  <2>18. CASE RequestSet  BY <2>18 DEF RequestSet
  <2>19. CASE NoData  BY <2>19 DEF NoData
  <2>20. CASE IdleCheck  BY <2>20 DEF IdleCheck
  <2>21. CASE Receive  BY <2>21 DEF Receive
  <2>22. ASSUME NEW s \in Servers, NEW p \in Params, SetSource(s, p)
        PROVE  QueuesOK'
    <3>1. /\ external' = Append(external, "tsSet")
          /\ internal' = Append(internal, "tsRelease") \/ internal' = internal
          /\ UNCHANGED <<pc, state>>
      BY <2>22 DEF SetSource
    <3>2. external' \in Seq({"tsSet", "tsRelease"})
      BY <3>1
    <3>3. internal' \in Seq(States)
      <4>1. internal \in Seq(States) /\ "tsRelease" \in States
        OBVIOUS
      <4> HIDE DEF TypeOK, States, vars
      <4> QED
        BY <3>1, <4>1
    <3> QED
      BY <3>1, <3>2, <3>3
  <2>23. ASSUME NEW p \in Pids, SetPid(p)
        PROVE  QueuesOK'
    BY <2>23 DEF SetPid
  <2>24. CASE Close  BY <2>24 DEF Close
  <2>25. CASE SetPowerSaveMode  BY <2>25 DEF SetPowerSaveMode
  <2>26. CASE ProcessApplicationData  BY <2>26 DEF ProcessApplicationData
  <2>27. CASE SessionLost  BY <2>27 DEF SessionLost
  <2>29. CASE UNCHANGED vars  BY <2>29
  <2> QED
    BY <2>1, <2>2, <2>3, <2>4, <2>5, <2>6, <2>7, <2>8, <2>9, <2>10, <2>11,
       <2>12, <2>13, <2>14, <2>15, <2>16, <2>17, <2>18, <2>19, <2>20, <2>21,
       <2>22, <2>23, <2>24, <2>25, <2>26, <2>27, <2>29
    DEF Next, Action, Calls, Environment

\* A step keeps the types of addresses, streams and servers.
LEMMA AddressesOKStep == TypeOK /\ [Next]_vars => AddressesOK'
  <2> SUFFICES ASSUME TypeOK, [Next]_vars PROVE AddressesOK'
    OBVIOUS
  <2> USE DEF TypeOK, QueuesOK, AddressesOK, DataOK, FlagsOK, CountsOK,
              OrNone, States, Points, vars, thread, target, client, pidSets,
              remote, history
  <2> USE DEF Goto, RequestInternal, RequestExternal, Request, Disconnect,
              Teardown, ForgetStream, Reaches, Answers, Accepted, Forbidden,
              Refused, Upset, LockReport, SetupDone, UpdatePidsOk,
              UpdatePidsFailed, PidsNotDue, PidsDue, PidsDone, AfterPlay,
              FullList, PidOn, PidOff
  <2>1. CASE UpdateCurrentState  BY <2>1 DEF UpdateCurrentState
  <2>2. CASE Idle  BY <2>2 DEF Idle
  <2>3. CASE Release  BY <2>3 DEF Release
  <2>4. CASE RequestIdle  BY <2>4 DEF RequestIdle
  <2>5. CASE Set  BY <2>5 DEF Set
  <2>6. CASE Retune  BY <2>6 DEF Retune
  <2>7. CASE Setup  BY <2>7 DEF Setup
  <2>8. CASE ConnectFailed  BY <2>8 DEF ConnectFailed
  <2>9. CASE RequestTuned  BY <2>9 DEF RequestTuned
  <2>10. CASE ForcePids  BY <2>10 DEF ForcePids
  <2>11. CASE Tuned  BY <2>11 DEF Tuned
  <2>12. CASE StatusRead  BY <2>12 DEF StatusRead
  <2>13. CASE StatusNotRead  BY <2>13 DEF StatusNotRead
  <2>14. CASE TunedLock  BY <2>14 DEF TunedLock
  <2>15. ASSUME NEW expired \in BOOLEAN, TuningTimeout(expired)
        PROVE  AddressesOK'
    BY <2>15 DEF TuningTimeout
  <2>16. CASE Locked  BY <2>16 DEF Locked
  <2>17. CASE KeepAlive  BY <2>17 DEF KeepAlive
  <2>18. CASE RequestSet  BY <2>18 DEF RequestSet
  <2>19. CASE NoData  BY <2>19 DEF NoData
  <2>20. CASE IdleCheck  BY <2>20 DEF IdleCheck
  <2>21. CASE Receive  BY <2>21 DEF Receive
  <2>22. ASSUME NEW s \in Servers, NEW p \in Params, SetSource(s, p)
        PROVE  AddressesOK'
    BY <2>22 DEF SetSource
  <2>23. ASSUME NEW p \in Pids, SetPid(p)
        PROVE  AddressesOK'
    BY <2>23 DEF SetPid
  <2>24. CASE Close  BY <2>24 DEF Close
  <2>25. CASE SetPowerSaveMode  BY <2>25 DEF SetPowerSaveMode
  <2>26. CASE ProcessApplicationData  BY <2>26 DEF ProcessApplicationData
  <2>27. CASE SessionLost  BY <2>27 DEF SessionLost
  <2>29. CASE UNCHANGED vars  BY <2>29
  <2> QED
    BY <2>1, <2>2, <2>3, <2>4, <2>5, <2>6, <2>7, <2>8, <2>9, <2>10, <2>11,
       <2>12, <2>13, <2>14, <2>15, <2>16, <2>17, <2>18, <2>19, <2>20, <2>21,
       <2>22, <2>23, <2>24, <2>25, <2>26, <2>27, <2>29
    DEF Next, Action, Calls, Environment

\* A step keeps the types of PID sets and transponders.
LEMMA DataOKStep == TypeOK /\ [Next]_vars => DataOK'
  <2> SUFFICES ASSUME TypeOK, [Next]_vars PROVE DataOK'
    OBVIOUS
  <2> USE DEF TypeOK, QueuesOK, AddressesOK, DataOK, FlagsOK, CountsOK,
              OrNone, States, Points, vars, thread, target, client, pidSets,
              remote, history
  <2> USE DEF Goto, RequestInternal, RequestExternal, Request, Disconnect,
              Teardown, ForgetStream, Reaches, Answers, Accepted, Forbidden,
              Refused, Upset, LockReport, SetupDone, UpdatePidsOk,
              UpdatePidsFailed, PidsNotDue, PidsDue, PidsDone, AfterPlay,
              FullList, PidOn, PidOff
  <2>1. CASE UpdateCurrentState  BY <2>1 DEF UpdateCurrentState
  <2>2. CASE Idle  BY <2>2 DEF Idle
  <2>3. CASE Release  BY <2>3 DEF Release
  <2>4. CASE RequestIdle  BY <2>4 DEF RequestIdle
  <2>5. CASE Set  BY <2>5 DEF Set
  <2>6. CASE Retune  BY <2>6 DEF Retune
  <2>7. CASE Setup  BY <2>7 DEF Setup
  <2>8. CASE ConnectFailed  BY <2>8 DEF ConnectFailed
  <2>9. CASE RequestTuned  BY <2>9 DEF RequestTuned
  <2>10. CASE ForcePids  BY <2>10 DEF ForcePids
  <2>11. CASE Tuned  BY <2>11 DEF Tuned
  <2>12. CASE StatusRead  BY <2>12 DEF StatusRead
  <2>13. CASE StatusNotRead  BY <2>13 DEF StatusNotRead
  <2>14. CASE TunedLock  BY <2>14 DEF TunedLock
  <2>15. ASSUME NEW expired \in BOOLEAN, TuningTimeout(expired)
        PROVE  DataOK'
    BY <2>15 DEF TuningTimeout
  <2>16. CASE Locked  BY <2>16 DEF Locked
  <2>17. CASE KeepAlive  BY <2>17 DEF KeepAlive
  <2>18. CASE RequestSet  BY <2>18 DEF RequestSet
  <2>19. CASE NoData  BY <2>19 DEF NoData
  <2>20. CASE IdleCheck  BY <2>20 DEF IdleCheck
  <2>21. CASE Receive  BY <2>21 DEF Receive
  <2>22. ASSUME NEW s \in Servers, NEW p \in Params, SetSource(s, p)
        PROVE  DataOK'
    BY <2>22 DEF SetSource
  <2>23. ASSUME NEW p \in Pids, SetPid(p)
        PROVE  DataOK'
    BY <2>23 DEF SetPid
  <2>24. CASE Close  BY <2>24 DEF Close
  <2>25. CASE SetPowerSaveMode  BY <2>25 DEF SetPowerSaveMode
  <2>26. CASE ProcessApplicationData  BY <2>26 DEF ProcessApplicationData
  <2>27. CASE SessionLost  BY <2>27 DEF SessionLost
  <2>29. CASE UNCHANGED vars  BY <2>29
  <2> QED
    BY <2>1, <2>2, <2>3, <2>4, <2>5, <2>6, <2>7, <2>8, <2>9, <2>10, <2>11,
       <2>12, <2>13, <2>14, <2>15, <2>16, <2>17, <2>18, <2>19, <2>20, <2>21,
       <2>22, <2>23, <2>24, <2>25, <2>26, <2>27, <2>29
    DEF Next, Action, Calls, Environment

\* A step keeps the types of the flags.
LEMMA FlagsOKStep == TypeOK /\ [Next]_vars => FlagsOK'
  <2> SUFFICES ASSUME TypeOK, [Next]_vars PROVE FlagsOK'
    OBVIOUS
  <2> USE DEF TypeOK, QueuesOK, AddressesOK, DataOK, FlagsOK, CountsOK,
              OrNone, States, Points, vars, thread, target, client, pidSets,
              remote, history
  <2> USE DEF Goto, RequestInternal, RequestExternal, Request, Disconnect,
              Teardown, ForgetStream, Reaches, Answers, Accepted, Forbidden,
              Refused, Upset, LockReport, SetupDone, UpdatePidsOk,
              UpdatePidsFailed, PidsNotDue, PidsDue, PidsDone, AfterPlay,
              FullList, PidOn, PidOff
  <2>1. CASE UpdateCurrentState  BY <2>1 DEF UpdateCurrentState
  <2>2. CASE Idle  BY <2>2 DEF Idle
  <2>3. CASE Release  BY <2>3 DEF Release
  <2>4. CASE RequestIdle  BY <2>4 DEF RequestIdle
  <2>5. CASE Set  BY <2>5 DEF Set
  <2>6. CASE Retune  BY <2>6 DEF Retune
  <2>7. CASE Setup  BY <2>7 DEF Setup
  <2>8. CASE ConnectFailed  BY <2>8 DEF ConnectFailed
  <2>9. CASE RequestTuned  BY <2>9 DEF RequestTuned
  <2>10. CASE ForcePids  BY <2>10 DEF ForcePids
  <2>11. CASE Tuned  BY <2>11 DEF Tuned
  <2>12. CASE StatusRead  BY <2>12 DEF StatusRead
  <2>13. CASE StatusNotRead  BY <2>13 DEF StatusNotRead
  <2>14. CASE TunedLock  BY <2>14 DEF TunedLock
  <2>15. ASSUME NEW expired \in BOOLEAN, TuningTimeout(expired)
        PROVE  FlagsOK'
    BY <2>15 DEF TuningTimeout
  <2>16. CASE Locked  BY <2>16 DEF Locked
  <2>17. CASE KeepAlive  BY <2>17 DEF KeepAlive
  <2>18. CASE RequestSet  BY <2>18 DEF RequestSet
  <2>19. CASE NoData  BY <2>19 DEF NoData
  <2>20. CASE IdleCheck
    BY <2>20, TunerAssumption DEF IdleCheck, TunerAssumption
  <2>21. CASE Receive  BY <2>21 DEF Receive
  <2>22. ASSUME NEW s \in Servers, NEW p \in Params, SetSource(s, p)
        PROVE  FlagsOK'
    BY <2>22 DEF SetSource
  <2>23. ASSUME NEW p \in Pids, SetPid(p)
        PROVE  FlagsOK'
    BY <2>23 DEF SetPid
  <2>24. CASE Close  BY <2>24 DEF Close
  <2>25. CASE SetPowerSaveMode  BY <2>25 DEF SetPowerSaveMode
  <2>26. CASE ProcessApplicationData  BY <2>26 DEF ProcessApplicationData
  <2>27. CASE SessionLost  BY <2>27 DEF SessionLost
  <2>29. CASE UNCHANGED vars  BY <2>29
  <2> QED
    BY <2>1, <2>2, <2>3, <2>4, <2>5, <2>6, <2>7, <2>8, <2>9, <2>10, <2>11,
       <2>12, <2>13, <2>14, <2>15, <2>16, <2>17, <2>18, <2>19, <2>20, <2>21,
       <2>22, <2>23, <2>24, <2>25, <2>26, <2>27, <2>29
    DEF Next, Action, Calls, Environment

\* A step keeps the types of the counters of the bounds.
LEMMA CountsOKStep == TypeOK /\ [Next]_vars => CountsOK'
  <2> SUFFICES ASSUME TypeOK, [Next]_vars PROVE CountsOK'
    OBVIOUS
  <2> USE DEF TypeOK, QueuesOK, AddressesOK, DataOK, FlagsOK, CountsOK,
              OrNone, States, Points, vars, thread, target, client, pidSets,
              remote, history
  <2> USE DEF Goto, RequestInternal, RequestExternal, Request, Disconnect,
              Teardown, ForgetStream, Reaches, Answers, Accepted, Forbidden,
              Refused, Upset, LockReport, SetupDone, UpdatePidsOk,
              UpdatePidsFailed, PidsNotDue, PidsDue, PidsDone, AfterPlay,
              FullList, PidOn, PidOff
  <2>1. CASE UpdateCurrentState  BY <2>1 DEF UpdateCurrentState
  <2>2. CASE Idle  BY <2>2 DEF Idle
  <2>3. CASE Release  BY <2>3 DEF Release
  <2>4. CASE RequestIdle  BY <2>4 DEF RequestIdle
  <2>5. CASE Set  BY <2>5 DEF Set
  <2>6. CASE Retune  BY <2>6 DEF Retune
  <2>7. CASE Setup  BY <2>7 DEF Setup
  <2>8. CASE ConnectFailed  BY <2>8 DEF ConnectFailed
  <2>9. CASE RequestTuned  BY <2>9 DEF RequestTuned
  <2>10. CASE ForcePids  BY <2>10 DEF ForcePids
  <2>11. CASE Tuned  BY <2>11 DEF Tuned
  <2>12. CASE StatusRead  BY <2>12 DEF StatusRead
  <2>13. CASE StatusNotRead  BY <2>13 DEF StatusNotRead
  <2>14. CASE TunedLock  BY <2>14 DEF TunedLock
  <2>15. ASSUME NEW expired \in BOOLEAN, TuningTimeout(expired)
        PROVE  CountsOK'
    BY <2>15 DEF TuningTimeout
  <2>16. CASE Locked  BY <2>16 DEF Locked
  <2>17. CASE KeepAlive  BY <2>17 DEF KeepAlive
  <2>18. CASE RequestSet  BY <2>18 DEF RequestSet
  <2>19. CASE NoData  BY <2>19 DEF NoData
  <2>20. CASE IdleCheck  BY <2>20 DEF IdleCheck
  <2>21. CASE Receive  BY <2>21 DEF Receive
  <2>22. ASSUME NEW s \in Servers, NEW p \in Params, SetSource(s, p)
        PROVE  CountsOK'
    BY <2>22 DEF SetSource
  <2>23. ASSUME NEW p \in Pids, SetPid(p)
        PROVE  CountsOK'
    BY <2>23 DEF SetPid
  <2>24. CASE Close  BY <2>24 DEF Close
  <2>25. CASE SetPowerSaveMode  BY <2>25 DEF SetPowerSaveMode
  <2>26. CASE ProcessApplicationData  BY <2>26 DEF ProcessApplicationData
  <2>27. CASE SessionLost  BY <2>27 DEF SessionLost
  <2>29. CASE UNCHANGED vars  BY <2>29
  <2> QED
    BY <2>1, <2>2, <2>3, <2>4, <2>5, <2>6, <2>7, <2>8, <2>9, <2>10, <2>11,
       <2>12, <2>13, <2>14, <2>15, <2>16, <2>17, <2>18, <2>19, <2>20, <2>21,
       <2>22, <2>23, <2>24, <2>25, <2>26, <2>27, <2>29
    DEF Next, Action, Calls, Environment

\* Every variable keeps its type, for all constants.
THEOREM TypeCorrect == Spec => []TypeOK
<1>1. Init => TypeOK
  <2> SUFFICES ASSUME Init PROVE TypeOK
    OBVIOUS
  <2>1. QueuesOK
    BY DEF Init, QueuesOK, States, Points
  <2>2. AddressesOK /\ DataOK
    BY DEF Init, AddressesOK, DataOK, OrNone
  <2>3. FlagsOK /\ CountsOK
    BY DEF Init, FlagsOK, CountsOK
  <2> QED
    BY <2>1, <2>2, <2>3 DEF TypeOK
<1>2. TypeOK /\ [Next]_vars => TypeOK'
  BY QueuesOKStep, AddressesOKStep, DataOKStep, FlagsOKStep, CountsOKStep
  DEF TypeOK
<1> QED
  BY <1>1, <1>2, PTL DEF Spec

-----------------------------------------------------------------------------
(* The safety properties.  None of them is inductive alone; each part of   *)
(* the invariants below strengthens one of them by what the thread's       *)
(* position and the queued state requests imply.                           *)

\* Before the first SetSource nothing can make the thread leave the idle and
\* release states, so it never reaches Connect.
Unaddressed ==
  streamAddr = None =>
    /\ streamId = None /\ nextServer = None
    /\ state \in {"tsIdle", "tsRelease"}
    /\ internal \in Seq({"tsIdle", "tsRelease"})
    /\ external \in Seq({"tsRelease"})
    /\ pc \in {"update", "dispatch", "requestIdle"}

\* Once nextServerM has been used up, the current server is the wanted one.
NextTaken ==
  nextServer = None /\ streamAddr # None => currentServer = streamAddr

AddressInv ==
  StreamIsAddressable /\ ConnectKnowsServer /\ Unaddressed /\ NextTaken

\* Until the first SetSource the thread stays away from Connect.
LEMMA UnaddressedStep ==
  ASSUME TypeOK,
         AddressInv,
         [Next]_vars
  PROVE  Unaddressed'
<1> USE DEF vars, thread, target, client, pidSets, remote, history,
    AddressInv, StreamIsAddressable, ConnectKnowsServer, Unaddressed, Goto,
    RequestInternal, RequestExternal, Request, Disconnect, Teardown,
    ForgetStream, SetupDone, OrNone, AddressesOK, QueuesOK, DataOK, TypeOK
<1>1. CASE UpdateCurrentState
  <2> SUFFICES ASSUME streamAddr = None
               PROVE  Unaddressed'
    BY <1>1 DEF UpdateCurrentState
  <2>1. CASE internal # <<>>
    <3>1. /\ state' = Head(internal) /\ internal' = Tail(internal)
          /\ external' = external /\ pc' = "dispatch"
      BY <1>1, <2>1 DEF UpdateCurrentState
    <3>2. Head(internal) \in {"tsIdle", "tsRelease"}
      BY <2>1
    <3>3. internal' \in Seq({"tsIdle", "tsRelease"})
      BY <2>1, <3>1
    <3> QED
      BY <1>1, <3>1, <3>2, <3>3 DEF UpdateCurrentState
  <2>2. CASE internal = <<>> /\ external # <<>>
    <3>1. /\ state' = Head(external) /\ external' = Tail(external)
          /\ internal' = internal /\ pc' = "dispatch"
      BY <1>1, <2>2 DEF UpdateCurrentState
    <3>2. Head(external) \in {"tsRelease"}
      BY <2>2
    <3>3. external' \in Seq({"tsRelease"})
      BY <2>2, <3>1
    <3> QED
      BY <1>1, <3>1, <3>2, <3>3 DEF UpdateCurrentState
  <2>3. CASE internal = <<>> /\ external = <<>>
    BY <1>1, <2>3 DEF UpdateCurrentState
  <2> QED
    BY <2>1, <2>2, <2>3
<1>2. CASE Idle
  BY <1>2 DEF Idle
<1>3. CASE Release
  BY <1>3 DEF Release
<1>4. CASE RequestIdle
  BY <1>4 DEF RequestIdle
<1>5. CASE Set
  BY <1>5 DEF Set
<1>6. CASE Retune
  BY <1>6 DEF Retune
<1>7. CASE Setup
  BY <1>7 DEF Setup
<1>8. CASE ConnectFailed
  BY <1>8 DEF ConnectFailed
<1>9. CASE RequestTuned
  BY <1>9 DEF RequestTuned
<1>10. CASE ForcePids
  BY <1>10 DEF ForcePids
<1>11. CASE Tuned
  BY <1>11 DEF Tuned
<1>12. CASE StatusRead
  BY <1>12 DEF StatusRead
<1>13. CASE StatusNotRead
  BY <1>13 DEF StatusNotRead
<1>14. CASE TunedLock
  BY <1>14 DEF TunedLock
<1>15. ASSUME NEW expired \in BOOLEAN, TuningTimeout(expired)
      PROVE  Unaddressed'
  BY <1>15 DEF TuningTimeout
<1>16. CASE Locked
  BY <1>16 DEF Locked
<1>17. CASE KeepAlive
  BY <1>17 DEF KeepAlive
<1>18. CASE RequestSet
  BY <1>18 DEF RequestSet
<1>19. CASE NoData
  BY <1>19 DEF NoData
<1>20. CASE IdleCheck
  BY <1>20 DEF IdleCheck
<1>21. CASE Receive
  BY <1>21 DEF Receive
<1>22. ASSUME NEW s \in Servers, NEW p \in Params, SetSource(s, p)
      PROVE  Unaddressed'
  BY <1>22, TunerAssumption DEF SetSource
<1>23. ASSUME NEW p \in Pids, SetPid(p)
      PROVE  Unaddressed'
  BY <1>23 DEF SetPid
<1>24. CASE Close
  BY <1>24 DEF Close
<1>25. CASE SetPowerSaveMode
  BY <1>25 DEF SetPowerSaveMode
<1>26. CASE ProcessApplicationData
  BY <1>26 DEF ProcessApplicationData
<1>27. CASE SessionLost
  BY <1>27 DEF SessionLost
<1>29. CASE UNCHANGED vars
  BY <1>29 DEF vars
<1> QED
  BY <1>1, <1>2, <1>3, <1>4, <1>5, <1>6, <1>7, <1>8, <1>9, <1>10, <1>11,
     <1>12, <1>13, <1>14, <1>15, <1>16, <1>17, <1>18, <1>19, <1>20, <1>21,
     <1>22, <1>23, <1>24, <1>25, <1>26, <1>27, <1>29
  DEF Next, Action, Calls, Environment

\* A stream keeps the address its TEARDOWN needs.
LEMMA StreamIsAddressableStep ==
  ASSUME TypeOK,
         AddressInv,
         [Next]_vars
  PROVE  StreamIsAddressable'
<1> USE DEF vars, thread, target, client, pidSets, remote, history,
    AddressInv, NextTaken, StreamIsAddressable, ConnectKnowsServer, Goto,
    Disconnect, Teardown, ForgetStream, SetupDone, OrNone, AddressesOK,
    TypeOK
<1>1. CASE UpdateCurrentState
  BY <1>1 DEF UpdateCurrentState
<1>2. CASE Idle
  BY <1>2 DEF Idle
<1>3. CASE Release
  BY <1>3 DEF Release
<1>4. CASE RequestIdle
  BY <1>4 DEF RequestIdle
<1>5. CASE Set
  BY <1>5 DEF Set
<1>6. CASE Retune
  BY <1>6 DEF Retune
<1>7. CASE Setup
  BY <1>7 DEF Setup
<1>8. CASE ConnectFailed
  BY <1>8 DEF ConnectFailed
<1>9. CASE RequestTuned
  BY <1>9 DEF RequestTuned
<1>10. CASE ForcePids
  BY <1>10 DEF ForcePids
<1>11. CASE Tuned
  BY <1>11 DEF Tuned
<1>12. CASE StatusRead
  BY <1>12 DEF StatusRead
<1>13. CASE StatusNotRead
  BY <1>13 DEF StatusNotRead
<1>14. CASE TunedLock
  BY <1>14 DEF TunedLock
<1>15. ASSUME NEW expired \in BOOLEAN, TuningTimeout(expired)
      PROVE  StreamIsAddressable'
  BY <1>15 DEF TuningTimeout
<1>16. CASE Locked
  BY <1>16 DEF Locked
<1>17. CASE KeepAlive
  BY <1>17 DEF KeepAlive
<1>18. CASE RequestSet
  BY <1>18 DEF RequestSet
<1>19. CASE NoData
  BY <1>19 DEF NoData
<1>20. CASE IdleCheck
  BY <1>20 DEF IdleCheck
<1>21. CASE Receive
  BY <1>21 DEF Receive
<1>22. ASSUME NEW s \in Servers, NEW p \in Params, SetSource(s, p)
      PROVE  StreamIsAddressable'
  BY <1>22 DEF SetSource
<1>23. ASSUME NEW p \in Pids, SetPid(p)
      PROVE  StreamIsAddressable'
  BY <1>23 DEF SetPid
<1>24. CASE Close
  BY <1>24 DEF Close
<1>25. CASE SetPowerSaveMode
  BY <1>25 DEF SetPowerSaveMode
<1>26. CASE ProcessApplicationData
  BY <1>26 DEF ProcessApplicationData
<1>27. CASE SessionLost
  BY <1>27 DEF SessionLost
<1>29. CASE UNCHANGED vars
  BY <1>29 DEF vars
<1> QED
  BY <1>1, <1>2, <1>3, <1>4, <1>5, <1>6, <1>7, <1>8, <1>9, <1>10, <1>11,
     <1>12, <1>13, <1>14, <1>15, <1>16, <1>17, <1>18, <1>19, <1>20, <1>21,
     <1>22, <1>23, <1>24, <1>25, <1>26, <1>27, <1>29
  DEF Next, Action, Calls, Environment

\* Only a SETUP uses nextServerM up.
LEMMA NextTakenStep ==
  ASSUME TypeOK,
         AddressInv,
         [Next]_vars
  PROVE  NextTaken'
<1> USE DEF vars, thread, target, client, pidSets, remote, history,
    AddressInv, NextTaken, StreamIsAddressable, ConnectKnowsServer, Goto,
    Disconnect, Teardown, ForgetStream, SetupDone, OrNone, AddressesOK,
    TypeOK
<1>1. CASE UpdateCurrentState
  BY <1>1 DEF UpdateCurrentState
<1>2. CASE Idle
  BY <1>2 DEF Idle
<1>3. CASE Release
  BY <1>3 DEF Release
<1>4. CASE RequestIdle
  BY <1>4 DEF RequestIdle
<1>5. CASE Set
  BY <1>5 DEF Set
<1>6. CASE Retune
  BY <1>6 DEF Retune
<1>7. CASE Setup
  BY <1>7 DEF Setup
<1>8. CASE ConnectFailed
  BY <1>8 DEF ConnectFailed
<1>9. CASE RequestTuned
  BY <1>9 DEF RequestTuned
<1>10. CASE ForcePids
  BY <1>10 DEF ForcePids
<1>11. CASE Tuned
  BY <1>11 DEF Tuned
<1>12. CASE StatusRead
  BY <1>12 DEF StatusRead
<1>13. CASE StatusNotRead
  BY <1>13 DEF StatusNotRead
<1>14. CASE TunedLock
  BY <1>14 DEF TunedLock
<1>15. ASSUME NEW expired \in BOOLEAN, TuningTimeout(expired)
      PROVE  NextTaken'
  BY <1>15 DEF TuningTimeout
<1>16. CASE Locked
  BY <1>16 DEF Locked
<1>17. CASE KeepAlive
  BY <1>17 DEF KeepAlive
<1>18. CASE RequestSet
  BY <1>18 DEF RequestSet
<1>19. CASE NoData
  BY <1>19 DEF NoData
<1>20. CASE IdleCheck
  BY <1>20 DEF IdleCheck
<1>21. CASE Receive
  BY <1>21 DEF Receive
<1>22. ASSUME NEW s \in Servers, NEW p \in Params, SetSource(s, p)
      PROVE  NextTaken'
  BY <1>22, TunerAssumption DEF SetSource
<1>23. ASSUME NEW p \in Pids, SetPid(p)
      PROVE  NextTaken'
  BY <1>23 DEF SetPid
<1>24. CASE Close
  BY <1>24 DEF Close
<1>25. CASE SetPowerSaveMode
  BY <1>25 DEF SetPowerSaveMode
<1>26. CASE ProcessApplicationData
  BY <1>26 DEF ProcessApplicationData
<1>27. CASE SessionLost
  BY <1>27 DEF SessionLost
<1>29. CASE UNCHANGED vars
  BY <1>29 DEF vars
<1> QED
  BY <1>1, <1>2, <1>3, <1>4, <1>5, <1>6, <1>7, <1>8, <1>9, <1>10, <1>11,
     <1>12, <1>13, <1>14, <1>15, <1>16, <1>17, <1>18, <1>19, <1>20, <1>21,
     <1>22, <1>23, <1>24, <1>25, <1>26, <1>27, <1>29
  DEF Next, Action, Calls, Environment

\* Connect has an address, and nextServerM belongs to it.
LEMMA ConnectKnowsServerStep ==
  ASSUME TypeOK,
         AddressInv,
         [Next]_vars
  PROVE  ConnectKnowsServer'
<1> USE DEF vars, thread, target, client, pidSets, remote, history,
    AddressInv, NextTaken, StreamIsAddressable, ConnectKnowsServer, Goto,
    Disconnect, Teardown, ForgetStream, SetupDone, OrNone, AddressesOK,
    TypeOK, Unaddressed
<1>1. CASE UpdateCurrentState
  BY <1>1 DEF UpdateCurrentState
<1>2. CASE Idle
  BY <1>2 DEF Idle
<1>3. CASE Release
  BY <1>3 DEF Release
<1>4. CASE RequestIdle
  BY <1>4 DEF RequestIdle
<1>5. CASE Set
  BY <1>5 DEF Set
<1>6. CASE Retune
  BY <1>6 DEF Retune
<1>7. CASE Setup
  BY <1>7 DEF Setup
<1>8. CASE ConnectFailed
  BY <1>8 DEF ConnectFailed
<1>9. CASE RequestTuned
  BY <1>9 DEF RequestTuned
<1>10. CASE ForcePids
  BY <1>10 DEF ForcePids
<1>11. CASE Tuned
  BY <1>11 DEF Tuned
<1>12. CASE StatusRead
  BY <1>12 DEF StatusRead
<1>13. CASE StatusNotRead
  BY <1>13 DEF StatusNotRead
<1>14. CASE TunedLock
  BY <1>14 DEF TunedLock
<1>15. ASSUME NEW expired \in BOOLEAN, TuningTimeout(expired)
      PROVE  ConnectKnowsServer'
  BY <1>15 DEF TuningTimeout
<1>16. CASE Locked
  BY <1>16 DEF Locked
<1>17. CASE KeepAlive
  BY <1>17 DEF KeepAlive
<1>18. CASE RequestSet
  BY <1>18 DEF RequestSet
<1>19. CASE NoData
  BY <1>19 DEF NoData
<1>20. CASE IdleCheck
  BY <1>20 DEF IdleCheck
<1>21. CASE Receive
  BY <1>21 DEF Receive
<1>22. ASSUME NEW s \in Servers, NEW p \in Params, SetSource(s, p)
      PROVE  ConnectKnowsServer'
  BY <1>22, TunerAssumption DEF SetSource
<1>23. ASSUME NEW p \in Pids, SetPid(p)
      PROVE  ConnectKnowsServer'
  BY <1>23 DEF SetPid
<1>24. CASE Close
  BY <1>24 DEF Close
<1>25. CASE SetPowerSaveMode
  BY <1>25 DEF SetPowerSaveMode
<1>26. CASE ProcessApplicationData
  BY <1>26 DEF ProcessApplicationData
<1>27. CASE SessionLost
  BY <1>27 DEF SessionLost
<1>29. CASE UNCHANGED vars
  BY <1>29 DEF vars
<1> QED
  BY <1>1, <1>2, <1>3, <1>4, <1>5, <1>6, <1>7, <1>8, <1>9, <1>10, <1>11,
     <1>12, <1>13, <1>14, <1>15, <1>16, <1>17, <1>18, <1>19, <1>20, <1>21,
     <1>22, <1>23, <1>24, <1>25, <1>26, <1>27, <1>29
  DEF Next, Action, Calls, Environment

\* The strengthened addressing invariant holds throughout.
LEMMA AddressInvInductive == Spec => []AddressInv
<1>1. Init => AddressInv
  BY DEF Init, AddressInv, StreamIsAddressable, ConnectKnowsServer,
         Unaddressed, NextTaken
<1>2. TypeOK /\ AddressInv /\ [Next]_vars => AddressInv'
  BY UnaddressedStep, StreamIsAddressableStep, NextTakenStep,
     ConnectKnowsServerStep
  DEF AddressInv
<1> QED
  BY <1>1, <1>2, TypeCorrect, PTL DEF Spec

\* Whatever SetSource calls arrive between its methods, the tuner thread can
\* address every stream it holds (tuner.c Connect, Disconnect, SetSource).
THEOREM Addressable == Spec => []StreamIsAddressable
  BY AddressInvInductive, PTL DEF AddressInv

\* Connect is never entered without an address, and the server waiting in
\* nextServerM is the one it would set up (tuner.c Connect, SetSource).
THEOREM ConnectIsInformed == Spec => []ConnectKnowsServer
  BY AddressInvInductive, PTL DEF AddressInv

\* Every step is one of the abstract tuner, or changes nothing it can see.
LEMMA LeaseStep ==
  ASSUME TypeOK,
         AddressInv,
         [Next]_vars
  PROVE  [Lease!Next]_(Lease!lease)
<1> USE DEF vars, thread, target, client, pidSets, remote, history,
    AddressInv, NextTaken, StreamIsAddressable, ConnectKnowsServer, Goto,
    Disconnect, Teardown, ForgetStream, SetupDone, Lease!Next, Lease!Choose,
    Lease!Open, Lease!GiveUp, Lease!lease
<1>1. CASE UpdateCurrentState
  BY <1>1 DEF UpdateCurrentState
<1>2. CASE Idle
  BY <1>2 DEF Idle
<1>3. CASE Release
  BY <1>3 DEF Release
<1>4. CASE RequestIdle
  BY <1>4 DEF RequestIdle
<1>5. CASE Set
  BY <1>5 DEF Set
<1>6. CASE Retune
  BY <1>6 DEF Retune
<1>7. CASE Setup
  BY <1>7 DEF Setup
<1>8. CASE ConnectFailed
  BY <1>8 DEF ConnectFailed
<1>9. CASE RequestTuned
  BY <1>9 DEF RequestTuned
<1>10. CASE ForcePids
  BY <1>10 DEF ForcePids
<1>11. CASE Tuned
  BY <1>11 DEF Tuned
<1>12. CASE StatusRead
  BY <1>12 DEF StatusRead
<1>13. CASE StatusNotRead
  BY <1>13 DEF StatusNotRead
<1>14. CASE TunedLock
  BY <1>14 DEF TunedLock
<1>15. ASSUME NEW expired \in BOOLEAN, TuningTimeout(expired)
      PROVE  [Lease!Next]_(Lease!lease)
  BY <1>15 DEF TuningTimeout
<1>16. CASE Locked
  BY <1>16 DEF Locked
<1>17. CASE KeepAlive
  BY <1>17 DEF KeepAlive
<1>18. CASE RequestSet
  BY <1>18 DEF RequestSet
<1>19. CASE NoData
  BY <1>19 DEF NoData
<1>20. CASE IdleCheck
  BY <1>20 DEF IdleCheck
<1>21. CASE Receive
  BY <1>21 DEF Receive
<1>22. ASSUME NEW s \in Servers, NEW p \in Params, SetSource(s, p)
      PROVE  [Lease!Next]_(Lease!lease)
  BY <1>22 DEF SetSource
<1>23. ASSUME NEW p \in Pids, SetPid(p)
      PROVE  [Lease!Next]_(Lease!lease)
  BY <1>23 DEF SetPid
<1>24. CASE Close
  BY <1>24 DEF Close
<1>25. CASE SetPowerSaveMode
  BY <1>25 DEF SetPowerSaveMode
<1>26. CASE ProcessApplicationData
  BY <1>26 DEF ProcessApplicationData
<1>27. CASE SessionLost
  BY <1>27 DEF SessionLost
<1>29. CASE UNCHANGED vars
  BY <1>29 DEF vars
<1> QED
  BY <1>1, <1>2, <1>3, <1>4, <1>5, <1>6, <1>7, <1>8, <1>9, <1>10, <1>11,
     <1>12, <1>13, <1>14, <1>15, <1>16, <1>17, <1>18, <1>19, <1>20, <1>21,
     <1>22, <1>23, <1>24, <1>25, <1>26, <1>27, <1>29
  DEF Next, Action, Calls, Environment

\* The tuner implements its abstract specification (tuner.c Connect,
\* Disconnect, SetSource): streams are opened one at a time, with the server
\* wanted, and address and current server always belong to the stream.
THEOREM TunerImplementsLease == Spec => ImplementsLease
<1>1. Init => Lease!Init
  BY DEF Init, Lease!Init
<1>2. TypeOK /\ AddressInv /\ [Next]_vars => [Lease!Next]_(Lease!lease)
  BY LeaseStep
<1> QED
  BY <1>1, <1>2, TypeCorrect, AddressInvInductive, PTL
  DEF Spec, ImplementsLease, Lease!Spec

-----------------------------------------------------------------------------
\* Taking the first element off a sequence keeps its last one, or takes it.
LEMMA LastOfTail ==
  ASSUME NEW S, NEW seq \in Seq(S), seq # <<>>
  PROVE  IF Tail(seq) = <<>>
         THEN Head(seq) = seq[Len(seq)]
         ELSE Tail(seq)[Len(Tail(seq))] = seq[Len(seq)]
<1>1. Len(seq) \in Nat \ {0} /\ Head(seq) = seq[1]
  BY EmptySeq
<1>2. /\ Len(Tail(seq)) = Len(seq) - 1
      /\ Tail(seq) \in Seq(S)
      /\ \A i \in 1 .. Len(Tail(seq)) : Tail(seq)[i] = seq[i + 1]
  BY HeadTailProperties
<1>3. CASE Tail(seq) = <<>>
  <2>1. Len(Tail(seq)) = 0
    BY <1>3, EmptySeq
  <2>2. Len(seq) - 1 = 0
    BY <1>2, <2>1, Zenon
  <2>3. Len(seq) = 1
    BY <1>1, <2>2
  <2> QED
    BY <1>1, <1>3, <2>3, Zenon
<1>4. CASE Tail(seq) # <<>>
  <2>1. Len(Tail(seq)) \in 1 .. Len(Tail(seq))
    BY <1>2, <1>4, EmptySeq
  <2>2. Tail(seq)[Len(Tail(seq))] = seq[Len(Tail(seq)) + 1]
    BY <1>2, <2>1
  <2>3. Len(Tail(seq)) + 1 = Len(seq)
    BY <1>1, <1>2
  <2> QED
    BY <1>4, <2>2, <2>3
<1> QED
  BY <1>3, <1>4

\* A stream and a tsIdle at the end of the queue exist together only between
\* the end of Connect and the tsTuned requested right after it; and Connect
\* is left with a tsIdle queued only when it failed.
IdleInv ==
  /\ streamId # None /\ pc # "requestTuned" => LastRequested # "tsIdle"
  /\ pc = "requestIdle" => streamId = None

\* The last request queued is not tsIdle while there is a stream.
LEMMA IdleInvStep ==
  ASSUME TypeOK,
         AddressInv,
         IdleInv,
         [Next]_vars
  PROVE  IdleInv'
<1> USE DEF vars, thread, target, client, pidSets, remote, history,
    AddressInv, StreamIsAddressable, IdleInv, LastRequested, QueuesOK,
    AddressesOK, OrNone, TypeOK, States, Goto, RequestInternal,
    RequestExternal, Request, Disconnect, Teardown, ForgetStream, SetupDone
<1>1. CASE UpdateCurrentState
  <2>1. CASE internal # <<>>
    <3>1. /\ state' = Head(internal) /\ internal' = Tail(internal)
          /\ streamId' = streamId /\ pc' = "dispatch" /\ pc = "update"
      BY <1>1, <2>1 DEF UpdateCurrentState
    <3>2. LastRequested' = LastRequested
      BY <2>1, <3>1, LastOfTail
    <3> QED
      BY <3>1, <3>2
  <2>2. CASE internal = <<>> /\ external # <<>>
    <3>1. Head(external) \in {"tsSet", "tsRelease"}
      BY <2>2
    <3> QED
      BY <1>1, <2>2, <3>1 DEF UpdateCurrentState
  <2>3. CASE internal = <<>> /\ external = <<>>
    BY <1>1, <2>3 DEF UpdateCurrentState
  <2> QED
    BY <2>1, <2>2, <2>3
<1>2. CASE Idle
  BY <1>2 DEF Idle
<1>3. CASE Release
  BY <1>3 DEF Release
<1>4. CASE RequestIdle
  BY <1>4 DEF RequestIdle
<1>5. CASE Set
  BY <1>5 DEF Set
<1>6. CASE Retune
  BY <1>6 DEF Retune
<1>7. CASE Setup
  BY <1>7 DEF Setup
<1>8. CASE ConnectFailed
  BY <1>8 DEF ConnectFailed
<1>9. CASE RequestTuned
  BY <1>9 DEF RequestTuned
<1>10. CASE ForcePids
  BY <1>10 DEF ForcePids
<1>11. CASE Tuned
  BY <1>11 DEF Tuned
<1>12. CASE StatusRead
  BY <1>12 DEF StatusRead
<1>13. CASE StatusNotRead
  BY <1>13 DEF StatusNotRead
<1>14. CASE TunedLock
  BY <1>14 DEF TunedLock
<1>15. ASSUME NEW expired \in BOOLEAN, TuningTimeout(expired)
      PROVE  IdleInv'
  BY <1>15 DEF TuningTimeout
<1>16. CASE Locked
  BY <1>16 DEF Locked
<1>17. CASE KeepAlive
  BY <1>17 DEF KeepAlive
<1>18. CASE RequestSet
  BY <1>18 DEF RequestSet
<1>19. CASE NoData
  BY <1>19 DEF NoData
<1>20. CASE IdleCheck
  BY <1>20 DEF IdleCheck
<1>21. CASE Receive
  BY <1>21 DEF Receive
<1>22. ASSUME NEW s \in Servers, NEW p \in Params, SetSource(s, p)
      PROVE  IdleInv'
  BY <1>22 DEF SetSource
<1>23. ASSUME NEW p \in Pids, SetPid(p)
      PROVE  IdleInv'
  BY <1>23 DEF SetPid
<1>24. CASE Close
  BY <1>24 DEF Close
<1>25. CASE SetPowerSaveMode
  BY <1>25 DEF SetPowerSaveMode
<1>26. CASE ProcessApplicationData
  BY <1>26 DEF ProcessApplicationData
<1>27. CASE SessionLost
  BY <1>27 DEF SessionLost
<1>29. CASE UNCHANGED vars
  BY <1>29 DEF vars
<1> QED
  BY <1>1, <1>2, <1>3, <1>4, <1>5, <1>6, <1>7, <1>8, <1>9, <1>10, <1>11,
     <1>12, <1>13, <1>14, <1>15, <1>16, <1>17, <1>18, <1>19, <1>20, <1>21,
     <1>22, <1>23, <1>24, <1>25, <1>26, <1>27, <1>29
  DEF Next, Action, Calls, Environment

\* A stream never outlives a request for tsIdle, in every behaviour.
LEMMA IdleInvInductive == Spec => []IdleInv
<1>1. Init => IdleInv
  BY DEF Init, IdleInv
<1>2. TypeOK /\ AddressInv /\ IdleInv /\ [Next]_vars => IdleInv'
  BY IdleInvStep
<1> QED
  BY <1>1, <1>2, TypeCorrect, AddressInvInductive, PTL DEF Spec

\* A tuner that has become idle and has no request of its own left holds no
\* stream, although a tsSet may overtake the tsIdle of a release (tuner.c
\* Action, RequestState).
THEOREM IdleMeansNoStream == Spec => []IdleHasNoStream
<1>1. IdleInv => IdleHasNoStream
  BY DEF IdleInv, IdleHasNoStream, LastRequested
<1> QED
  BY <1>1, IdleInvInductive, PTL

-----------------------------------------------------------------------------

\* The lists of pending changes stay consistent.
LEMMA PidListsAgreeStep ==
  ASSUME PidListsAgree,
         [Next]_vars
  PROVE  PidListsAgree'
<1> USE DEF vars, thread, target, client, pidSets, remote, history,
    PidListsAgree, Disconnect, PidOn, PidOff, PidsNotDue, PidsDone,
    UpdatePidsOk, UpdatePidsFailed
<1>1. CASE UpdateCurrentState
  BY <1>1 DEF UpdateCurrentState
<1>2. CASE Idle
  BY <1>2 DEF Idle
<1>3. CASE Release
  BY <1>3 DEF Release
<1>4. CASE RequestIdle
  BY <1>4 DEF RequestIdle
<1>5. CASE Set
  BY <1>5 DEF Set
<1>6. CASE Retune
  BY <1>6 DEF Retune
<1>7. CASE Setup
  BY <1>7 DEF Setup
<1>8. CASE ConnectFailed
  BY <1>8 DEF ConnectFailed
<1>9. CASE RequestTuned
  BY <1>9 DEF RequestTuned
<1>10. CASE ForcePids
  BY <1>10 DEF ForcePids
<1>11. CASE Tuned
  BY <1>11 DEF Tuned
<1>12. CASE StatusRead
  BY <1>12 DEF StatusRead
<1>13. CASE StatusNotRead
  BY <1>13 DEF StatusNotRead
<1>14. CASE TunedLock
  BY <1>14 DEF TunedLock
<1>15. ASSUME NEW expired \in BOOLEAN, TuningTimeout(expired)
      PROVE  PidListsAgree'
  BY <1>15 DEF TuningTimeout
<1>16. CASE Locked
  BY <1>16 DEF Locked
<1>17. CASE KeepAlive
  BY <1>17 DEF KeepAlive
<1>18. CASE RequestSet
  BY <1>18 DEF RequestSet
<1>19. CASE NoData
  BY <1>19 DEF NoData
<1>20. CASE IdleCheck
  BY <1>20 DEF IdleCheck
<1>21. CASE Receive
  BY <1>21 DEF Receive
<1>22. ASSUME NEW s \in Servers, NEW p \in Params, SetSource(s, p)
      PROVE  PidListsAgree'
  BY <1>22 DEF SetSource
<1>23. ASSUME NEW p \in Pids, SetPid(p)
      PROVE  PidListsAgree'
  BY <1>23 DEF SetPid
<1>24. CASE Close
  BY <1>24 DEF Close
<1>25. CASE SetPowerSaveMode
  BY <1>25 DEF SetPowerSaveMode
<1>26. CASE ProcessApplicationData
  BY <1>26 DEF ProcessApplicationData
<1>27. CASE SessionLost
  BY <1>27 DEF SessionLost
<1>29. CASE UNCHANGED vars
  BY <1>29 DEF vars
<1> QED
  BY <1>1, <1>2, <1>3, <1>4, <1>5, <1>6, <1>7, <1>8, <1>9, <1>10, <1>11,
     <1>12, <1>13, <1>14, <1>15, <1>16, <1>17, <1>18, <1>19, <1>20, <1>21,
     <1>22, <1>23, <1>24, <1>25, <1>26, <1>27, <1>29
  DEF Next, Action, Calls, Environment

\* No step loses a wanted PID.
LEMMA NoPidMissingStep ==
  ASSUME TypeOK,
         AddressInv,
         PidListsAgree,
         NoPidMissing,
         [Next]_vars
  PROVE  NoPidMissing'
<1> USE DEF vars, thread, target, client, pidSets, remote, history,
    NoPidMissing, PidListsAgree, Unaddressed, AddressInv,
    StreamIsAddressable, DataOK, TypeOK, Goto, Disconnect, Teardown,
    ForgetStream, SetupDone, PidOn, PidOff
<1>1. CASE UpdateCurrentState
  BY <1>1 DEF UpdateCurrentState
<1>2. CASE Idle
  BY <1>2 DEF Idle
<1>3. CASE Release
  BY <1>3 DEF Release
<1>4. CASE RequestIdle
  BY <1>4 DEF RequestIdle
<1>5. CASE Set
  BY <1>5 DEF Set
<1>6. CASE Retune
  BY <1>6 DEF Retune
<1>7. CASE Setup
  BY <1>7 DEF Setup
<1>8. CASE ConnectFailed
  BY <1>8 DEF ConnectFailed
<1>9. CASE RequestTuned
  BY <1>9 DEF RequestTuned
<1>10. CASE ForcePids
  BY <1>10 DEF ForcePids, UpdatePidsOk, UpdatePidsFailed, PidsNotDue,
      PidsDue, PidsDone, AfterPlay, FullList
<1>11. CASE Tuned
  BY <1>11 DEF Tuned
<1>12. CASE StatusRead
  BY <1>12 DEF StatusRead
<1>13. CASE StatusNotRead
  BY <1>13 DEF StatusNotRead
<1>14. CASE TunedLock
  BY <1>14 DEF TunedLock
<1>15. ASSUME NEW expired \in BOOLEAN, TuningTimeout(expired)
      PROVE  NoPidMissing'
  BY <1>15 DEF TuningTimeout
<1>16. CASE Locked
  BY <1>16 DEF Locked, UpdatePidsOk, UpdatePidsFailed, PidsNotDue,
      PidsDue, PidsDone, AfterPlay, FullList
<1>17. CASE KeepAlive
  BY <1>17 DEF KeepAlive
<1>18. CASE RequestSet
  BY <1>18 DEF RequestSet
<1>19. CASE NoData
  BY <1>19 DEF NoData
<1>20. CASE IdleCheck
  BY <1>20 DEF IdleCheck
<1>21. CASE Receive
  BY <1>21 DEF Receive
<1>22. ASSUME NEW s \in Servers, NEW p \in Params, SetSource(s, p)
      PROVE  NoPidMissing'
  BY <1>22 DEF SetSource
<1>23. ASSUME NEW p \in Pids, SetPid(p)
      PROVE  NoPidMissing'
  BY <1>23 DEF SetPid
<1>24. CASE Close
  BY <1>24 DEF Close
<1>25. CASE SetPowerSaveMode
  BY <1>25 DEF SetPowerSaveMode
<1>26. CASE ProcessApplicationData
  BY <1>26 DEF ProcessApplicationData
<1>27. CASE SessionLost
  BY <1>27 DEF SessionLost
<1>29. CASE UNCHANGED vars
  BY <1>29 DEF vars
<1> QED
  BY <1>1, <1>2, <1>3, <1>4, <1>5, <1>6, <1>7, <1>8, <1>9, <1>10, <1>11,
     <1>12, <1>13, <1>14, <1>15, <1>16, <1>17, <1>18, <1>19, <1>20, <1>21,
     <1>22, <1>23, <1>24, <1>25, <1>26, <1>27, <1>29
  DEF Next, Action, Calls, Environment

\* The pending additions are wanted PIDs and the pending deletions are not
\* (tuner.c SetPid, UpdatePids, Disconnect).
THEOREM PidListsConsistent == Spec => []PidListsAgree
<1>1. Init => PidListsAgree
  BY DEF Init, PidListsAgree
<1>2. PidListsAgree /\ [Next]_vars => PidListsAgree'
  BY PidListsAgreeStep
<1> QED
  BY <1>1, <1>2, PTL DEF Spec

\* Every wanted PID is being delivered or waits in addPids, unless the forced
\* update that carried it failed or a PLAY naming it was answered by 403 (tuner.c
\* SetPid, UpdatePids, Connect).
THEOREM NoPidLost == Spec => []NoPidMissing
<1>1. Init => NoPidMissing
  BY DEF Init, NoPidMissing
<1>2. /\ TypeOK /\ AddressInv /\ PidListsAgree /\ NoPidMissing
      /\ [Next]_vars
      => NoPidMissing'
  BY NoPidMissingStep
<1> QED
  BY <1>1, <1>2, TypeCorrect, AddressInvInductive, PidListsConsistent, PTL
  DEF Spec

-----------------------------------------------------------------------------
\* Unless a 403 was taken for a SETUP done, the device's frontend marks live
\* exactly as long as a stream, or until the Disconnect after a failed Connect.
AttachInv ==
  "setup" \in forbade
  \/ /\ attached \subseteq {currentServer}
     /\ streamId = None /\ pc # "connectFailed" => attached = {}

\* Each Attach is met by the Detach of a Disconnect.
LEMMA AttachInvStep ==
  ASSUME TypeOK,
         AddressInv,
         AttachInv,
         [Next]_vars
  PROVE  AttachInv'
<1> USE DEF vars, thread, target, client, pidSets, remote, history,
    AttachInv, AddressInv, StreamIsAddressable,
    ConnectKnowsServer, AddressesOK, OrNone, TypeOK, Goto, Disconnect,
    Teardown, ForgetStream, SetupDone, Forbidden
<1>1. CASE UpdateCurrentState
  BY <1>1 DEF UpdateCurrentState
<1>2. CASE Idle
  BY <1>2 DEF Idle
<1>3. CASE Release
  BY <1>3 DEF Release
<1>4. CASE RequestIdle
  BY <1>4 DEF RequestIdle
<1>5. CASE Set
  BY <1>5 DEF Set
<1>6. CASE Retune
  BY <1>6 DEF Retune
<1>7. CASE Setup
  BY <1>7, TunerAssumption DEF Setup
<1>8. CASE ConnectFailed
  BY <1>8 DEF ConnectFailed
<1>9. CASE RequestTuned
  BY <1>9 DEF RequestTuned
<1>10. CASE ForcePids
  BY <1>10 DEF ForcePids
<1>11. CASE Tuned
  BY <1>11 DEF Tuned
<1>12. CASE StatusRead
  BY <1>12 DEF StatusRead
<1>13. CASE StatusNotRead
  BY <1>13 DEF StatusNotRead
<1>14. CASE TunedLock
  BY <1>14 DEF TunedLock
<1>15. ASSUME NEW expired \in BOOLEAN, TuningTimeout(expired)
      PROVE  AttachInv'
  BY <1>15 DEF TuningTimeout
<1>16. CASE Locked
  BY <1>16 DEF Locked
<1>17. CASE KeepAlive
  BY <1>17 DEF KeepAlive
<1>18. CASE RequestSet
  BY <1>18 DEF RequestSet
<1>19. CASE NoData
  BY <1>19 DEF NoData
<1>20. CASE IdleCheck
  BY <1>20 DEF IdleCheck
<1>21. CASE Receive
  BY <1>21 DEF Receive
<1>22. ASSUME NEW s \in Servers, NEW p \in Params, SetSource(s, p)
      PROVE  AttachInv'
  BY <1>22 DEF SetSource
<1>23. ASSUME NEW p \in Pids, SetPid(p)
      PROVE  AttachInv'
  BY <1>23 DEF SetPid
<1>24. CASE Close
  BY <1>24 DEF Close
<1>25. CASE SetPowerSaveMode
  BY <1>25 DEF SetPowerSaveMode
<1>26. CASE ProcessApplicationData
  BY <1>26 DEF ProcessApplicationData
<1>27. CASE SessionLost
  BY <1>27 DEF SessionLost
<1>29. CASE UNCHANGED vars
  BY <1>29 DEF vars
<1> QED
  BY <1>1, <1>2, <1>3, <1>4, <1>5, <1>6, <1>7, <1>8, <1>9, <1>10, <1>11,
     <1>12, <1>13, <1>14, <1>15, <1>16, <1>17, <1>18, <1>19, <1>20, <1>21,
     <1>22, <1>23, <1>24, <1>25, <1>26, <1>27, <1>29
  DEF Next, Action, Calls, Environment

\* Only the frontends of the current server are marked as used by this device,
\* unless a 403 answer was taken for a SETUP that is done (tuner.c Connect,
\* Disconnect, rtsp.c ValidateLatestResponse).
THEOREM AttachedToCurrent == Spec => []AttachedIsCurrent
<1>1. Init => AttachInv
  BY DEF Init, AttachInv
<1>2. TypeOK /\ AddressInv /\ AttachInv /\ [Next]_vars => AttachInv'
  BY AttachInvStep
<1>3. AttachInv => AttachedIsCurrent
  BY DEF AttachInv, AttachedIsCurrent
<1> QED
  BY <1>1, <1>2, <1>3, TypeCorrect, AddressInvInductive, PTL DEF Spec
=============================================================================
