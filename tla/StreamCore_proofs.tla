-------------------------- MODULE StreamCore_proofs --------------------------
(***************************************************************************)
(* Proofs about StreamCore: the invariants of the lifecycle hold in every  *)
(* state.  The module has no constants, so TLC's run is exhaustive too;    *)
(* the proof adds why they hold, in the strengthening they need:           *)
(* FreshIsQuiet, FirstConnectIsAlone, PartsInUse and TearDownSteps.        *)
(***************************************************************************)
EXTENDS StreamCore, TLAPS

(* The groups of variables, and the sets that guards test against. *)
USE DEF control, retry, backend, history, States, Active, WorkerJoined

(* Each action keeps the types. *)
LEMMA TypeStep == TypeOK /\ [Next]_vars => TypeOK'
  <1> SUFFICES ASSUME TypeOK, [Next]_vars
               PROVE  TypeOK'
    OBVIOUS
  <1> USE DEF TypeOK
  <1>1. CASE StreamInit
    BY <1>1 DEF StreamInit, UpdateStatus, HoldingStatus
  <1>2. CASE StreamInitFails
    BY <1>2 DEF StreamInitFails, UpdateStatus, HoldingStatus
  <1>3. CASE Start
    <2>1. /\ releasing' \in BOOLEAN /\ stop' \in BOOLEAN /\ armed' \in BOOLEAN
          /\ arming' \in BOOLEAN /\ retrying' \in BOOLEAN /\ built' \in BOOLEAN
          /\ framed' \in BOOLEAN /\ stopped' \in BOOLEAN /\ torndown' \in BOOLEAN
      BY <1>3, Zenon DEF Start, NewSession
    <2>2. QED
      BY <1>3, <2>1 DEF Start, UpdateStatus, HoldingStatus, NewSession
  <1>4. CASE Stop
    BY <1>4 DEF Stop, HoldingStatus
  <1>5. CASE StopIgnored
    BY <1>5 DEF StopIgnored, HoldingStatus
  <1>6. CASE Release
    BY <1>6 DEF Release, HoldingStatus
  <1>7. CASE SendVideo
    BY <1>7 DEF SendVideo, FrameSent
  <1>8. CASE StartConnected
    BY <1>8 DEF StartConnected
  <1>9. CASE StartReports
    BY <1>9 DEF StartReports, UpdateStatus, HoldingStatus
  <1>10. CASE SendReports
    BY <1>10 DEF SendReports, UpdateStatus, HoldingStatus
  <1>11. CASE StartConnectFails
    BY <1>11 DEF StartConnectFails
  <1>12. CASE ScheduleReconnect
    BY <1>12 DEF ScheduleReconnect
  <1>13. CASE StartReportsRetry
    BY <1>13 DEF StartReportsRetry, UpdateStatus, HoldingStatus
  <1>14. CASE StopStopsWorker
    <2>1. /\ releasing' \in BOOLEAN /\ stop' \in BOOLEAN /\ armed' \in BOOLEAN
          /\ arming' \in BOOLEAN /\ retrying' \in BOOLEAN /\ built' \in BOOLEAN
          /\ framed' \in BOOLEAN /\ stopped' \in BOOLEAN /\ torndown' \in BOOLEAN
      BY <1>14, Zenon DEF StopStopsWorker, StopReconnectWorker
    <2>2. QED
      BY <1>14, <2>1 DEF StopStopsWorker, StopReconnectWorker
  <1>15. CASE StopDisconnects
    BY <1>15 DEF StopDisconnects, UpdateStatus, HoldingStatus
  <1>16. CASE StopReturns
    BY <1>16 DEF StopReturns, UpdateStatus, HoldingStatus
  <1>17. CASE ReleaseStops
    BY <1>17 DEF ReleaseStops, HoldingStatus
  <1>18. CASE ReleaseStopsWorker
    <2>1. /\ releasing' \in BOOLEAN /\ stop' \in BOOLEAN /\ armed' \in BOOLEAN
          /\ arming' \in BOOLEAN /\ retrying' \in BOOLEAN /\ built' \in BOOLEAN
          /\ framed' \in BOOLEAN /\ stopped' \in BOOLEAN /\ torndown' \in BOOLEAN
      BY <1>18, Zenon DEF ReleaseStopsWorker, StopReconnectWorker
    <2>2. QED
      BY <1>18, <2>1 DEF ReleaseStopsWorker, StopReconnectWorker
  <1>19. CASE ReleaseResets
    BY <1>19 DEF ReleaseResets, UpdateStatus, HoldingStatus
  <1>20. CASE ReleaseReturns
    BY <1>20 DEF ReleaseReturns, UpdateStatus, HoldingStatus
  <1>21. CASE WorkerExits
    BY <1>21 DEF WorkerExits
  <1>22. CASE WorkerTicks
    BY <1>22 DEF WorkerTicks
  <1>23. CASE WorkerNotDue
    BY <1>23 DEF WorkerNotDue
  <1>24. CASE WorkerRetries
    <2>1. /\ releasing' \in BOOLEAN /\ stop' \in BOOLEAN /\ armed' \in BOOLEAN
          /\ arming' \in BOOLEAN /\ retrying' \in BOOLEAN /\ built' \in BOOLEAN
          /\ framed' \in BOOLEAN /\ stopped' \in BOOLEAN /\ torndown' \in BOOLEAN
      BY <1>24, Zenon DEF WorkerRetries, NewSession
    <2>2. QED
      BY <1>24, <2>1 DEF WorkerRetries, NewSession
  <1>25. CASE WorkerConnected
    BY <1>25 DEF WorkerConnected
  <1>26. CASE WorkerConnectFails
    BY <1>26 DEF WorkerConnectFails
  <1>27. CASE WorkerDisarms
    <2>1. /\ releasing' \in BOOLEAN /\ stop' \in BOOLEAN /\ armed' \in BOOLEAN
          /\ arming' \in BOOLEAN /\ retrying' \in BOOLEAN /\ built' \in BOOLEAN
          /\ framed' \in BOOLEAN /\ stopped' \in BOOLEAN /\ torndown' \in BOOLEAN
      BY <1>27, Zenon DEF WorkerDisarms
    <2>2. QED
      BY <1>27, <2>1 DEF WorkerDisarms
  <1>28. CASE WorkerReports
    BY <1>28 DEF WorkerReports, UpdateStatus, HoldingStatus
  <1>29. CASE Connecting
    BY <1>29 DEF Connecting, Session
  <1>30. CASE Connects
    BY <1>30 DEF Connects, Session
  <1>31. CASE Interrupted
    BY <1>31 DEF Interrupted, Session
  <1>32. CASE Failed
    BY <1>32 DEF Failed, Session
  <1>33. CASE Closed
    BY <1>33 DEF Closed, Session
  <1>34. CASE TrackOpens
    BY <1>34 DEF TrackOpens, FrameSent
  <1>35. CASE Deliver
    BY <1>35 DEF Deliver, HoldingStatus, IsDrop
  <1>36. CASE DeliverDrop
    BY <1>36 DEF DeliverDrop, HoldingStatus, IsDrop
  <1>37. CASE Arm
    <2>1. /\ releasing' \in BOOLEAN /\ stop' \in BOOLEAN /\ armed' \in BOOLEAN
          /\ arming' \in BOOLEAN /\ retrying' \in BOOLEAN /\ built' \in BOOLEAN
          /\ framed' \in BOOLEAN /\ stopped' \in BOOLEAN /\ torndown' \in BOOLEAN
      BY <1>37, Zenon DEF Arm
    <2>2. QED
      BY <1>37, <2>1 DEF Arm
  <1>38. CASE Done \/ UNCHANGED vars
    BY <1>38 DEF Done, vars
  <1> QED
    BY <1>1, <1>2, <1>3, <1>4, <1>5, <1>6, <1>7, <1>8, <1>9, <1>10,
       <1>11, <1>12, <1>13, <1>14, <1>15, <1>16, <1>17, <1>18, <1>19,
       <1>20, <1>21, <1>22, <1>23, <1>24, <1>25, <1>26, <1>27, <1>28,
       <1>29, <1>30, <1>31, <1>32, <1>33, <1>34, <1>35, <1>36, <1>37,
       <1>38
       DEF Next, Calls, CallSteps, Worker, Transport, Callback

(* The safety part of LifecycleInv, one named part after the other. *)
LEMMA LifecycleStep == LifecycleInv /\ [Next]_vars => LifecycleInv'
  <1> SUFFICES ASSUME LifecycleInv, TypeOK', [Next]_vars
               PROVE  LifecycleInv'
    BY TypeStep DEF LifecycleInv
  <1> USE DEF LifecycleInv, TypeOK, WorkerHasItsParts, OneConnectAtATime,
              TearDownIsFinal, FreshIsQuiet,
              FirstConnectIsAlone, PartsInUse, TearDownSteps
  <1>1. CASE StreamInit
    BY <1>1 DEF StreamInit, UpdateStatus, HoldingStatus
  <1>2. CASE StreamInitFails
    BY <1>2 DEF StreamInitFails, UpdateStatus, HoldingStatus
  <1>3. CASE Start
    BY <1>3 DEF Start, UpdateStatus, HoldingStatus, NewSession
  <1>4. CASE Stop
    BY <1>4 DEF Stop, HoldingStatus
  <1>5. CASE StopIgnored
    BY <1>5 DEF StopIgnored, HoldingStatus
  <1>6. CASE Release
    BY <1>6 DEF Release, HoldingStatus
  <1>7. CASE SendVideo
    BY <1>7 DEF SendVideo, FrameSent
  <1>8. CASE StartConnected
    BY <1>8 DEF StartConnected
  <1>9. CASE StartReports
    BY <1>9 DEF StartReports, UpdateStatus, HoldingStatus
  <1>10. CASE SendReports
    BY <1>10 DEF SendReports, UpdateStatus, HoldingStatus
  <1>11. CASE StartConnectFails
    BY <1>11 DEF StartConnectFails
  <1>12. CASE ScheduleReconnect
    BY <1>12 DEF ScheduleReconnect
  <1>13. CASE StartReportsRetry
    BY <1>13 DEF StartReportsRetry, UpdateStatus, HoldingStatus
  <1>14. CASE StopStopsWorker
    <2>1. WorkerHasItsParts'
      BY <1>14 DEF StopStopsWorker, StopReconnectWorker
    <2>2. OneConnectAtATime'
      BY <1>14 DEF StopStopsWorker, StopReconnectWorker
    <2>3. TearDownIsFinal'
      BY <1>14 DEF StopStopsWorker, StopReconnectWorker
    <2>4. FreshIsQuiet'
      BY <1>14 DEF StopStopsWorker, StopReconnectWorker
    <2>5. FirstConnectIsAlone'
      BY <1>14 DEF StopStopsWorker, StopReconnectWorker
    <2>6. PartsInUse'
      BY <1>14 DEF StopStopsWorker, StopReconnectWorker
    <2>7. TearDownSteps'
      BY <1>14 DEF StopStopsWorker, StopReconnectWorker
    <2> QED
      BY <2>1, <2>2, <2>3, <2>4, <2>5, <2>6, <2>7
  <1>15. CASE StopDisconnects
    BY <1>15 DEF StopDisconnects, UpdateStatus, HoldingStatus
  <1>16. CASE StopReturns
    BY <1>16 DEF StopReturns, UpdateStatus, HoldingStatus
  <1>17. CASE ReleaseStops
    BY <1>17 DEF ReleaseStops, HoldingStatus
  <1>18. CASE ReleaseStopsWorker
    <2>1. WorkerHasItsParts'
      BY <1>18 DEF ReleaseStopsWorker, StopReconnectWorker
    <2>2. OneConnectAtATime'
      BY <1>18 DEF ReleaseStopsWorker, StopReconnectWorker
    <2>3. TearDownIsFinal'
      BY <1>18 DEF ReleaseStopsWorker, StopReconnectWorker
    <2>4. FreshIsQuiet'
      BY <1>18 DEF ReleaseStopsWorker, StopReconnectWorker
    <2>5. FirstConnectIsAlone'
      BY <1>18 DEF ReleaseStopsWorker, StopReconnectWorker
    <2>6. PartsInUse'
      BY <1>18 DEF ReleaseStopsWorker, StopReconnectWorker
    <2>7. TearDownSteps'
      BY <1>18 DEF ReleaseStopsWorker, StopReconnectWorker
    <2> QED
      BY <2>1, <2>2, <2>3, <2>4, <2>5, <2>6, <2>7
  <1>19. CASE ReleaseResets
    <2>1. WorkerHasItsParts'
      BY <1>19 DEF ReleaseResets, UpdateStatus, HoldingStatus
    <2>2. OneConnectAtATime'
      BY <1>19 DEF ReleaseResets, UpdateStatus, HoldingStatus
    <2>3. TearDownIsFinal'
      BY <1>19 DEF ReleaseResets, UpdateStatus, HoldingStatus
    <2>4. FreshIsQuiet'
      BY <1>19 DEF ReleaseResets, UpdateStatus, HoldingStatus
    <2>5. FirstConnectIsAlone'
      BY <1>19 DEF ReleaseResets, UpdateStatus, HoldingStatus
    <2>6. PartsInUse'
      BY <1>19 DEF ReleaseResets, UpdateStatus, HoldingStatus
    <2>7. TearDownSteps'
      BY <1>19 DEF ReleaseResets, UpdateStatus, HoldingStatus
    <2> QED
      BY <2>1, <2>2, <2>3, <2>4, <2>5, <2>6, <2>7
  <1>20. CASE ReleaseReturns
    BY <1>20 DEF ReleaseReturns, UpdateStatus, HoldingStatus
  <1>21. CASE WorkerExits
    BY <1>21 DEF WorkerExits
  <1>22. CASE WorkerTicks
    BY <1>22 DEF WorkerTicks
  <1>23. CASE WorkerNotDue
    BY <1>23 DEF WorkerNotDue
  <1>24. CASE WorkerRetries
    <2>1. WorkerHasItsParts'
      BY <1>24 DEF WorkerRetries, NewSession
    <2>2. OneConnectAtATime'
      BY <1>24 DEF WorkerRetries, NewSession
    <2>3. TearDownIsFinal'
      BY <1>24 DEF WorkerRetries, NewSession
    <2>4. FreshIsQuiet'
      BY <1>24 DEF WorkerRetries, NewSession
    <2>5. FirstConnectIsAlone'
      BY <1>24 DEF WorkerRetries, NewSession
    <2>6. PartsInUse'
      BY <1>24 DEF WorkerRetries, NewSession
    <2>7. TearDownSteps'
      BY <1>24 DEF WorkerRetries, NewSession
    <2> QED
      BY <2>1, <2>2, <2>3, <2>4, <2>5, <2>6, <2>7
  <1>25. CASE WorkerConnected
    BY <1>25 DEF WorkerConnected
  <1>26. CASE WorkerConnectFails
    BY <1>26 DEF WorkerConnectFails
  <1>27. CASE WorkerDisarms
    <2>1. WorkerHasItsParts'
      BY <1>27 DEF WorkerDisarms
    <2>2. OneConnectAtATime'
      BY <1>27 DEF WorkerDisarms
    <2>3. TearDownIsFinal'
      BY <1>27 DEF WorkerDisarms
    <2>4. FreshIsQuiet'
      BY <1>27 DEF WorkerDisarms
    <2>5. FirstConnectIsAlone'
      BY <1>27 DEF WorkerDisarms
    <2>6. PartsInUse'
      BY <1>27 DEF WorkerDisarms
    <2>7. TearDownSteps'
      BY <1>27 DEF WorkerDisarms
    <2> QED
      BY <2>1, <2>2, <2>3, <2>4, <2>5, <2>6, <2>7
  <1>28. CASE WorkerReports
    BY <1>28 DEF WorkerReports, UpdateStatus, HoldingStatus
  <1>29. CASE Connecting
    BY <1>29 DEF Connecting, Session
  <1>30. CASE Connects
    BY <1>30 DEF Connects, Session
  <1>31. CASE Interrupted
    BY <1>31 DEF Interrupted, Session
  <1>32. CASE Failed
    BY <1>32 DEF Failed, Session
  <1>33. CASE Closed
    BY <1>33 DEF Closed, Session
  <1>34. CASE TrackOpens
    BY <1>34 DEF TrackOpens, FrameSent
  <1>35. CASE Deliver
    BY <1>35 DEF Deliver, HoldingStatus, IsDrop
  <1>36. CASE DeliverDrop
    BY <1>36 DEF DeliverDrop, HoldingStatus, IsDrop
  <1>37. CASE Arm
    <2>1. WorkerHasItsParts'
      BY <1>37 DEF Arm
    <2>2. OneConnectAtATime'
      BY <1>37 DEF Arm
    <2>3. TearDownIsFinal'
      BY <1>37 DEF Arm
    <2>4. FreshIsQuiet'
      BY <1>37 DEF Arm
    <2>5. FirstConnectIsAlone'
      BY <1>37 DEF Arm
    <2>6. PartsInUse'
      BY <1>37 DEF Arm
    <2>7. TearDownSteps'
      BY <1>37 DEF Arm
    <2> QED
      BY <2>1, <2>2, <2>3, <2>4, <2>5, <2>6, <2>7
  <1>38. CASE Done \/ UNCHANGED vars
    BY <1>38 DEF Done, vars
  <1> QED
    BY <1>1, <1>2, <1>3, <1>4, <1>5, <1>6, <1>7, <1>8, <1>9, <1>10,
       <1>11, <1>12, <1>13, <1>14, <1>15, <1>16, <1>17, <1>18, <1>19,
       <1>20, <1>21, <1>22, <1>23, <1>24, <1>25, <1>26, <1>27, <1>28,
       <1>29, <1>30, <1>31, <1>32, <1>33, <1>34, <1>35, <1>36, <1>37,
       <1>38
       DEF Next, Calls, CallSteps, Worker, Transport, Callback

(* A stream that was only constructed satisfies all of them.               *)
LEMMA LifecycleInit == Init => LifecycleInv
  BY DEF Init, LifecycleInv, TypeOK, WorkerHasItsParts, OneConnectAtATime,
         TearDownIsFinal, FreshIsQuiet,
         FirstConnectIsAlone, PartsInUse, TearDownSteps

(* In every state of the lifecycle, whatever the interleaving of the       *)
(* caller, the worker and the transport: the worker has the parts it uses, *)
(* two Connects never overlap, and a teardown is final.                    *)
THEOREM LifecycleIsSafe == Spec => []LifecycleInv
  BY LifecycleInit, LifecycleStep, PTL DEF Spec

(* Once a Stop of an active stream or a Release has returned, there is no  *)
(* session, and no worker to make one (TearDownIsFinal); the worker never  *)
(* outlives its handler and backend (WorkerHasItsParts); no two Connects   *)
(* of one backend overlap (OneConnectAtATime).                             *)
THEOREM TearDownIsSafe ==
    Spec => [](TearDownIsFinal /\ WorkerHasItsParts /\ OneConnectAtATime)
  <1>1. LifecycleInv => TearDownIsFinal /\ WorkerHasItsParts /\ OneConnectAtATime
    BY DEF LifecycleInv
  <1> QED
    BY <1>1, LifecycleIsSafe, PTL

(* Every variable of the lifecycle keeps its type.                         *)
THEOREM LifecycleIsTyped == Spec => []TypeOK
  BY LifecycleIsSafe, PTL DEF LifecycleInv

(* The worker is joined before its handler and backend go, and nothing is  *)
(* armed without a worker.                                                 *)
THEOREM WorkersHaveTheirParts == Spec => []WorkerHasItsParts
  BY LifecycleIsSafe, PTL DEF LifecycleInv

(* No Connect of a backend overlaps another one or its Disconnect.         *)
THEOREM ConnectsAreAlone == Spec => []OneConnectAtATime
  BY LifecycleIsSafe, PTL DEF LifecycleInv

-----------------------------------------------------------------------------
(* The safety part of CallsReturn and ArmedIsAttempted: what fairness then *)
(* needs, a measure that every step of a call lowers, and an armed flag    *)
(* that nobody clears.                                                     *)

(* How many steps a call of Start, SendVideo, Stop or Release is from its  *)
(* return, at most.                                                        *)
CallWork ==
    CASE user \in {"sending", "connected", "scheduled", "destroying"} -> 1
      [] user \in {"connectFailed", "releaseJoining"} -> 2
      [] user \in {"connecting", "releasing"} -> 3
      [] user = "disconnected" -> 4
      [] user = "joining" -> 5
      [] user = "stopping" -> 6
      [] user = "releaseActive" -> 7
      [] OTHER -> 0

(* How many steps a worker that was told to stop is from its exit. *)
WorkerWork ==
    CASE worker = "ticking" -> 5
      [] worker = "connecting" -> 4
      [] worker = "connected" -> 3
      [] worker = "reporting" -> 2
      [] worker = "waiting" -> 1
      [] OTHER -> 0

(* Every step of a call brings it nearer to its return, and no other       *)
(* thread takes it back; while a call joins the worker, stop stays set and *)
(* every step of the worker brings it nearer to its exit (stream_impl.cc,  *)
(* StopReconnectWorker and RunReconnectWorker).                            *)
CallsMakeHeadway ==
    [][ /\ user \notin {"idle", "released"} => CallWork' <= CallWork
        /\ CallSteps => CallWork' < CallWork
        /\ user \in {"joining", "releaseJoining"} =>
               /\ stop' /\ WorkerWork' <= WorkerWork
               /\ Worker => WorkerWork' < WorkerWork ]_vars

(* A reconnect that was armed is disarmed by a Connect that succeeded or   *)
(* by a stop, and by nothing else.                                         *)
ArmedIsKept == [][armed => armed' \/ stop' \/ worker = "connected"]_vars

(* A step of a call is one down in CallWork, or more. *)
LEMMA CallStepsDescend ==
    ASSUME TypeOK, CallSteps
    PROVE  CallWork' < CallWork
  <1> USE DEF CallWork
  <1>1. CASE StartConnected \/ StartReports \/ SendReports
    BY <1>1 DEF StartConnected, StartReports, SendReports
  <1>2. CASE StartConnectFails \/ ScheduleReconnect \/ StartReportsRetry
    BY <1>2 DEF StartConnectFails, ScheduleReconnect, StartReportsRetry
  <1>3. CASE StopStopsWorker \/ StopDisconnects \/ StopReturns
    BY <1>3 DEF StopStopsWorker, StopDisconnects, StopReturns
  <1>4. CASE ReleaseStops \/ ReleaseStopsWorker
    BY <1>4 DEF ReleaseStops, ReleaseStopsWorker
  <1>5. CASE ReleaseResets \/ ReleaseReturns
    BY <1>5 DEF ReleaseResets, ReleaseReturns
  <1> QED
    BY <1>1, <1>2, <1>3, <1>4, <1>5 DEF CallSteps

(* Only the caller moves the caller, and it calls nothing inside a call. *)
LEMMA OthersLeaveTheCall ==
    ASSUME [Next]_vars, user \notin {"idle", "released"}
    PROVE  CallSteps \/ user' = user
  <1>1. CASE Calls
    BY <1>1 DEF Calls, StreamInit, StreamInitFails, Start, Stop, StopIgnored,
                Release, SendVideo
  <1>2. CASE Worker
    BY <1>2 DEF Worker, WorkerExits, WorkerTicks, WorkerNotDue, WorkerRetries,
                WorkerConnected, WorkerConnectFails, WorkerDisarms, WorkerReports
  <1>3. CASE Transport
    BY <1>3 DEF Transport, Connecting, Connects, Interrupted, Failed, Closed,
                Session, TrackOpens
  <1>4. CASE Callback
    BY <1>4 DEF Callback, Deliver, DeliverDrop, Arm
  <1>5. CASE Done \/ UNCHANGED vars
    BY <1>5 DEF Done, vars
  <1> QED
    BY <1>1, <1>2, <1>3, <1>4, <1>5 DEF Next

(* A worker that was told to stop goes one way, and nobody else moves it   *)
(* or takes the order back while a call waits for it.                      *)
LEMMA StoppedWorkerDescends ==
    ASSUME TypeOK, stop, user \in {"joining", "releaseJoining"}, [Next]_vars
    PROVE  /\ stop' /\ WorkerWork' <= WorkerWork
           /\ Worker => WorkerWork' < WorkerWork
  <1>1. ASSUME Worker
        PROVE  stop' = stop /\ WorkerWork' < WorkerWork
    <2>1. stop' = stop
      BY <1>1, Zenon
         DEF Worker, WorkerExits, WorkerTicks, WorkerNotDue, WorkerRetries,
             WorkerConnected, WorkerConnectFails, WorkerDisarms, WorkerReports
    <2>2. \/ worker = "waiting" /\ worker' = "exited"
          \/ worker = "ticking" /\ worker' \in {"waiting", "connecting"}
          \/ worker = "connecting" /\ worker' \in {"connected", "waiting"}
          \/ worker = "connected" /\ worker' = "reporting"
          \/ worker = "reporting" /\ worker' = "waiting"
      BY <1>1 DEF Worker, WorkerExits, WorkerTicks, WorkerNotDue, WorkerRetries,
                  WorkerConnected, WorkerConnectFails, WorkerDisarms,
                  WorkerReports
    <2>3. WorkerWork' < WorkerWork
      BY <2>2 DEF WorkerWork
    <2> QED
      BY <2>1, <2>3
  <1>2. ASSUME ~Worker
        PROVE  stop' = stop /\ worker' = worker
    <2>1. CASE Calls
      BY <2>1 DEF Calls, StreamInit, StreamInitFails, Start, Stop, StopIgnored,
                  Release, SendVideo
    <2>2. CASE CallSteps
      BY <2>2 DEF CallSteps, StartConnected, StartReports, SendReports,
                  StartConnectFails, ScheduleReconnect, StartReportsRetry,
                  StopStopsWorker, StopDisconnects, StopReturns,
                  ReleaseStops, ReleaseStopsWorker, ReleaseResets,
                  ReleaseReturns
    <2>3. CASE Transport
      BY <2>3 DEF Transport, Connecting, Connects, Interrupted, Failed, Closed,
                  Session, TrackOpens
    <2>4. CASE Callback
      BY <2>4 DEF Callback, Deliver, DeliverDrop, Arm
    <2>5. CASE Done \/ UNCHANGED vars
      BY <2>5 DEF Done, vars
    <2> QED
      BY <1>2, <2>1, <2>2, <2>3, <2>4, <2>5 DEF Next
  <1>3. WorkerWork \in 0..5
    BY DEF WorkerWork
  <1>4. CASE Worker
    <2>1. stop' /\ WorkerWork' < WorkerWork
      BY <1>1, <1>4
    <2>2. WorkerWork' \in 0..5
      BY DEF WorkerWork
    <2> QED
      BY <1>3, <2>1, <2>2
  <1>5. CASE ~Worker
    <2>1. stop' /\ WorkerWork' = WorkerWork
      BY <1>2, <1>5 DEF WorkerWork
    <2> QED
      BY <1>3, <1>5, <2>1
  <1> QED
    BY <1>4, <1>5

(* No call hangs on a measure that grows: each step of Start, Stop and     *)
(* Release, and of the worker they join, brings the return nearer.         *)
THEOREM CallsAreFinite == Spec => CallsMakeHeadway
  <1>1. ASSUME LifecycleInv, [Next]_vars
        PROVE  /\ user \notin {"idle", "released"} => CallWork' <= CallWork
               /\ CallSteps => CallWork' < CallWork
               /\ user \in {"joining", "releaseJoining"} =>
                      /\ stop' /\ WorkerWork' <= WorkerWork
                      /\ Worker => WorkerWork' < WorkerWork
    <2>1. /\ TypeOK
          /\ user \in {"joining", "releaseJoining"} => stop
      BY <1>1 DEF LifecycleInv, TearDownSteps
    <2>2. CallWork \in 0..7 /\ CallWork' \in 0..7
      BY DEF CallWork
    <2>3. CallSteps => CallWork' < CallWork
      BY <2>1, CallStepsDescend
    <2>4. user' = user => CallWork' = CallWork
      BY DEF CallWork
    <2>5. user \notin {"idle", "released"} => CallWork' <= CallWork
      BY <1>1, <2>2, <2>3, <2>4, OthersLeaveTheCall
    <2> QED
      BY <1>1, <2>1, <2>3, <2>5, StoppedWorkerDescends
  <1> QED
    BY <1>1, LifecycleIsSafe, PTL DEF Spec, CallsMakeHeadway

(* Nothing but a successful Connect of the worker, or a stop, disarms a    *)
(* reconnect: no report, no failed attempt and no tick that is not due.    *)
THEOREM ArmedReconnectIsKept == Spec => ArmedIsKept
  <1>1. ASSUME LifecycleInv, [Next]_vars, armed
        PROVE  armed' \/ stop' \/ worker = "connected"
    <2>1. CASE Calls
      BY <1>1, <2>1 DEF Calls, StreamInit, StreamInitFails, Start, Stop,
                        StopIgnored, Release, SendVideo, LifecycleInv,
                        FreshIsQuiet
    <2>2. CASE CallSteps
      BY <1>1, <2>2
         DEF CallSteps, StartConnected, StartReports, SendReports,
             StartConnectFails, ScheduleReconnect, StartReportsRetry,
             StopStopsWorker, StopReconnectWorker, StopDisconnects,
             StopReturns, ReleaseStops, ReleaseStopsWorker, ReleaseResets,
             ReleaseReturns
    <2>3. CASE Worker
      BY <1>1, <2>3
         DEF Worker, WorkerExits, WorkerTicks, WorkerNotDue, WorkerRetries,
             WorkerConnected, WorkerConnectFails, WorkerDisarms, WorkerReports
    <2>4. CASE Transport
      BY <1>1, <2>4 DEF Transport, Connecting, Connects, Interrupted, Failed,
                        Closed, Session, TrackOpens
    <2>5. CASE Callback
      BY <1>1, <2>5 DEF Callback, Deliver, DeliverDrop, Arm
    <2>6. CASE Done \/ UNCHANGED vars
      BY <1>1, <2>6 DEF Done, vars
    <2> QED
      BY <1>1, <2>1, <2>2, <2>3, <2>4, <2>5, <2>6 DEF Next
  <1> QED
    BY <1>1, LifecycleIsSafe, PTL DEF Spec, ArmedIsKept
=============================================================================
