---------------------- MODULE ExecutionSupervisorProofs ----------------------
(***************************************************************************)
(* TLAPS proofs about ExecutionSupervisor, for every number of rounds,     *)
(* confirmations, missed listings and interrupts (CleanupHappens: for at   *)
(* most one interrupt).                                                    *)
(***************************************************************************)
EXTENDS ExecutionSupervisor, TLAPS

\* The bookkeeping of a cleanup keeps its variables in their types.
LEMMA BeginCleanupType ==
  ASSUME TypeOK, NEW t \in Threads, BeginCleanup(t)
  PROVE  /\ pc' \in [Threads -> Locations]
         /\ round' \in [Threads -> 0 .. Rounds - 1]
         /\ absent' \in [Threads -> Nat]
BY RoundsAssumption DEF TypeOK, BeginCleanup, Goto, Locations, Cleaning

\* The verdict of a cleanup is a Boolean, and its caller goes on at a location.
LEMMA EndCleanupType ==
  ASSUME TypeOK, NEW t \in Threads, NEW ok \in BOOLEAN, EndCleanup(t, ok)
  PROVE  /\ pc' \in [Threads -> Locations]
         /\ stopLock' \in Threads \union {Free}
         /\ stopAttempted' \in BOOLEAN
         /\ cleanupConfirmed' \in BOOLEAN
<1>1. Returns \subseteq Locations
  BY DEF Returns, Locations, Finished, Preamble, Supervising, Unwinding, Cleaning,
         Scanning
<1>2. pc' \in [Threads -> Locations]
  BY <1>1 DEF TypeOK, EndCleanup, Goto
<1>3. stopLock' \in Threads \union {Free} /\ cleanupConfirmed' \in BOOLEAN
  BY DEF TypeOK, EndCleanup
<1>4. stopAttempted' \in BOOLEAN
  BY DEF EndCleanup
<1>5. QED
  BY <1>2, <1>3, <1>4

\* A further round stays within Rounds, or the cleanup ends.
LEMMA NextRoundType ==
  ASSUME TypeOK, NEW t \in Threads, NextRound(t)
  PROVE  /\ pc' \in [Threads -> Locations]
         /\ round' \in [Threads -> 0 .. Rounds - 1]
         /\ stopLock' \in Threads \union {Free}
         /\ stopAttempted' \in BOOLEAN
         /\ cleanupConfirmed' \in BOOLEAN
<1>1. CASE round[t] + 1 < Rounds
  BY <1>1, RoundsAssumption DEF TypeOK, NextRound, Goto, Locations, Cleaning
<1>2. CASE ~(round[t] + 1 < Rounds)
  BY <1>2, EndCleanupType DEF TypeOK, NextRound
<1>3. QED
  BY <1>1, <1>2

\* A cleanup step goes on with the next round or returns, and only a return
\* writes the verdict.  (the loop of _remove_named_container)
LEMMA NextRoundMoves ==
  ASSUME NEW t \in Threads, NextRound(t)
  PROVE  \/ pc' = [pc EXCEPT ![t] = "rm"] /\ cleanupConfirmed' = cleanupConfirmed
         \/ pc' = [pc EXCEPT ![t] = ret[t]] /\ (cleanupConfirmed' => cleanupConfirmed)
BY DEF NextRound, EndCleanup, Goto

\* `docker rm` leads to the query, to the next round, or out of the cleanup.
LEMMA RemoveMoves ==
  ASSUME NEW t \in Threads, RemoveContainer(t)
  PROVE  /\ UNCHANGED <<ret, client, daemonVars, callerVars>>
         /\ \/ /\ pc' = [pc EXCEPT ![t] = "ls"]
               /\ UNCHANGED <<cleanupConfirmed, absent>>
            \/ /\ pc' = [pc EXCEPT ![t] = "rm"] /\ cleanupConfirmed' = cleanupConfirmed
               /\ absent' = [absent EXCEPT ![t] = 0]
            \/ /\ pc' = [pc EXCEPT ![t] = ret[t]] /\ (cleanupConfirmed' => cleanupConfirmed)
               /\ absent' \in {absent, [absent EXCEPT ![t] = 0]}
<1>1. UNCHANGED <<ret, client, daemonVars, callerVars>>
  BY DEF RemoveContainer
<1>2. CASE Goto(t, "ls") /\ UNCHANGED <<absent, cleanupConfirmed>>
  BY <1>1, <1>2 DEF Goto
<1>3. CASE absent' = [absent EXCEPT ![t] = 0] /\ NextRound(t)
  BY <1>1, <1>3, NextRoundMoves
<1>4. CASE EndCleanup(t, FALSE) /\ UNCHANGED absent
  BY <1>1, <1>4 DEF EndCleanup, Goto
<1>5. QED
  BY <1>2, <1>3, <1>4 DEF RemoveContainer

\* The query leads to the next round or out of the cleanup.
LEMMA QueryMoves ==
  ASSUME NEW t \in Threads, QueryAbsence(t)
  PROVE  /\ UNCHANGED <<ret, client, container, over, callerVars>>
         /\ \/ pc' = [pc EXCEPT ![t] = "rm"]
            \/ pc' = [pc EXCEPT ![t] = ret[t]]
<1>1. UNCHANGED <<ret, client, container, over, callerVars>>
  BY DEF QueryAbsence
<1>2. CASE ListedAbsent(t)
  <2>1. CASE EndCleanup(t, TRUE)
    BY <1>1, <2>1 DEF EndCleanup, Goto
  <2>2. CASE NextRound(t)
    BY <1>1, <2>2, NextRoundMoves
  <2>3. QED
    BY <1>2, <2>1, <2>2 DEF ListedAbsent
<1>3. CASE NotListedAbsent(t)
  BY <1>1, <1>3, NextRoundMoves DEF NotListedAbsent
<1>4. QED
  BY <1>2, <1>3 DEF QueryAbsence

\* Every step keeps every variable in its type.
LEMMA TypeStep == TypeOK /\ WaitedInv /\ [Next]_vars => TypeOK'
<1> SUFFICES ASSUME TypeOK, WaitedInv, [Next]_vars PROVE TypeOK'
  OBVIOUS
<1> USE RoundsAssumption, MissesAssumption, ConfirmationsAssumption,
        InterruptsAssumption, StreamsAssumption
<1> USE DEF TypeOK, Goto, Threads, Main, Monitor, daemonVars, stopVars, monitorVars,
            drainVars, callerVars, cleanupVars, Locations, Finished, Preamble, Supervising,
            Unwinding, Cleaning, Scanning, Returns, Failures, ExitCodes, Statuses, Events
<1>1. CASE ValidateSpec
  BY <1>1 DEF ValidateSpec, Check, Return
<1>2. CASE ResolveBinary
  BY <1>2 DEF ResolveBinary, Check, Return
<1>3. CASE VerifyImage
  BY <1>3 DEF VerifyImage, Check, Return
<1>4. CASE PrepareAudit
  BY <1>4 DEF PrepareAudit, Check, Return
<1>5. CASE Preflight
  BY <1>5 DEF Preflight, Return, ScanOutcomes
<1>6. CASE Create
  BY <1>6 DEF Create, Return, CreateUnconfirmed
<1>7. CASE Created
  <2>1. /\ pc' \in [Threads -> Locations]
        /\ container' \in {"none", "pending", "created", "running", "exited", "gone"}
    BY <1>7 DEF Created, Return
  <2>2. containerId' \in BOOLEAN
    BY <1>7 DEF Created
  <2>3. result' \in [status : Statuses, exit : {"none"} \union ExitCodes,
                     events : SUBSET Events]
    BY <1>7 DEF Created, Return, CreateUnconfirmed
  <2>4. QED
    BY <1>7, <2>1, <2>2, <2>3 DEF Created
<1>8. CASE EnterStart
  BY <1>8 DEF EnterStart
<1>9. CASE Launch
  BY <1>9 DEF Launch, BeginCleanup
<1>10. CASE LaunchFailed
  BY <1>10 DEF LaunchFailed, Return
<1>11. CASE Spawn
  BY <1>11 DEF Spawn
<1>12. CASE SpawnRaises
  BY <1>12 DEF SpawnRaises, StartSome, CallStop
<1>13. CASE Wait
  BY <1>13 DEF Wait, Exited, CallStop
<1>14. CASE Signal
  BY <1>14 DEF Signal
<1>15. CASE JoinMonitor
  BY <1>15 DEF JoinMonitor
<1>16. CASE TakeFailure
  BY <1>16 DEF TakeFailure
<1>17. CASE CheckAlive
  BY <1>17 DEF CheckAlive, MonitorAlive
<1>18. CASE JoinDrainers
  BY <1>18 DEF JoinDrainers
<1>19. CASE Collect
  <2>1. pc' \in [Threads -> Locations] /\ ret' \in [Threads -> Returns]
    BY <1>19 DEF Collect, CallStop
  <2>2. diagnosed' \in SUBSET Streams /\ drainErrors' \in SUBSET Streams
    BY <1>19 DEF Collect
  <2>3. QED
    BY <1>19, <2>1, <2>2 DEF Collect
<1>20. CASE Conclude
  <2>1. PICK audit \in SUBSET {"audit"} : result' = Verdict(audit)
    BY <1>20 DEF Conclude
  <2>2. Verdict(audit) \in [status : Statuses, exit : {"none"} \union ExitCodes,
                            events : SUBSET Events]
    <3>1. CASE taken # "none"
      BY <3>1 DEF Verdict
    <3>2. CASE taken = "none" /\ waited = "timeout"
      BY <3>2 DEF Verdict
    <3>3. CASE taken = "none" /\ waited # "timeout"
      <4>1. waited \in ExitCodes
        BY <1>20, <3>3 DEF Conclude, WaitedInv, Judging
      <4>2. QED
        BY <3>3, <4>1 DEF Verdict
    <3>4. QED
      BY <3>1, <3>2, <3>3
  <2>3. QED
    BY <1>20, <2>1, <2>2 DEF Conclude
<1>21. CASE FailClosed
  BY <1>21 DEF FailClosed
<1>22. CASE Finally
  BY <1>22 DEF Finally, CallStop
<1>23. CASE JoinLate
  BY <1>23 DEF JoinLate
<1>24. CASE Close
  BY <1>24 DEF Close, Unwind, NoResult
<1>25. ASSUME NEW t \in Threads, Acquire(t) PROVE TypeOK'
  BY <1>25 DEF Acquire
<1>26. ASSUME NEW t \in Threads, TerminateClient(t) PROVE TypeOK'
  <2>1. client' \in {"none", "running"} \union ExitCodes
    BY <1>26 DEF TerminateClient
  <2>2. clientUnresolved' \in BOOLEAN
    BY <1>26 DEF TerminateClient, NoteTermination
  <2>3. QED
    BY <1>26, <2>1, <2>2, BeginCleanupType DEF TerminateClient
<1>27. ASSUME NEW t \in Threads, RemoveContainer(t) PROVE TypeOK'
  <2>0. removal' \in {"none", "unsent", "sent"}
    BY <1>27 DEF RemoveContainer, Unsent
  <2>1. CASE Goto(t, "ls") /\ UNCHANGED <<round, absent, stopLock, stopAttempted,
                                          cleanupConfirmed>>
    BY <1>27, <2>0, <2>1 DEF RemoveContainer
  <2>2. CASE absent' = [absent EXCEPT ![t] = 0] /\ NextRound(t)
    <3> HIDE DEF TypeOK
    <3>1. /\ pc' \in [Threads -> Locations]
          /\ round' \in [Threads -> 0 .. Rounds - 1]
          /\ stopLock' \in Threads \union {Free}
          /\ stopAttempted' \in BOOLEAN
          /\ cleanupConfirmed' \in BOOLEAN
      BY <2>2, NextRoundType
    <3>2. QED
      BY <1>27, <2>0, <2>2, <3>1 DEF RemoveContainer, TypeOK
  <2>3. CASE EndCleanup(t, FALSE) /\ UNCHANGED <<round, absent>>
    <3> HIDE DEF TypeOK
    <3>1. /\ pc' \in [Threads -> Locations]
          /\ stopLock' \in Threads \union {Free}
          /\ stopAttempted' \in BOOLEAN
          /\ cleanupConfirmed' \in BOOLEAN
      BY <2>3, EndCleanupType
    <3>2. QED
      BY <1>27, <2>0, <2>3, <3>1 DEF RemoveContainer, TypeOK
  <2>4. QED
    BY <1>27, <2>1, <2>2, <2>3 DEF RemoveContainer
<1>28. ASSUME NEW t \in Threads, QueryAbsence(t) PROVE TypeOK'
  <2>1. CASE ListedAbsent(t)
    <3>1. misses' \in 0 .. TransientMisses /\ absent' \in [Threads -> Nat]
      BY <2>1 DEF ListedAbsent
    <3>2. CASE EndCleanup(t, TRUE) /\ UNCHANGED round
      <4> HIDE DEF TypeOK
      <4>1. /\ pc' \in [Threads -> Locations]
            /\ stopLock' \in Threads \union {Free}
            /\ stopAttempted' \in BOOLEAN
            /\ cleanupConfirmed' \in BOOLEAN
        BY <3>2, EndCleanupType
      <4>2. QED
        BY <1>28, <3>1, <3>2, <4>1 DEF QueryAbsence, TypeOK
    <3>3. CASE NextRound(t)
      BY <1>28, <3>1, <3>3, NextRoundType DEF QueryAbsence
    <3>4. QED
      BY <2>1, <3>2, <3>3 DEF ListedAbsent
  <2>2. CASE NotListedAbsent(t)
    BY <1>28, <2>2, NextRoundType DEF QueryAbsence, NotListedAbsent
  <2>3. QED
    BY <1>28, <2>1, <2>2 DEF QueryAbsence
<1>29. CASE Scan
  BY <1>29 DEF Scan, ScanOutcomes, CallStop, Scanning
<1>30. CASE Pause
  BY <1>30 DEF Pause
<1>31. CASE PutFailure
  BY <1>31 DEF PutFailure
<1>32. ASSUME NEW s \in Streams, DrainerEnds(s) PROVE TypeOK'
  BY <1>32 DEF DrainerEnds
<1>33. ASSUME NEW s \in Streams, DrainerFails(s) PROVE TypeOK'
  BY <1>33 DEF DrainerFails
<1>34. CASE DaemonCreates
  BY <1>34 DEF DaemonCreates, Environment
<1>35. CASE DaemonStarts
  BY <1>35 DEF DaemonStarts, Environment
<1>36. CASE TargetExits
  BY <1>36 DEF TargetExits, Environment
<1>37. CASE DaemonRemoves
  BY <1>37 DEF DaemonRemoves, Environment
<1>38. CASE TargetWrites
  BY <1>38 DEF TargetWrites, Environment
<1>39. CASE ClientExits
  BY <1>39 DEF ClientExits, Environment
<1>40. ASSUME InterruptPreamble, Delivered PROVE TypeOK'
  BY <1>40 DEF InterruptPreamble, Delivered
<1>41. ASSUME InterruptLaunch, Delivered PROVE TypeOK'
  BY <1>41 DEF InterruptLaunch, Delivered, BeginCleanup
<1>42. ASSUME InterruptLaunchFailed, Delivered PROVE TypeOK'
  BY <1>42 DEF InterruptLaunchFailed, Delivered
<1>43. ASSUME InterruptSupervising, Delivered PROVE TypeOK'
  BY <1>43 DEF InterruptSupervising, Delivered, StartSome
<1>44. ASSUME InterruptLateAcquire, Delivered PROVE TypeOK'
  BY <1>44 DEF InterruptLateAcquire, Delivered
<1>45. ASSUME InterruptTerminate, Delivered PROVE TypeOK'
  <2>1. clientUnresolved' \in BOOLEAN
    BY <1>45 DEF InterruptTerminate, NoteTermination
  <2>2. QED
    BY <1>45, <2>1, BeginCleanupType DEF InterruptTerminate, Delivered
<1>46. ASSUME InterruptCleanup, Delivered PROVE TypeOK'
  <2> HIDE DEF TypeOK
  <2>1. /\ pc' \in [Threads -> Locations]
        /\ stopLock' \in Threads \union {Free}
        /\ stopAttempted' \in BOOLEAN
        /\ cleanupConfirmed' \in BOOLEAN
    BY <1>46, EndCleanupType DEF InterruptCleanup
  <2>2. removal' \in {"none", "unsent", "sent"}
    BY <1>46 DEF InterruptCleanup, TypeOK
  <2>3. QED
    BY <1>46, <2>1, <2>2 DEF InterruptCleanup, Delivered, TypeOK
<1>47. ASSUME InterruptFinally, Delivered PROVE TypeOK'
  BY <1>47 DEF InterruptFinally, Delivered, Unwind, NoResult
<1>48. CASE UNCHANGED vars
  BY <1>48 DEF vars
<1>49. QED
  BY <1>1, <1>2, <1>3, <1>4, <1>5, <1>6, <1>7, <1>8, <1>9, <1>10, <1>11, <1>12, <1>13,
     <1>14, <1>15, <1>16, <1>17, <1>18, <1>19, <1>20, <1>21, <1>22, <1>23, <1>24, <1>25,
     <1>26, <1>27, <1>28, <1>29, <1>30, <1>31, <1>32, <1>33, <1>34, <1>35, <1>36, <1>37,
     <1>38, <1>39, <1>40, <1>41, <1>42, <1>43, <1>44, <1>45, <1>46, <1>47, <1>48
  DEF Next, MainStep, MonitorStep, DrainerStep, EnvironmentStep, StopStep, Interrupt

\* The monitor, the drainers and the environment aside, the caller's
\* wait is over before it judges the run, and the client's end is final.
\* (process.wait, _terminate_docker_client)
LEMMA WaitedStep == IInv /\ [Next]_vars => WaitedInv'
<1> SUFFICES ASSUME IInv, [Next]_vars PROVE WaitedInv'
  OBVIOUS
<1> USE DEF IInv, WaitedInv, TypeOK, Judging, Exited, Goto, Threads, Main, Monitor, daemonVars, stopVars,
            monitorVars, drainVars, callerVars, cleanupVars,
            Finished, Preamble, Supervising, Unwinding, Cleaning, Returns, ExitCodes
<1>1. CASE ValidateSpec
  BY <1>1 DEF ValidateSpec, Check, Return
<1>2. CASE ResolveBinary
  BY <1>2 DEF ResolveBinary, Check, Return
<1>3. CASE VerifyImage
  BY <1>3 DEF VerifyImage, Check, Return
<1>4. CASE PrepareAudit
  BY <1>4 DEF PrepareAudit, Check, Return
<1>5. CASE Preflight
  BY <1>5 DEF Preflight, Return, ScanOutcomes
<1>6. CASE Create
  BY <1>6 DEF Create, Return, CreateUnconfirmed
<1>7. CASE Created
  BY <1>7 DEF Created, Return, CreateUnconfirmed
<1>8. CASE EnterStart
  BY <1>8 DEF EnterStart
<1>9. CASE Launch
  BY <1>9 DEF Launch, BeginCleanup
<1>10. CASE LaunchFailed
  BY <1>10 DEF LaunchFailed, Return
<1>11. CASE Spawn
  BY <1>11 DEF Spawn
<1>12. CASE SpawnRaises
  BY <1>12 DEF SpawnRaises, StartSome, CallStop
<1>13. CASE Wait
  BY <1>13 DEF Wait, CallStop
<1>14. CASE Signal
  BY <1>14 DEF Signal
<1>15. CASE JoinMonitor
  BY <1>15 DEF JoinMonitor
<1>16. CASE TakeFailure
  BY <1>16 DEF TakeFailure
<1>17. CASE CheckAlive
  BY <1>17 DEF CheckAlive, MonitorAlive
<1>18. CASE JoinDrainers
  BY <1>18 DEF JoinDrainers
<1>19. CASE Collect
  BY <1>19 DEF Collect, CallStop
<1>20. CASE Conclude
  BY <1>20 DEF Conclude, Verdict
<1>21. CASE FailClosed
  BY <1>21 DEF FailClosed
<1>22. CASE Finally
  BY <1>22 DEF Finally, CallStop
<1>23. CASE JoinLate
  BY <1>23 DEF JoinLate
<1>24. CASE Close
  BY <1>24 DEF Close, Unwind
<1>25. ASSUME NEW t \in Threads, Acquire(t) PROVE WaitedInv'
  BY <1>25 DEF Acquire
<1>26. ASSUME NEW t \in Threads, TerminateClient(t) PROVE WaitedInv'
  BY <1>26 DEF TerminateClient, NoteTermination, BeginCleanup
<1>27. ASSUME NEW t \in Threads, RemoveContainer(t) PROVE WaitedInv'
  BY <1>27, RemoveMoves
<1>28. ASSUME NEW t \in Threads, QueryAbsence(t) PROVE WaitedInv'
  BY <1>28, QueryMoves
<1>29. CASE Scan
  BY <1>29 DEF Scan, ScanOutcomes, CallStop, Scanning
<1>30. CASE Pause
  BY <1>30 DEF Pause
<1>31. CASE PutFailure
  BY <1>31 DEF PutFailure
<1>32. ASSUME NEW s \in Streams, DrainerEnds(s) PROVE WaitedInv'
  BY <1>32 DEF DrainerEnds
<1>33. ASSUME NEW s \in Streams, DrainerFails(s) PROVE WaitedInv'
  BY <1>33 DEF DrainerFails
<1>34. CASE DaemonCreates
  BY <1>34 DEF DaemonCreates, Environment
<1>35. CASE DaemonStarts
  BY <1>35 DEF DaemonStarts, Environment
<1>36. CASE TargetExits
  BY <1>36 DEF TargetExits, Environment
<1>37. CASE DaemonRemoves
  BY <1>37 DEF DaemonRemoves, Environment
<1>38. CASE TargetWrites
  BY <1>38 DEF TargetWrites, Environment
<1>39. CASE ClientExits
  BY <1>39 DEF ClientExits, Environment
<1>40. ASSUME InterruptPreamble, Delivered PROVE WaitedInv'
  BY <1>40 DEF InterruptPreamble, Delivered
<1>41. ASSUME InterruptLaunch, Delivered PROVE WaitedInv'
  BY <1>41 DEF InterruptLaunch, Delivered, BeginCleanup
<1>42. ASSUME InterruptLaunchFailed, Delivered PROVE WaitedInv'
  BY <1>42 DEF InterruptLaunchFailed, Delivered
<1>43. ASSUME InterruptSupervising, Delivered PROVE WaitedInv'
  BY <1>43 DEF InterruptSupervising, Delivered, StartSome
<1>44. ASSUME InterruptLateAcquire, Delivered PROVE WaitedInv'
  BY <1>44 DEF InterruptLateAcquire, Delivered
<1>45. ASSUME InterruptTerminate, Delivered PROVE WaitedInv'
  BY <1>45 DEF InterruptTerminate, Delivered, NoteTermination, BeginCleanup
<1>46. ASSUME InterruptCleanup, Delivered PROVE WaitedInv'
  BY <1>46 DEF InterruptCleanup, Delivered, EndCleanup
<1>47. ASSUME InterruptFinally, Delivered PROVE WaitedInv'
  BY <1>47 DEF InterruptFinally, Delivered, Unwind
<1>48. CASE UNCHANGED vars
  BY <1>48 DEF vars
<1>49. QED
  BY <1>1, <1>2, <1>3, <1>4, <1>5, <1>6, <1>7, <1>8, <1>9, <1>10, <1>11, <1>12, <1>13,
     <1>14, <1>15, <1>16, <1>17, <1>18, <1>19, <1>20, <1>21, <1>22, <1>23, <1>24, <1>25,
     <1>26, <1>27, <1>28, <1>29, <1>30, <1>31, <1>32, <1>33, <1>34, <1>35, <1>36, <1>37,
     <1>38, <1>39, <1>40, <1>41, <1>42, <1>43, <1>44, <1>45, <1>46, <1>47, <1>48
  DEF Next, MainStep, MonitorStep, DrainerStep, EnvironmentStep, StopStep, Interrupt

\* The id, the container and the threads that depend on them stay in step.
LEMMA OwnershipStep == IInv /\ [Next]_vars => OwnershipInv'
<1> SUFFICES ASSUME IInv, [Next]_vars PROVE OwnershipInv'
  OBVIOUS
<1> USE DEF IInv, OwnershipInv, TypeOK, Started, Goto, Threads, Main, Monitor, daemonVars, stopVars,
            monitorVars, drainVars, callerVars, cleanupVars,
            Finished, Preamble, Supervising, Unwinding, Cleaning, Returns
<1>1. CASE ValidateSpec
  BY <1>1 DEF ValidateSpec, Check, Return
<1>2. CASE ResolveBinary
  BY <1>2 DEF ResolveBinary, Check, Return
<1>3. CASE VerifyImage
  BY <1>3 DEF VerifyImage, Check, Return
<1>4. CASE PrepareAudit
  BY <1>4 DEF PrepareAudit, Check, Return
<1>5. CASE Preflight
  BY <1>5 DEF Preflight, Return, ScanOutcomes
<1>6. CASE Create
  BY <1>6 DEF Create, Return, CreateUnconfirmed
<1>7. CASE Created
  BY <1>7 DEF Created, Return, CreateUnconfirmed
<1>8. CASE EnterStart
  BY <1>8 DEF EnterStart
<1>9. CASE Launch
  BY <1>9 DEF Launch, BeginCleanup
<1>10. CASE LaunchFailed
  BY <1>10 DEF LaunchFailed, Return
<1>11. CASE Spawn
  BY <1>11 DEF Spawn
<1>12. CASE SpawnRaises
  BY <1>12 DEF SpawnRaises, StartSome, CallStop
<1>13. CASE Wait
  BY <1>13 DEF Wait, CallStop
<1>14. CASE Signal
  BY <1>14 DEF Signal
<1>15. CASE JoinMonitor
  BY <1>15 DEF JoinMonitor
<1>16. CASE TakeFailure
  BY <1>16 DEF TakeFailure
<1>17. CASE CheckAlive
  BY <1>17 DEF CheckAlive, MonitorAlive
<1>18. CASE JoinDrainers
  BY <1>18 DEF JoinDrainers
<1>19. CASE Collect
  BY <1>19 DEF Collect, CallStop
<1>20. CASE Conclude
  BY <1>20 DEF Conclude, Verdict
<1>21. CASE FailClosed
  BY <1>21 DEF FailClosed
<1>22. CASE Finally
  BY <1>22 DEF Finally, CallStop
<1>23. CASE JoinLate
  BY <1>23 DEF JoinLate
<1>24. CASE Close
  BY <1>24 DEF Close, Unwind
<1>25. ASSUME NEW t \in Threads, Acquire(t) PROVE OwnershipInv'
  BY <1>25 DEF Acquire
<1>26. ASSUME NEW t \in Threads, TerminateClient(t) PROVE OwnershipInv'
  BY <1>26 DEF TerminateClient, NoteTermination, BeginCleanup
<1>27. ASSUME NEW t \in Threads, RemoveContainer(t) PROVE OwnershipInv'
  <2>1. containerId /\ pc[Main] \notin Preamble \ {"owned"}
    BY <1>27 DEF RemoveContainer
  <2>2. UNCHANGED <<ret, container, containerId, result>>
    BY <1>27, RemoveMoves
  <2>3. pc'[Main] \in Preamble \union {"launch"} => pc'[Main] = pc[Main]
    BY <1>27, <2>1, RemoveMoves
  <2>4. QED
    BY <1>27, <2>1, <2>2, <2>3, RemoveMoves
<1>28. ASSUME NEW t \in Threads, QueryAbsence(t) PROVE OwnershipInv'
  <2>1. containerId /\ pc[Main] \notin Preamble \ {"owned"}
    BY <1>28 DEF QueryAbsence
  <2>2. UNCHANGED <<ret, container, containerId, result>>
    BY <1>28, QueryMoves
  <2>3. pc'[Main] \in Preamble \union {"launch"} => pc'[Main] = pc[Main]
    BY <1>28, <2>1, QueryMoves
  <2>4. QED
    BY <1>28, <2>1, <2>2, <2>3, QueryMoves
<1>29. CASE Scan
  BY <1>29 DEF Scan, ScanOutcomes, CallStop, Scanning
<1>30. CASE Pause
  BY <1>30 DEF Pause
<1>31. CASE PutFailure
  BY <1>31 DEF PutFailure
<1>32. ASSUME NEW s \in Streams, DrainerEnds(s) PROVE OwnershipInv'
  BY <1>32 DEF DrainerEnds
<1>33. ASSUME NEW s \in Streams, DrainerFails(s) PROVE OwnershipInv'
  BY <1>33 DEF DrainerFails
<1>34. CASE DaemonCreates
  BY <1>34 DEF DaemonCreates, Environment
<1>35. CASE DaemonStarts
  BY <1>35 DEF DaemonStarts, Environment
<1>36. CASE TargetExits
  BY <1>36 DEF TargetExits, Environment
<1>37. CASE DaemonRemoves
  BY <1>37 DEF DaemonRemoves, Present, Environment
<1>38. CASE TargetWrites
  BY <1>38 DEF TargetWrites, Environment
<1>39. CASE ClientExits
  BY <1>39 DEF ClientExits, Environment
<1>40. ASSUME InterruptPreamble, Delivered PROVE OwnershipInv'
  BY <1>40 DEF InterruptPreamble, Delivered
<1>41. ASSUME InterruptLaunch, Delivered PROVE OwnershipInv'
  BY <1>41 DEF InterruptLaunch, Delivered, BeginCleanup
<1>42. ASSUME InterruptLaunchFailed, Delivered PROVE OwnershipInv'
  BY <1>42 DEF InterruptLaunchFailed, Delivered
<1>43. ASSUME InterruptSupervising, Delivered PROVE OwnershipInv'
  BY <1>43 DEF InterruptSupervising, Delivered, StartSome
<1>44. ASSUME InterruptLateAcquire, Delivered PROVE OwnershipInv'
  BY <1>44 DEF InterruptLateAcquire, Delivered
<1>45. ASSUME InterruptTerminate, Delivered PROVE OwnershipInv'
  BY <1>45 DEF InterruptTerminate, Delivered, NoteTermination, BeginCleanup
<1>46. ASSUME InterruptCleanup, Delivered PROVE OwnershipInv'
  BY <1>46 DEF InterruptCleanup, Delivered, EndCleanup
<1>47. ASSUME InterruptFinally, Delivered PROVE OwnershipInv'
  BY <1>47 DEF InterruptFinally, Delivered, Unwind
<1>48. CASE UNCHANGED vars
  BY <1>48 DEF vars
<1>49. QED
  BY <1>1, <1>2, <1>3, <1>4, <1>5, <1>6, <1>7, <1>8, <1>9, <1>10, <1>11, <1>12, <1>13,
     <1>14, <1>15, <1>16, <1>17, <1>18, <1>19, <1>20, <1>21, <1>22, <1>23, <1>24, <1>25,
     <1>26, <1>27, <1>28, <1>29, <1>30, <1>31, <1>32, <1>33, <1>34, <1>35, <1>36, <1>37,
     <1>38, <1>39, <1>40, <1>41, <1>42, <1>43, <1>44, <1>45, <1>46, <1>47, <1>48
  DEF Next, MainStep, MonitorStep, DrainerStep, EnvironmentStep, StopStep, Interrupt

\* A step never confirms the absence of a container that is there.
LEMMA AbsenceStep == IInv /\ [Next]_vars => AbsenceInv'
<1> SUFFICES ASSUME IInv, [Next]_vars PROVE AbsenceInv'
  OBVIOUS
<1> USE DEF IInv, AbsenceInv, ConfirmedMeansGone, TypeOK, Goto, Threads, Main, Monitor, daemonVars, stopVars,
            monitorVars, drainVars, callerVars, cleanupVars,
            Cleaning, Unwinding, Supervising, Preamble, Finished, Returns
<1>1. CASE ValidateSpec
  BY <1>1 DEF ValidateSpec, Check, Return
<1>2. CASE ResolveBinary
  BY <1>2 DEF ResolveBinary, Check, Return
<1>3. CASE VerifyImage
  BY <1>3 DEF VerifyImage, Check, Return
<1>4. CASE PrepareAudit
  BY <1>4 DEF PrepareAudit, Check, Return
<1>5. CASE Preflight
  BY <1>5 DEF Preflight, Return, ScanOutcomes
<1>6. CASE Create
  BY <1>6 DEF Create, Return, OwnershipInv
<1>7. CASE Created
  BY <1>7 DEF Created, Return, CreateUnconfirmed
<1>8. CASE EnterStart
  BY <1>8 DEF EnterStart
<1>9. CASE Launch
  BY <1>9 DEF Launch, BeginCleanup
<1>10. CASE LaunchFailed
  BY <1>10 DEF LaunchFailed, Return
<1>11. CASE Spawn
  BY <1>11 DEF Spawn
<1>12. CASE SpawnRaises
  BY <1>12 DEF SpawnRaises, StartSome, CallStop
<1>13. CASE Wait
  BY <1>13 DEF Wait, CallStop
<1>14. CASE Signal
  BY <1>14 DEF Signal
<1>15. CASE JoinMonitor
  BY <1>15 DEF JoinMonitor
<1>16. CASE TakeFailure
  BY <1>16 DEF TakeFailure
<1>17. CASE CheckAlive
  BY <1>17 DEF CheckAlive, MonitorAlive
<1>18. CASE JoinDrainers
  BY <1>18 DEF JoinDrainers
<1>19. CASE Collect
  BY <1>19 DEF Collect, CallStop
<1>20. CASE Conclude
  BY <1>20 DEF Conclude, Verdict
<1>21. CASE FailClosed
  BY <1>21 DEF FailClosed
<1>22. CASE Finally
  BY <1>22 DEF Finally, CallStop
<1>23. CASE JoinLate
  BY <1>23 DEF JoinLate
<1>24. CASE Close
  BY <1>24 DEF Close, Unwind
<1>25. ASSUME NEW t \in Threads, Acquire(t) PROVE AbsenceInv'
  BY <1>25 DEF Acquire
<1>26. ASSUME NEW t \in Threads, TerminateClient(t) PROVE AbsenceInv'
  BY <1>26 DEF TerminateClient, NoteTermination, BeginCleanup
<1>27. ASSUME NEW t \in Threads, RemoveContainer(t) PROVE AbsenceInv'
  <2>1. (cleanupConfirmed' => cleanupConfirmed) /\ UNCHANGED <<ret, container, misses>>
    BY <1>27, RemoveMoves
  <2>2. CASE pc' = [pc EXCEPT ![t] = "ls"] /\ UNCHANGED absent
    BY <1>27, <2>1, <2>2 DEF RemoveContainer
  <2>3. CASE pc' = [pc EXCEPT ![t] = "rm"] /\ absent' = [absent EXCEPT ![t] = 0]
    BY <2>1, <2>3, MissesAssumption
  <2>4. CASE /\ pc' = [pc EXCEPT ![t] = ret[t]]
             /\ absent' \in {absent, [absent EXCEPT ![t] = 0]}
    BY <2>1, <2>4, MissesAssumption
  <2>5. QED
    BY <1>27, <2>2, <2>3, <2>4, RemoveMoves
<1>28. ASSUME NEW t \in Threads, QueryAbsence(t) PROVE AbsenceInv'
  <2>1. container \notin {"none", "pending"} /\ UNCHANGED <<ret, container>>
    BY <1>28 DEF QueryAbsence, OwnershipInv, Started
  <2>2. CASE NotListedAbsent(t)
    BY <2>1, <2>2, NextRoundMoves DEF NotListedAbsent
  <2>3. CASE ListedAbsent(t)
    <3>1. container # "gone" => misses' = misses + 1 /\ misses + 1 <= TransientMisses
      BY <2>1, <2>3, MissesAssumption DEF ListedAbsent, Present
    <3>2. container = "gone" => misses' = misses
      BY <2>3 DEF ListedAbsent, Present
    <3>3. absent' = [absent EXCEPT ![t] = @ + 1]
      BY <2>3 DEF ListedAbsent
    <3>4. container # "gone" => absent[t] + 1 <= misses'
      BY <1>28, <3>1 DEF QueryAbsence
    <3>5. CASE absent[t] + 1 >= Confirmations
      <4>1. container = "gone"
        BY <3>1, <3>4, <3>5, MissesAssumption, ConfirmationsAssumption
      <4>2. pc' = [pc EXCEPT ![t] = ret[t]]
        BY <2>3, <3>5 DEF ListedAbsent, EndCleanup
      <4>3. QED
        BY <2>1, <4>1, <4>2
    <3>6. CASE ~(absent[t] + 1 >= Confirmations)
      <4>1. NextRound(t)
        BY <2>3, <3>6 DEF ListedAbsent
      <4>2. QED
        BY <2>1, <3>1, <3>2, <3>3, <3>4, <4>1, NextRoundMoves, MissesAssumption
    <3>7. QED
      BY <3>5, <3>6
  <2>4. QED
    BY <1>28, <2>2, <2>3 DEF QueryAbsence
<1>29. CASE Scan
  BY <1>29 DEF Scan, ScanOutcomes, CallStop, Scanning
<1>30. CASE Pause
  BY <1>30 DEF Pause
<1>31. CASE PutFailure
  BY <1>31 DEF PutFailure
<1>32. ASSUME NEW s \in Streams, DrainerEnds(s) PROVE AbsenceInv'
  BY <1>32 DEF DrainerEnds
<1>33. ASSUME NEW s \in Streams, DrainerFails(s) PROVE AbsenceInv'
  BY <1>33 DEF DrainerFails
<1>34. CASE DaemonCreates
  BY <1>34 DEF DaemonCreates, Environment
<1>35. CASE DaemonStarts
  BY <1>35 DEF DaemonStarts, Environment
<1>36. CASE TargetExits
  BY <1>36 DEF TargetExits, Environment
<1>37. CASE DaemonRemoves
  BY <1>37 DEF DaemonRemoves, Environment
<1>38. CASE TargetWrites
  BY <1>38 DEF TargetWrites, Environment
<1>39. CASE ClientExits
  BY <1>39 DEF ClientExits, Environment
<1>40. ASSUME InterruptPreamble, Delivered PROVE AbsenceInv'
  BY <1>40 DEF InterruptPreamble, Delivered
<1>41. ASSUME InterruptLaunch, Delivered PROVE AbsenceInv'
  BY <1>41 DEF InterruptLaunch, Delivered, BeginCleanup
<1>42. ASSUME InterruptLaunchFailed, Delivered PROVE AbsenceInv'
  BY <1>42 DEF InterruptLaunchFailed, Delivered
<1>43. ASSUME InterruptSupervising, Delivered PROVE AbsenceInv'
  BY <1>43 DEF InterruptSupervising, Delivered, StartSome
<1>44. ASSUME InterruptLateAcquire, Delivered PROVE AbsenceInv'
  BY <1>44 DEF InterruptLateAcquire, Delivered
<1>45. ASSUME InterruptTerminate, Delivered PROVE AbsenceInv'
  BY <1>45 DEF InterruptTerminate, Delivered, NoteTermination, BeginCleanup
<1>46. ASSUME InterruptCleanup, Delivered PROVE AbsenceInv'
  BY <1>46 DEF InterruptCleanup, Delivered, EndCleanup
<1>47. ASSUME InterruptFinally, Delivered PROVE AbsenceInv'
  BY <1>47 DEF InterruptFinally, Delivered, Unwind
<1>48. CASE UNCHANGED vars
  BY <1>48 DEF vars
<1>49. QED
  BY <1>1, <1>2, <1>3, <1>4, <1>5, <1>6, <1>7, <1>8, <1>9, <1>10, <1>11, <1>12, <1>13,
     <1>14, <1>15, <1>16, <1>17, <1>18, <1>19, <1>20, <1>21, <1>22, <1>23, <1>24, <1>25,
     <1>26, <1>27, <1>28, <1>29, <1>30, <1>31, <1>32, <1>33, <1>34, <1>35, <1>36, <1>37,
     <1>38, <1>39, <1>40, <1>41, <1>42, <1>43, <1>44, <1>45, <1>46, <1>47, <1>48
  DEF Next, MainStep, MonitorStep, DrainerStep, EnvironmentStep, StopStep, Interrupt

\* Whatever a step reports is honest about the container.
LEMMA ReportStep == IInv /\ [Next]_vars => ReportInv'
<1> SUFFICES ASSUME IInv, [Next]_vars PROVE ReportInv'
  OBVIOUS
<1> USE DEF IInv, ReportInv, NoSilentOrphan, SuccessMeansTornDown, LifecycleEvents,
            Succeeded, NoResult, Judging, TypeOK, Goto, Threads, Main, Monitor, daemonVars, stopVars,
            monitorVars, drainVars, callerVars, cleanupVars,
            Finished, Preamble, Supervising, Unwinding, Cleaning, Returns, ExitCodes,
            Exited
<1>1. CASE ValidateSpec
  BY <1>1 DEF ValidateSpec, Check, Return, OwnershipInv
<1>2. CASE ResolveBinary
  BY <1>2 DEF ResolveBinary, Check, Return, OwnershipInv
<1>3. CASE VerifyImage
  BY <1>3 DEF VerifyImage, Check, Return, OwnershipInv
<1>4. CASE PrepareAudit
  BY <1>4 DEF PrepareAudit, Check, Return, OwnershipInv
<1>5. CASE Preflight
  BY <1>5 DEF Preflight, Return, OwnershipInv
<1>6. CASE Create
  BY <1>6 DEF Create, Return, CreateUnconfirmed, OwnershipInv
<1>7. CASE Created
  BY <1>7 DEF Created, Return, CreateUnconfirmed, OwnershipInv
<1>8. CASE EnterStart
  BY <1>8 DEF EnterStart
<1>9. CASE Launch
  BY <1>9 DEF Launch, BeginCleanup, OwnershipInv
<1>10. CASE LaunchFailed
  BY <1>10 DEF LaunchFailed, Return, AbsenceInv, ConfirmedMeansGone
<1>11. CASE Spawn
  BY <1>11 DEF Spawn
<1>12. CASE SpawnRaises
  BY <1>12 DEF SpawnRaises, StartSome, CallStop
<1>13. CASE Wait
  BY <1>13 DEF Wait, CallStop
<1>14. CASE Signal
  BY <1>14 DEF Signal, AbsenceInv, ConfirmedMeansGone
<1>15. CASE JoinMonitor
  BY <1>15 DEF JoinMonitor
<1>16. CASE TakeFailure
  BY <1>16 DEF TakeFailure
<1>17. CASE CheckAlive
  BY <1>17 DEF CheckAlive, MonitorAlive
<1>18. CASE JoinDrainers
  BY <1>18 DEF JoinDrainers
<1>19. CASE Collect
  BY <1>19 DEF Collect, CallStop
<1>20. CASE Conclude
  BY <1>20 DEF Conclude, Verdict, WaitedInv
<1>21. CASE FailClosed
  BY <1>21 DEF FailClosed, AbsenceInv, ConfirmedMeansGone
<1>22. CASE Finally
  BY <1>22 DEF Finally, CallStop
<1>23. CASE JoinLate
  BY <1>23 DEF JoinLate
<1>24. CASE Close
  BY <1>24 DEF Close, Unwind
<1>25. ASSUME NEW t \in Threads, Acquire(t) PROVE ReportInv'
  BY <1>25 DEF Acquire
<1>26. ASSUME NEW t \in Threads, TerminateClient(t) PROVE ReportInv'
  BY <1>26 DEF TerminateClient, NoteTermination, BeginCleanup
<1>27. ASSUME NEW t \in Threads, RemoveContainer(t) PROVE ReportInv'
  BY <1>27, RemoveMoves
<1>28. ASSUME NEW t \in Threads, QueryAbsence(t) PROVE ReportInv'
  BY <1>28, QueryMoves
<1>29. CASE Scan
  BY <1>29 DEF Scan, ScanOutcomes, CallStop, Scanning
<1>30. CASE Pause
  BY <1>30 DEF Pause
<1>31. CASE PutFailure
  BY <1>31 DEF PutFailure
<1>32. ASSUME NEW s \in Streams, DrainerEnds(s) PROVE ReportInv'
  BY <1>32 DEF DrainerEnds
<1>33. ASSUME NEW s \in Streams, DrainerFails(s) PROVE ReportInv'
  BY <1>33 DEF DrainerFails
<1>34. CASE DaemonCreates
  BY <1>34 DEF DaemonCreates, Environment
<1>35. CASE DaemonStarts
  BY <1>35 DEF DaemonStarts, Environment
<1>36. CASE TargetExits
  BY <1>36 DEF TargetExits, Environment
<1>37. CASE DaemonRemoves
  BY <1>37 DEF DaemonRemoves, Environment
<1>38. CASE TargetWrites
  BY <1>38 DEF TargetWrites, Environment
<1>39. CASE ClientExits
  BY <1>39 DEF ClientExits, Environment
<1>40. ASSUME InterruptPreamble, Delivered PROVE ReportInv'
  BY <1>40 DEF InterruptPreamble, Delivered
<1>41. ASSUME InterruptLaunch, Delivered PROVE ReportInv'
  BY <1>41 DEF InterruptLaunch, Delivered, BeginCleanup, OwnershipInv
<1>42. ASSUME InterruptLaunchFailed, Delivered PROVE ReportInv'
  BY <1>42 DEF InterruptLaunchFailed, Delivered
<1>43. ASSUME InterruptSupervising, Delivered PROVE ReportInv'
  BY <1>43 DEF InterruptSupervising, Delivered, StartSome
<1>44. ASSUME InterruptLateAcquire, Delivered PROVE ReportInv'
  BY <1>44 DEF InterruptLateAcquire, Delivered
<1>45. ASSUME InterruptTerminate, Delivered PROVE ReportInv'
  BY <1>45 DEF InterruptTerminate, Delivered, NoteTermination, BeginCleanup
<1>46. ASSUME InterruptCleanup, Delivered PROVE ReportInv'
  BY <1>46 DEF InterruptCleanup, Delivered, EndCleanup
<1>47. ASSUME InterruptFinally, Delivered PROVE ReportInv'
  BY <1>47 DEF InterruptFinally, Delivered, Unwind
<1>48. CASE UNCHANGED vars
  BY <1>48 DEF vars
<1>49. QED
  BY <1>1, <1>2, <1>3, <1>4, <1>5, <1>6, <1>7, <1>8, <1>9, <1>10, <1>11, <1>12, <1>13,
     <1>14, <1>15, <1>16, <1>17, <1>18, <1>19, <1>20, <1>21, <1>22, <1>23, <1>24, <1>25,
     <1>26, <1>27, <1>28, <1>29, <1>30, <1>31, <1>32, <1>33, <1>34, <1>35, <1>36, <1>37,
     <1>38, <1>39, <1>40, <1>41, <1>42, <1>43, <1>44, <1>45, <1>46, <1>47, <1>48
  DEF Next, MainStep, MonitorStep, DrainerStep, EnvironmentStep, StopStep, Interrupt

\* A cleanup that returns hands the lock back, if it had it.
LEMMA EndCleanupLock ==
  ASSUME IInv, NEW t \in Threads, pc[t] \in {"rm", "ls"}, NEW ok \in BOOLEAN,
         EndCleanup(t, ok), UNCHANGED ret
  PROVE  LockInv'
<1> USE DEF IInv, LockInv, Bare, TypeOK, Free, Goto, Threads, Main, Monitor, Finished,
            Preamble, Supervising, Unwinding, Cleaning, Returns
<1>1. CASE stopLock = t
  BY <1>1 DEF EndCleanup
<1>2. CASE stopLock # t
  <2>1. t = Main /\ ret[Main] \in {"launchFailed", "raised"}
    BY <1>2
  <2>2. pc' = [pc EXCEPT ![Main] = ret[Main]] /\ UNCHANGED <<stopLock, stopAttempted>>
    BY <1>2, <2>1 DEF EndCleanup
  <2>3. QED
    BY <2>1, <2>2
<1>3. QED
  BY <1>1, <1>2

\* The next round of a cleanup does not touch the lock.
LEMMA NextRoundLock ==
  ASSUME IInv, NEW t \in Threads, pc[t] \in {"rm", "ls"}, NextRound(t), UNCHANGED ret
  PROVE  LockInv'
<1>1. CASE round[t] + 1 < Rounds
  BY <1>1 DEF NextRound, IInv, LockInv, Bare, TypeOK, Free, Goto, Threads, Main, Monitor,
              Finished, Preamble, Supervising, Unwinding, Cleaning, Returns
<1>2. CASE ~(round[t] + 1 < Rounds)
  BY <1>2, EndCleanupLock DEF NextRound
<1>3. QED
  BY <1>1, <1>2

\* The lock and the first teardown stay with the thread that is inside stop_sandbox.
LEMMA LockStep == IInv /\ [Next]_vars => LockInv'
<1> SUFFICES ASSUME IInv, [Next]_vars PROVE LockInv'
  OBVIOUS
<1> USE DEF LockInv, Bare, TypeOK, Free, Goto, Threads, Main, Monitor, daemonVars, stopVars,
            monitorVars, drainVars, callerVars, cleanupVars,
            Finished, Preamble, Supervising, Unwinding, Cleaning, Returns
<1>1. CASE ValidateSpec
  BY <1>1 DEF IInv, ValidateSpec, Check, Return
<1>2. CASE ResolveBinary
  BY <1>2 DEF IInv, ResolveBinary, Check, Return
<1>3. CASE VerifyImage
  BY <1>3 DEF IInv, VerifyImage, Check, Return
<1>4. CASE PrepareAudit
  BY <1>4 DEF IInv, PrepareAudit, Check, Return
<1>5. CASE Preflight
  BY <1>5 DEF IInv, Preflight, Return, ScanOutcomes
<1>6. CASE Create
  BY <1>6 DEF IInv, Create, Return, CreateUnconfirmed
<1>7. CASE Created
  BY <1>7 DEF IInv, Created, Return, CreateUnconfirmed
<1>8. CASE EnterStart
  BY <1>8 DEF IInv, EnterStart
<1>9. CASE Launch
  BY <1>9 DEF IInv, Launch, BeginCleanup
<1>10. CASE LaunchFailed
  BY <1>10 DEF IInv, LaunchFailed, Return
<1>11. CASE Spawn
  BY <1>11 DEF IInv, Spawn
<1>12. CASE SpawnRaises
  BY <1>12 DEF IInv, SpawnRaises, StartSome, CallStop
<1>13. CASE Wait
  BY <1>13 DEF IInv, Wait, CallStop
<1>14. CASE Signal
  BY <1>14 DEF IInv, Signal
<1>15. CASE JoinMonitor
  BY <1>15 DEF IInv, JoinMonitor
<1>16. CASE TakeFailure
  BY <1>16 DEF IInv, TakeFailure
<1>17. CASE CheckAlive
  BY <1>17 DEF IInv, CheckAlive, MonitorAlive
<1>18. CASE JoinDrainers
  BY <1>18 DEF IInv, JoinDrainers
<1>19. CASE Collect
  BY <1>19 DEF IInv, Collect, CallStop
<1>20. CASE Conclude
  BY <1>20 DEF IInv, Conclude, Verdict
<1>21. CASE FailClosed
  BY <1>21 DEF IInv, FailClosed
<1>22. CASE Finally
  BY <1>22 DEF IInv, Finally, CallStop
<1>23. CASE JoinLate
  BY <1>23 DEF IInv, JoinLate
<1>24. CASE Close
  BY <1>24 DEF IInv, Close, Unwind
<1>25. ASSUME NEW t \in Threads, Acquire(t) PROVE LockInv'
  BY <1>25 DEF IInv, Acquire
<1>26. ASSUME NEW t \in Threads, TerminateClient(t) PROVE LockInv'
  BY <1>26 DEF IInv, TerminateClient, NoteTermination, BeginCleanup
<1>27. ASSUME NEW t \in Threads, RemoveContainer(t) PROVE LockInv'
  <2>1. pc[t] = "rm" /\ UNCHANGED ret
    BY <1>27 DEF RemoveContainer
  <2>2. CASE NextRound(t)
    <3> HIDE DEF LockInv
    <3>1. QED
      BY <2>1, <2>2, NextRoundLock
  <2>3. CASE Goto(t, "ls") /\ UNCHANGED <<round, absent, stopLock, stopAttempted,
                                          cleanupConfirmed>>
    BY <2>1, <2>3 DEF IInv
  <2>4. CASE EndCleanup(t, FALSE)
    <3> HIDE DEF LockInv
    <3>1. QED
      BY <2>1, <2>4, EndCleanupLock
  <2>5. QED
    BY <1>27, <2>2, <2>3, <2>4 DEF RemoveContainer
<1>28. ASSUME NEW t \in Threads, QueryAbsence(t) PROVE LockInv'
  <2> HIDE DEF LockInv
  <2>1. pc[t] = "ls" /\ UNCHANGED ret
    BY <1>28 DEF QueryAbsence
  <2>2. CASE NextRound(t)
    BY <2>1, <2>2, NextRoundLock
  <2>3. CASE EndCleanup(t, TRUE)
    BY <2>1, <2>3, EndCleanupLock
  <2>4. QED
    BY <1>28, <2>2, <2>3 DEF QueryAbsence, ListedAbsent, NotListedAbsent
<1>29. CASE Scan
  BY <1>29 DEF IInv, Scan, ScanOutcomes, CallStop, Scanning
<1>30. CASE Pause
  BY <1>30 DEF IInv, Pause
<1>31. CASE PutFailure
  BY <1>31 DEF IInv, PutFailure
<1>32. ASSUME NEW s \in Streams, DrainerEnds(s) PROVE LockInv'
  BY <1>32 DEF IInv, DrainerEnds
<1>33. ASSUME NEW s \in Streams, DrainerFails(s) PROVE LockInv'
  BY <1>33 DEF IInv, DrainerFails
<1>34. CASE DaemonCreates
  BY <1>34 DEF IInv, DaemonCreates, Environment
<1>35. CASE DaemonStarts
  BY <1>35 DEF IInv, DaemonStarts, Environment
<1>36. CASE TargetExits
  BY <1>36 DEF IInv, TargetExits, Environment
<1>37. CASE DaemonRemoves
  BY <1>37 DEF IInv, DaemonRemoves, Environment
<1>38. CASE TargetWrites
  BY <1>38 DEF IInv, TargetWrites, Environment
<1>39. CASE ClientExits
  BY <1>39 DEF IInv, ClientExits, Environment
<1>40. ASSUME InterruptPreamble, Delivered PROVE LockInv'
  BY <1>40 DEF IInv, InterruptPreamble, Delivered
<1>41. ASSUME InterruptLaunch, Delivered PROVE LockInv'
  BY <1>41 DEF IInv, InterruptLaunch, Delivered, BeginCleanup
<1>42. ASSUME InterruptLaunchFailed, Delivered PROVE LockInv'
  BY <1>42 DEF IInv, InterruptLaunchFailed, Delivered
<1>43. ASSUME InterruptSupervising, Delivered PROVE LockInv'
  BY <1>43 DEF IInv, InterruptSupervising, Delivered, StartSome
<1>44. ASSUME InterruptLateAcquire, Delivered PROVE LockInv'
  BY <1>44 DEF IInv, InterruptLateAcquire, Delivered
<1>45. ASSUME InterruptTerminate, Delivered PROVE LockInv'
  BY <1>45 DEF IInv, InterruptTerminate, Delivered, NoteTermination, BeginCleanup
<1>46. ASSUME InterruptCleanup, Delivered PROVE LockInv'
  BY <1>46 DEF IInv, InterruptCleanup, Delivered, EndCleanup
<1>47. ASSUME InterruptFinally, Delivered PROVE LockInv'
  BY <1>47 DEF IInv, InterruptFinally, Delivered, Unwind
<1>48. CASE UNCHANGED vars
  BY <1>48 DEF IInv, vars
<1>49. QED
  BY <1>1, <1>2, <1>3, <1>4, <1>5, <1>6, <1>7, <1>8, <1>9, <1>10, <1>11, <1>12, <1>13,
     <1>14, <1>15, <1>16, <1>17, <1>18, <1>19, <1>20, <1>21, <1>22, <1>23, <1>24, <1>25,
     <1>26, <1>27, <1>28, <1>29, <1>30, <1>31, <1>32, <1>33, <1>34, <1>35, <1>36, <1>37,
     <1>38, <1>39, <1>40, <1>41, <1>42, <1>43, <1>44, <1>45, <1>46, <1>47, <1>48
  DEF Next, MainStep, MonitorStep, DrainerStep, EnvironmentStep, StopStep, Interrupt


\* The inductive invariant holds of every reachable state.
THEOREM Invariance == Spec => []IInv
<1>1. Init => IInv
  <2> SUFFICES ASSUME Init PROVE IInv
    OBVIOUS
  <2> USE DEF Init, NoResult, Threads, Main, Monitor, Free, ExitCodes
  <2>1. TypeOK
    <3>1. pc \in [Threads -> Locations] /\ ret \in [Threads -> Returns]
      BY DEF Locations, Finished, Preamble, Supervising, Unwinding, Cleaning, Scanning,
             Returns
    <3>2. result \in [status : Statuses, exit : {"none"} \union ExitCodes,
                      events : SUBSET Events]
      BY DEF Statuses, Events
    <3>3. /\ round \in [Threads -> 0 .. Rounds - 1] /\ absent \in [Threads -> Nat]
          /\ misses \in 0 .. TransientMisses /\ interrupts \in 0 .. MaxInterrupts
      BY RoundsAssumption, MissesAssumption, InterruptsAssumption
    <3>4. drainer \in [Streams -> {"off", "reading", "eof", "broken"}]
      OBVIOUS
    <3>5. QED
      BY <3>1, <3>2, <3>3, <3>4 DEF TypeOK, Failures
  <2>2. WaitedInv
    BY DEF WaitedInv, Judging, Exited
  <2>3. OwnershipInv
    BY DEF OwnershipInv, Started, Supervising, Unwinding, Cleaning
  <2>4. AbsenceInv
    BY DEF AbsenceInv, ConfirmedMeansGone
  <2>5. ReportInv
    BY DEF ReportInv, Judging, NoSilentOrphan, SuccessMeansTornDown, Succeeded
  <2>6. LockInv
    BY DEF LockInv, Bare, Cleaning, Finished
  <2>7. QED
    BY <2>1, <2>2, <2>3, <2>4, <2>5, <2>6 DEF IInv
<1>2. IInv /\ [Next]_vars => IInv'
  BY TypeStep, WaitedStep, OwnershipStep, AbsenceStep, ReportStep, LockStep DEF IInv
<1>3. QED
  BY <1>1, <1>2, PTL DEF Spec

\* The types of the state, for every value of the constants.
THEOREM TypeCorrect == Spec => []TypeOK
BY Invariance, PTL DEF IInv

\* A confirmed cleanup is never wrong: whatever the two threads interleave, more
\* consecutive empty listings than the daemon can miss prove absence.
THEOREM ConfirmationIsSound == Spec => []ConfirmedMeansGone
<1>1. IInv => ConfirmedMeansGone
  BY DEF IInv, AbsenceInv
<1>2. QED
  BY <1>1, Invariance, PTL

\* A run that reports success has left neither a container nor a client.
THEOREM SuccessIsTornDown == Spec => []SuccessMeansTornDown
<1>1. IInv => SuccessMeansTornDown
  BY DEF IInv, ReportInv
<1>2. QED
  BY <1>1, Invariance, PTL

\* A container that outlives a result is named by it, interrupts included.
THEOREM OrphansAreReported == Spec => []NoSilentOrphan
<1>1. IInv => NoSilentOrphan
  BY DEF IInv, ReportInv
<1>2. QED
  BY <1>1, Invariance, PTL

\* stop_sandbox is never in both threads: only the last resort of
\* _start_owned_container cleans up beside it.
THEOREM TeardownIsExclusive == Spec => []TeardownExclusive
<1>1. IInv => TeardownExclusive
  BY DEF IInv, LockInv, Bare, TeardownExclusive, Threads, Main, Monitor, Cleaning, TypeOK
<1>2. QED
  BY <1>1, Invariance, PTL

\* Once the first stop_sandbox is done, no cleanup writes its outcome again.
LEMMA EndCleanupFinal ==
  ASSUME IInv, NEW t \in Threads, pc[t] \in {"rm", "ls"}, stopAttempted,
         NEW ok \in BOOLEAN, EndCleanup(t, ok)
  PROVE  UNCHANGED <<stopAttempted, cleanupConfirmed>>
<1>1. stopLock # t /\ ret[t] = "raised"
  BY DEF IInv, LockInv, Bare, TypeOK, Threads, Main, Monitor, Free, Cleaning
<1>2. cleanupConfirmed' = cleanupConfirmed
  BY <1>1 DEF EndCleanup
<1>3. stopAttempted' = stopAttempted
  BY <1>1 DEF EndCleanup
<1>4. QED
  BY <1>2, <1>3

\* (stop_sandbox's early return, the bare cleanups, the swallowed interrupts)
LEMMA FinalStep ==
  IInv /\ [Next]_vars => KeepsTeardown
<1> SUFFICES ASSUME IInv, [Next]_vars, stopAttempted PROVE KeepsTeardown
  BY DEF KeepsTeardown
<1> USE DEF stopVars, Threads
<1> USE DEF KeepsTeardown
<1>1. CASE ValidateSpec
  BY <1>1 DEF ValidateSpec, Check
<1>2. CASE ResolveBinary
  BY <1>2 DEF ResolveBinary, Check
<1>3. CASE VerifyImage
  BY <1>3 DEF VerifyImage, Check
<1>4. CASE PrepareAudit
  BY <1>4 DEF PrepareAudit, Check
<1>5. CASE Preflight
  BY <1>5 DEF Preflight
<1>6. CASE Create
  BY <1>6 DEF Create
<1>7. CASE Created
  BY <1>7 DEF Created
<1>8. CASE EnterStart
  BY <1>8 DEF EnterStart
<1>9. CASE Launch
  BY <1>9 DEF Launch
<1>10. CASE LaunchFailed
  BY <1>10 DEF LaunchFailed
<1>11. CASE Spawn
  BY <1>11 DEF Spawn
<1>12. CASE SpawnRaises
  BY <1>12 DEF SpawnRaises
<1>13. CASE Wait
  BY <1>13 DEF Wait
<1>14. CASE Signal
  BY <1>14 DEF Signal
<1>15. CASE JoinMonitor
  BY <1>15 DEF JoinMonitor
<1>16. CASE TakeFailure
  BY <1>16 DEF TakeFailure
<1>17. CASE CheckAlive
  BY <1>17 DEF CheckAlive
<1>18. CASE JoinDrainers
  BY <1>18 DEF JoinDrainers
<1>19. CASE Collect
  BY <1>19 DEF Collect
<1>20. CASE Conclude
  BY <1>20 DEF Conclude
<1>21. CASE FailClosed
  BY <1>21 DEF FailClosed
<1>22. CASE Finally
  BY <1>22 DEF Finally
<1>23. CASE JoinLate
  BY <1>23 DEF JoinLate
<1>24. CASE Close
  BY <1>24 DEF Close
<1>25. ASSUME NEW t \in Threads, Acquire(t) PROVE KeepsTeardown
  BY <1>25 DEF Acquire
<1>26. ASSUME NEW t \in Threads, TerminateClient(t) PROVE KeepsTeardown
  <2>1. stopLock # t
    BY <1>26 DEF IInv, LockInv, TypeOK, Threads, Main, Monitor, Free
  <2>2. QED
    BY <1>26, <2>1 DEF TerminateClient, NoteTermination
<1>27. ASSUME NEW t \in Threads, RemoveContainer(t) PROVE KeepsTeardown
  <2>1. pc[t] = "rm" /\ clientUnresolved' = clientUnresolved
    BY <1>27 DEF RemoveContainer
  <2>2. CASE EndCleanup(t, FALSE)
    BY <2>1, <2>2, EndCleanupFinal
  <2>3. CASE UNCHANGED <<stopLock, stopAttempted, cleanupConfirmed>>
    BY <2>1, <2>3
  <2>4. QED
    BY <1>27, <2>2, <2>3 DEF RemoveContainer, NextRound
<1>28. ASSUME NEW t \in Threads, QueryAbsence(t) PROVE KeepsTeardown
  <2>1. pc[t] = "ls" /\ clientUnresolved' = clientUnresolved
    BY <1>28 DEF QueryAbsence
  <2>2. ASSUME NEW ok \in BOOLEAN, EndCleanup(t, ok) PROVE KeepsTeardown
    BY <2>1, <2>2, EndCleanupFinal
  <2>3. CASE UNCHANGED <<stopLock, stopAttempted, cleanupConfirmed>>
    BY <2>1, <2>3
  <2>4. QED
    BY <1>28, <2>2, <2>3 DEF QueryAbsence, ListedAbsent, NotListedAbsent, NextRound
<1>29. CASE Scan
  BY <1>29 DEF Scan
<1>30. CASE Pause
  BY <1>30 DEF Pause
<1>31. CASE PutFailure
  BY <1>31 DEF PutFailure
<1>32. ASSUME NEW s \in Streams, DrainerEnds(s) PROVE KeepsTeardown
  BY <1>32 DEF DrainerEnds
<1>33. ASSUME NEW s \in Streams, DrainerFails(s) PROVE KeepsTeardown
  BY <1>33 DEF DrainerFails
<1>34. CASE DaemonCreates
  BY <1>34 DEF DaemonCreates, Environment
<1>35. CASE DaemonStarts
  BY <1>35 DEF DaemonStarts, Environment
<1>36. CASE TargetExits
  BY <1>36 DEF TargetExits, Environment
<1>37. CASE DaemonRemoves
  BY <1>37 DEF DaemonRemoves, Environment
<1>38. CASE TargetWrites
  BY <1>38 DEF TargetWrites, Environment
<1>39. CASE ClientExits
  BY <1>39 DEF ClientExits, Environment
<1>40. ASSUME InterruptPreamble, Delivered PROVE KeepsTeardown
  BY <1>40 DEF InterruptPreamble, Delivered
<1>41. ASSUME InterruptLaunch, Delivered PROVE KeepsTeardown
  BY <1>41 DEF InterruptLaunch, Delivered, BeginCleanup
<1>42. ASSUME InterruptLaunchFailed, Delivered PROVE KeepsTeardown
  BY <1>42 DEF InterruptLaunchFailed, Delivered
<1>43. ASSUME InterruptSupervising, Delivered PROVE KeepsTeardown
  BY <1>43 DEF InterruptSupervising, Delivered, StartSome
<1>44. ASSUME InterruptLateAcquire, Delivered PROVE KeepsTeardown
  BY <1>44 DEF InterruptLateAcquire, Delivered
<1>45. ASSUME InterruptTerminate, Delivered PROVE KeepsTeardown
  <2>1. stopLock # Main
    BY <1>45 DEF IInv, LockInv, TypeOK, Threads, Main, Monitor, Free
  <2>2. QED
    BY <1>45, <2>1 DEF InterruptTerminate, NoteTermination
<1>46. ASSUME InterruptCleanup, Delivered PROVE KeepsTeardown
  <2>1. pc[Main] \in {"rm", "ls"} /\ EndCleanup(Main, FALSE) /\ Main \in Threads
    BY <1>46 DEF InterruptCleanup, Threads
  <2>2. QED
    BY <1>46, <2>1, EndCleanupFinal DEF InterruptCleanup
<1>47. ASSUME InterruptFinally, Delivered PROVE KeepsTeardown
  BY <1>47 DEF InterruptFinally, Delivered, Unwind
<1>48. CASE UNCHANGED vars
  BY <1>48 DEF vars
<1> HIDE DEF KeepsTeardown
<1>49. QED
  BY <1>1, <1>2, <1>3, <1>4, <1>5, <1>6, <1>7, <1>8, <1>9, <1>10, <1>11, <1>12, <1>13,
     <1>14, <1>15, <1>16, <1>17, <1>18, <1>19, <1>20, <1>21, <1>22, <1>23, <1>24, <1>25,
     <1>26, <1>27, <1>28, <1>29, <1>30, <1>31, <1>32, <1>33, <1>34, <1>35, <1>36, <1>37,
     <1>38, <1>39, <1>40, <1>41, <1>42, <1>43, <1>44, <1>45, <1>46, <1>47, <1>48
  DEF Next, MainStep, MonitorStep, DrainerStep, EnvironmentStep, StopStep, Interrupt

\* The outcome of the first teardown is never rewritten.
THEOREM TeardownStaysFinal == Spec => TeardownIsFinal
BY FinalStep, Invariance, PTL DEF Spec, TeardownIsFinal

-----------------------------------------------------------------------------
(* The caller's judgement *)

\* The caller before its wait, in a teardown, from its wait to the end of the
\* teardown that follows it, and before it has made a result.
Starting == pc[Main] \in Preamble \union {"launch", "spawn"}
Stopping == pc[Main] \in Cleaning \union {"acquire"}
Early    == pc[Main] \in {"wait", "signal"} \/ (Stopping /\ ret[Main] = "signal")
Undecided == \/ Starting \/ Early
             \/ pc[Main] \in Judging \union {"failed"}
             \/ Stopping /\ ret[Main] = "failed"

\* There is no result before the judgement, and the monitor runs on until the
\* caller has stopped the sandbox.
PhaseInv ==
  /\ Starting \/ Early => ~monitorStop
  /\ Early \/ pc[Main] \in Judging => pc[Monitor] # "off"
  /\ Undecided => result = NoResult
  /\ pc[Monitor] \in Cleaning \union {"acquire"} => ret[Monitor] = "put"
  /\ ExitCodeAgrees

\* A drainer that broke has queued its error, and one that still reads when the
\* caller looks is diagnosed.
DrainedInv ==
  /\ Early \/ pc[Main] \in {"join", "take", "alive", "drain", "collect"}
       => \A s \in Streams : /\ drainer[s] # "off"
                             /\ drainer[s] = "broken" => s \in drainErrors
  /\ pc[Main] = "collect" => \A s \in Streams : drainer[s] = "reading" => s \in diagnosed
  /\ pc[Main] = "conclude" => \A s \in Streams : drainer[s] = "eof" \/ s \in diagnosed
  /\ CleanCaptureIsComplete

\* The failure that the monitor found is on its way to the caller: with the
\* monitor, in the queue, or taken.
FindingInv ==
  /\ pc[Monitor] \in {"off", "scan", "pause", "lastScan"} => finding = "none"
  /\ pc[Monitor] \in Cleaning \union {"acquire", "put"} => finding # "none"
  /\ pc[Monitor] # "done" => failures = "none"
  /\ pc[Monitor] \in {"lastScan", "done"} /\ finding = "none" => monitorStop
  /\ pc[Monitor] = "done" /\ finding # "none" /\ failures = "none"
       => ~Early /\ pc[Main] \notin {"join", "take"} /\ (pc[Main] \in Judging => taken # "none")
  /\ pc[Monitor] = "done" /\ finding = "none" /\ pc[Main] \in Judging /\ lifecycle = {}
       => ~over
  /\ pc[Main] \in {"drain", "collect", "conclude"} /\ taken = "none" => pc[Monitor] = "done"
  /\ Succeeded => pc[Monitor] = "done"
  /\ OverBudgetMeansUnread

JudgeInv == PhaseInv /\ DrainedInv /\ FindingInv

\* Every step keeps the account of the phases and of the exit code.
LEMMA PhaseStep == IInv /\ JudgeInv /\ [Next]_vars => PhaseInv'
<1> SUFFICES ASSUME IInv, JudgeInv, [Next]_vars PROVE PhaseInv'
  OBVIOUS
<1>t. pc \in [Threads -> Locations] /\ ret \in [Threads -> Returns]
  BY DEF IInv, TypeOK
<1>r. NoResult.status = "none" /\ NoResult.exit = "none" /\ NoResult.events = {}
  BY DEF NoResult
<1> USE <1>t, <1>r DEF JudgeInv, PhaseInv, ExitCodeAgrees, Succeeded,
            Goto, Threads, Main, Monitor, daemonVars, stopVars, monitorVars,
            drainVars, callerVars, cleanupVars, Finished, Preamble, Supervising,
            Unwinding, Cleaning, Returns, Scanning, Starting, Stopping, Early, Undecided,
            Judging
<1>1. CASE ValidateSpec
  BY <1>1 DEF ValidateSpec, Check, Return
<1>2. CASE ResolveBinary
  BY <1>2 DEF ResolveBinary, Check, Return
<1>3. CASE VerifyImage
  BY <1>3 DEF VerifyImage, Check, Return
<1>4. CASE PrepareAudit
  BY <1>4 DEF PrepareAudit, Check, Return
<1>5. CASE Preflight
  BY <1>5 DEF Preflight, Return, ScanOutcomes
<1>6. CASE Create
  BY <1>6 DEF Create, Return, CreateUnconfirmed
<1>7. CASE Created
  BY <1>7 DEF Created, Return, CreateUnconfirmed
<1>8. CASE EnterStart
  BY <1>8 DEF EnterStart
<1>9. CASE Launch
  BY <1>9 DEF Launch, BeginCleanup
<1>10. CASE LaunchFailed
  BY <1>10 DEF LaunchFailed, Return
<1>11. CASE Spawn
  BY <1>11 DEF Spawn, IInv, LockInv
<1>12. CASE SpawnRaises
  BY <1>12 DEF SpawnRaises, StartSome, CallStop
<1>13. CASE Wait
  BY <1>13 DEF Wait, CallStop, Exited
<1>14. CASE Signal
  BY <1>14 DEF Signal
<1>15. CASE JoinMonitor
  BY <1>15 DEF JoinMonitor
<1>16. CASE TakeFailure
  BY <1>16 DEF TakeFailure
<1>17. CASE CheckAlive
  BY <1>17 DEF CheckAlive, MonitorAlive
<1>18. CASE JoinDrainers
  BY <1>18 DEF JoinDrainers
<1>19. CASE Collect
  BY <1>19 DEF Collect, CallStop
<1>20. CASE Conclude
  BY <1>20 DEF Conclude, Verdict, IInv, TypeOK, WaitedInv, ExitCodes
<1>21. CASE FailClosed
  BY <1>21 DEF FailClosed
<1>22. CASE Finally
  BY <1>22 DEF Finally, CallStop
<1>23. CASE JoinLate
  BY <1>23 DEF JoinLate
<1>24. CASE Close
  BY <1>24 DEF Close, Unwind
<1>25. ASSUME NEW t \in Threads, Acquire(t) PROVE PhaseInv'
  BY <1>25 DEF Acquire
<1>26. ASSUME NEW t \in Threads, TerminateClient(t) PROVE PhaseInv'
  BY <1>26 DEF TerminateClient, NoteTermination, BeginCleanup
<1>27. ASSUME NEW t \in Threads, RemoveContainer(t) PROVE PhaseInv'
  <2>1. pc[t] = "rm" /\ UNCHANGED <<ret, monitorVars, drainVars, callerVars, over>>
    BY <1>27 DEF RemoveContainer
  <2>2. pc' = [pc EXCEPT ![t] = pc'[t]] /\ pc'[t] \in {"rm", "ls", ret[t]}
    BY <1>27, RemoveMoves
  <2>3. QED
    BY <2>1, <2>2
<1>28. ASSUME NEW t \in Threads, QueryAbsence(t) PROVE PhaseInv'
  <2>1. pc[t] = "ls" /\ UNCHANGED <<ret, monitorVars, drainVars, callerVars, over>>
    BY <1>28 DEF QueryAbsence
  <2>2. pc' = [pc EXCEPT ![t] = pc'[t]] /\ pc'[t] \in {"rm", "ls", ret[t]}
    BY <1>28, QueryMoves
  <2>3. QED
    BY <2>1, <2>2
<1>29. CASE Scan
  BY <1>29 DEF Scan, ScanOutcomes, CallStop, Scanning
<1>30. CASE Pause
  BY <1>30 DEF Pause
<1>31. CASE PutFailure
  BY <1>31 DEF PutFailure
<1>32. ASSUME NEW s \in Streams, DrainerEnds(s) PROVE PhaseInv'
  BY <1>32 DEF DrainerEnds
<1>33. ASSUME NEW s \in Streams, DrainerFails(s) PROVE PhaseInv'
  BY <1>33 DEF DrainerFails
<1>34. CASE DaemonCreates
  BY <1>34 DEF DaemonCreates, Environment
<1>35. CASE DaemonStarts
  BY <1>35 DEF DaemonStarts, Environment
<1>36. CASE TargetExits
  BY <1>36 DEF TargetExits, Environment
<1>37. CASE DaemonRemoves
  BY <1>37 DEF DaemonRemoves, Environment
<1>38. CASE TargetWrites
  BY <1>38 DEF TargetWrites, Environment
<1>39. CASE ClientExits
  BY <1>39 DEF ClientExits, Environment
<1>40. ASSUME InterruptPreamble, Delivered PROVE PhaseInv'
  BY <1>40 DEF InterruptPreamble, Delivered
<1>41. ASSUME InterruptLaunch, Delivered PROVE PhaseInv'
  BY <1>41 DEF InterruptLaunch, BeginCleanup, Delivered
<1>42. ASSUME InterruptLaunchFailed, Delivered PROVE PhaseInv'
  BY <1>42 DEF InterruptLaunchFailed, Delivered
<1>43. ASSUME InterruptSupervising, Delivered PROVE PhaseInv'
  BY <1>43 DEF InterruptSupervising, StartSome, Delivered
<1>44. ASSUME InterruptLateAcquire, Delivered PROVE PhaseInv'
  BY <1>44 DEF InterruptLateAcquire, Delivered
<1>45. ASSUME InterruptTerminate, Delivered PROVE PhaseInv'
  BY <1>45 DEF InterruptTerminate, NoteTermination, BeginCleanup, Delivered
<1>46. ASSUME InterruptCleanup, Delivered PROVE PhaseInv'
  BY <1>46 DEF InterruptCleanup, EndCleanup, Delivered
<1>47. ASSUME InterruptFinally, Delivered PROVE PhaseInv'
  BY <1>47 DEF InterruptFinally, Unwind, Delivered
<1>48. CASE UNCHANGED vars
  BY <1>48 DEF vars
<1>49. QED
  BY <1>1, <1>2, <1>3, <1>4, <1>5, <1>6, <1>7, <1>8, <1>9, <1>10, <1>11, <1>12, <1>13,
     <1>14, <1>15, <1>16, <1>17, <1>18, <1>19, <1>20, <1>21, <1>22, <1>23, <1>24, <1>25, <1>26,
     <1>27, <1>28, <1>29, <1>30, <1>31, <1>32, <1>33, <1>34, <1>35, <1>36, <1>37, <1>38, <1>39,
     <1>40, <1>41, <1>42, <1>43, <1>44, <1>45, <1>46, <1>47, <1>48
  DEF Next, MainStep, MonitorStep, DrainerStep, EnvironmentStep, StopStep, Interrupt

\* Every step keeps the account of the drainers.
LEMMA DrainedStep == IInv /\ JudgeInv /\ [Next]_vars => DrainedInv'
<1> SUFFICES ASSUME IInv, JudgeInv, [Next]_vars PROVE DrainedInv'
  OBVIOUS
<1>t. pc \in [Threads -> Locations] /\ ret \in [Threads -> Returns]
  BY DEF IInv, TypeOK
<1>r. NoResult.status = "none" /\ NoResult.exit = "none" /\ NoResult.events = {}
  BY DEF NoResult
<1> USE <1>t, <1>r DEF JudgeInv, PhaseInv, DrainedInv, CleanCaptureIsComplete,
            Goto, Threads, Main, Monitor, daemonVars, stopVars, monitorVars,
            drainVars, callerVars, cleanupVars, Finished, Preamble, Supervising,
            Unwinding, Cleaning, Returns, Scanning, Starting, Stopping, Early, Undecided,
            Judging
<1>1. CASE ValidateSpec
  BY <1>1 DEF ValidateSpec, Check, Return
<1>2. CASE ResolveBinary
  BY <1>2 DEF ResolveBinary, Check, Return
<1>3. CASE VerifyImage
  BY <1>3 DEF VerifyImage, Check, Return
<1>4. CASE PrepareAudit
  BY <1>4 DEF PrepareAudit, Check, Return
<1>5. CASE Preflight
  BY <1>5 DEF Preflight, Return, ScanOutcomes
<1>6. CASE Create
  BY <1>6 DEF Create, Return, CreateUnconfirmed
<1>7. CASE Created
  BY <1>7 DEF Created, Return, CreateUnconfirmed
<1>8. CASE EnterStart
  BY <1>8 DEF EnterStart
<1>9. CASE Launch
  BY <1>9 DEF Launch, BeginCleanup
<1>10. CASE LaunchFailed
  BY <1>10 DEF LaunchFailed, Return
<1>11. CASE Spawn
  BY <1>11 DEF Spawn
<1>12. CASE SpawnRaises
  BY <1>12 DEF SpawnRaises, StartSome, CallStop
<1>13. CASE Wait
  BY <1>13 DEF Wait, CallStop, Exited
<1>14. CASE Signal
  BY <1>14 DEF Signal
<1>15. CASE JoinMonitor
  BY <1>15 DEF JoinMonitor
<1>16. CASE TakeFailure
  BY <1>16 DEF TakeFailure
<1>17. CASE CheckAlive
  BY <1>17 DEF CheckAlive, MonitorAlive
<1>18. CASE JoinDrainers
  BY <1>18 DEF JoinDrainers
<1>19. CASE Collect
  <2>1. CASE /\ diagnosed' = diagnosed \union drainErrors
             /\ pc' = [pc EXCEPT ![Main] = "conclude"]
    <3>1. /\ pc[Main] = "collect" /\ pc'[Main] = "conclude"
          /\ UNCHANGED <<drainer, result>> /\ result = NoResult
      BY <1>19, <2>1 DEF Collect
    <3>2. \A s \in Streams : drainer[s] \in {"off", "reading", "eof", "broken"}
      BY DEF IInv, TypeOK
    <3>3. \A s \in Streams : drainer'[s] = "eof" \/ s \in diagnosed'
      BY <2>1, <3>1, <3>2
    <3>4. QED
      BY <3>1, <3>3
  <2>2. CASE CallStop(Main, "failed") /\ UNCHANGED <<diagnosed, drainErrors>>
    BY <1>19, <2>2 DEF Collect, CallStop
  <2>3. QED
    BY <1>19, <2>1, <2>2 DEF Collect
<1>20. CASE Conclude
  BY <1>20 DEF Conclude, Verdict
<1>21. CASE FailClosed
  BY <1>21 DEF FailClosed
<1>22. CASE Finally
  BY <1>22 DEF Finally, CallStop
<1>23. CASE JoinLate
  BY <1>23 DEF JoinLate
<1>24. CASE Close
  BY <1>24 DEF Close, Unwind
<1>25. ASSUME NEW t \in Threads, Acquire(t) PROVE DrainedInv'
  BY <1>25 DEF Acquire
<1>26. ASSUME NEW t \in Threads, TerminateClient(t) PROVE DrainedInv'
  BY <1>26 DEF TerminateClient, NoteTermination, BeginCleanup
<1>27. ASSUME NEW t \in Threads, RemoveContainer(t) PROVE DrainedInv'
  <2>1. pc[t] = "rm" /\ UNCHANGED <<ret, monitorVars, drainVars, callerVars, over>>
    BY <1>27 DEF RemoveContainer
  <2>2. pc' = [pc EXCEPT ![t] = pc'[t]] /\ pc'[t] \in {"rm", "ls", ret[t]}
    BY <1>27, RemoveMoves
  <2>3. QED
    BY <2>1, <2>2
<1>28. ASSUME NEW t \in Threads, QueryAbsence(t) PROVE DrainedInv'
  <2>1. pc[t] = "ls" /\ UNCHANGED <<ret, monitorVars, drainVars, callerVars, over>>
    BY <1>28 DEF QueryAbsence
  <2>2. pc' = [pc EXCEPT ![t] = pc'[t]] /\ pc'[t] \in {"rm", "ls", ret[t]}
    BY <1>28, QueryMoves
  <2>3. QED
    BY <2>1, <2>2
<1>29. CASE Scan
  BY <1>29 DEF Scan, ScanOutcomes, CallStop, Scanning
<1>30. CASE Pause
  BY <1>30 DEF Pause
<1>31. CASE PutFailure
  BY <1>31 DEF PutFailure
<1>32. ASSUME NEW s \in Streams, DrainerEnds(s) PROVE DrainedInv'
  BY <1>32 DEF DrainerEnds
<1>33. ASSUME NEW s \in Streams, DrainerFails(s) PROVE DrainedInv'
  BY <1>33 DEF DrainerFails
<1>34. CASE DaemonCreates
  BY <1>34 DEF DaemonCreates, Environment
<1>35. CASE DaemonStarts
  BY <1>35 DEF DaemonStarts, Environment
<1>36. CASE TargetExits
  BY <1>36 DEF TargetExits, Environment
<1>37. CASE DaemonRemoves
  BY <1>37 DEF DaemonRemoves, Environment
<1>38. CASE TargetWrites
  BY <1>38 DEF TargetWrites, Environment
<1>39. CASE ClientExits
  BY <1>39 DEF ClientExits, Environment
<1>40. ASSUME InterruptPreamble, Delivered PROVE DrainedInv'
  BY <1>40 DEF InterruptPreamble, Delivered
<1>41. ASSUME InterruptLaunch, Delivered PROVE DrainedInv'
  BY <1>41 DEF InterruptLaunch, BeginCleanup, Delivered
<1>42. ASSUME InterruptLaunchFailed, Delivered PROVE DrainedInv'
  BY <1>42 DEF InterruptLaunchFailed, Delivered
<1>43. ASSUME InterruptSupervising, Delivered PROVE DrainedInv'
  BY <1>43 DEF InterruptSupervising, StartSome, Delivered
<1>44. ASSUME InterruptLateAcquire, Delivered PROVE DrainedInv'
  BY <1>44 DEF InterruptLateAcquire, Delivered
<1>45. ASSUME InterruptTerminate, Delivered PROVE DrainedInv'
  BY <1>45 DEF InterruptTerminate, NoteTermination, BeginCleanup, Delivered
<1>46. ASSUME InterruptCleanup, Delivered PROVE DrainedInv'
  BY <1>46 DEF InterruptCleanup, EndCleanup, Delivered
<1>47. ASSUME InterruptFinally, Delivered PROVE DrainedInv'
  BY <1>47 DEF InterruptFinally, Unwind, Delivered
<1>48. CASE UNCHANGED vars
  BY <1>48 DEF vars
<1>49. QED
  BY <1>1, <1>2, <1>3, <1>4, <1>5, <1>6, <1>7, <1>8, <1>9, <1>10, <1>11, <1>12, <1>13,
     <1>14, <1>15, <1>16, <1>17, <1>18, <1>19, <1>20, <1>21, <1>22, <1>23, <1>24, <1>25, <1>26,
     <1>27, <1>28, <1>29, <1>30, <1>31, <1>32, <1>33, <1>34, <1>35, <1>36, <1>37, <1>38, <1>39,
     <1>40, <1>41, <1>42, <1>43, <1>44, <1>45, <1>46, <1>47, <1>48
  DEF Next, MainStep, MonitorStep, DrainerStep, EnvironmentStep, StopStep, Interrupt

\* Every step keeps the account of the monitor's failure.
LEMMA FindingStep == IInv /\ JudgeInv /\ [Next]_vars => FindingInv'
<1> SUFFICES ASSUME IInv, JudgeInv, [Next]_vars PROVE FindingInv'
  OBVIOUS
<1>t. pc \in [Threads -> Locations] /\ ret \in [Threads -> Returns]
  BY DEF IInv, TypeOK
<1>r. NoResult.status = "none" /\ NoResult.exit = "none" /\ NoResult.events = {}
  BY DEF NoResult
<1> USE <1>t, <1>r DEF JudgeInv, PhaseInv, FindingInv, OverBudgetMeansUnread, Succeeded,
            Goto, Threads, Main, Monitor, daemonVars, stopVars, monitorVars,
            drainVars, callerVars, cleanupVars, Finished, Preamble, Supervising,
            Unwinding, Cleaning, Returns, Scanning, Starting, Stopping, Early, Undecided,
            Judging
<1>1. CASE ValidateSpec
  BY <1>1 DEF ValidateSpec, Check, Return
<1>2. CASE ResolveBinary
  BY <1>2 DEF ResolveBinary, Check, Return
<1>3. CASE VerifyImage
  BY <1>3 DEF VerifyImage, Check, Return
<1>4. CASE PrepareAudit
  BY <1>4 DEF PrepareAudit, Check, Return
<1>5. CASE Preflight
  BY <1>5 DEF Preflight, Return, ScanOutcomes
<1>6. CASE Create
  BY <1>6 DEF Create, Return, CreateUnconfirmed
<1>7. CASE Created
  BY <1>7 DEF Created, Return, CreateUnconfirmed
<1>8. CASE EnterStart
  BY <1>8 DEF EnterStart
<1>9. CASE Launch
  BY <1>9 DEF Launch, BeginCleanup
<1>10. CASE LaunchFailed
  BY <1>10 DEF LaunchFailed, Return
<1>11. CASE Spawn
  BY <1>11 DEF Spawn, IInv, LockInv
<1>12. CASE SpawnRaises
  BY <1>12 DEF SpawnRaises, StartSome, CallStop
<1>13. CASE Wait
  BY <1>13 DEF Wait, CallStop, Exited
<1>14. CASE Signal
  BY <1>14 DEF Signal
<1>15. CASE JoinMonitor
  BY <1>15 DEF JoinMonitor
<1>16. CASE TakeFailure
  BY <1>16 DEF TakeFailure
<1>17. CASE CheckAlive
  BY <1>17 DEF CheckAlive, MonitorAlive
<1>18. CASE JoinDrainers
  BY <1>18 DEF JoinDrainers
<1>19. CASE Collect
  BY <1>19 DEF Collect, CallStop
<1>20. CASE Conclude
  BY <1>20 DEF Conclude, Verdict
<1>21. CASE FailClosed
  BY <1>21 DEF FailClosed
<1>22. CASE Finally
  BY <1>22 DEF Finally, CallStop
<1>23. CASE JoinLate
  BY <1>23 DEF JoinLate
<1>24. CASE Close
  BY <1>24 DEF Close, Unwind
<1>25. ASSUME NEW t \in Threads, Acquire(t) PROVE FindingInv'
  BY <1>25 DEF Acquire
<1>26. ASSUME NEW t \in Threads, TerminateClient(t) PROVE FindingInv'
  BY <1>26 DEF TerminateClient, NoteTermination, BeginCleanup
<1>27. ASSUME NEW t \in Threads, RemoveContainer(t) PROVE FindingInv'
  <2>1. pc[t] = "rm" /\ UNCHANGED <<ret, monitorVars, drainVars, callerVars, over>>
    BY <1>27 DEF RemoveContainer
  <2>2. pc' = [pc EXCEPT ![t] = pc'[t]] /\ pc'[t] \in {"rm", "ls", ret[t]}
    BY <1>27, RemoveMoves
  <2>3. QED
    BY <2>1, <2>2
<1>28. ASSUME NEW t \in Threads, QueryAbsence(t) PROVE FindingInv'
  <2>1. pc[t] = "ls" /\ UNCHANGED <<ret, monitorVars, drainVars, callerVars, over>>
    BY <1>28 DEF QueryAbsence
  <2>2. pc' = [pc EXCEPT ![t] = pc'[t]] /\ pc'[t] \in {"rm", "ls", ret[t]}
    BY <1>28, QueryMoves
  <2>3. QED
    BY <2>1, <2>2
<1>29. CASE Scan
  BY <1>29 DEF Scan, ScanOutcomes, CallStop, Scanning, IInv, ReportInv
<1>30. CASE Pause
  BY <1>30 DEF Pause
<1>31. CASE PutFailure
  BY <1>31 DEF PutFailure
<1>32. ASSUME NEW s \in Streams, DrainerEnds(s) PROVE FindingInv'
  BY <1>32 DEF DrainerEnds
<1>33. ASSUME NEW s \in Streams, DrainerFails(s) PROVE FindingInv'
  BY <1>33 DEF DrainerFails
<1>34. CASE DaemonCreates
  BY <1>34 DEF DaemonCreates, Environment
<1>35. CASE DaemonStarts
  BY <1>35 DEF DaemonStarts, Environment
<1>36. CASE TargetExits
  BY <1>36 DEF TargetExits, Environment
<1>37. CASE DaemonRemoves
  BY <1>37 DEF DaemonRemoves, Environment
<1>38. CASE TargetWrites
  BY <1>38 DEF TargetWrites, Environment, IInv, ReportInv, SuccessMeansTornDown
<1>39. CASE ClientExits
  BY <1>39 DEF ClientExits, Environment
<1>40. ASSUME InterruptPreamble, Delivered PROVE FindingInv'
  BY <1>40 DEF InterruptPreamble, Delivered
<1>41. ASSUME InterruptLaunch, Delivered PROVE FindingInv'
  BY <1>41 DEF InterruptLaunch, BeginCleanup, Delivered
<1>42. ASSUME InterruptLaunchFailed, Delivered PROVE FindingInv'
  BY <1>42 DEF InterruptLaunchFailed, Delivered
<1>43. ASSUME InterruptSupervising, Delivered PROVE FindingInv'
  BY <1>43 DEF InterruptSupervising, StartSome, Delivered
<1>44. ASSUME InterruptLateAcquire, Delivered PROVE FindingInv'
  BY <1>44 DEF InterruptLateAcquire, Delivered
<1>45. ASSUME InterruptTerminate, Delivered PROVE FindingInv'
  BY <1>45 DEF InterruptTerminate, NoteTermination, BeginCleanup, Delivered
<1>46. ASSUME InterruptCleanup, Delivered PROVE FindingInv'
  BY <1>46 DEF InterruptCleanup, EndCleanup, Delivered
<1>47. ASSUME InterruptFinally, Delivered PROVE FindingInv'
  BY <1>47 DEF InterruptFinally, Unwind, Delivered
<1>48. CASE UNCHANGED vars
  BY <1>48 DEF vars
<1>49. QED
  BY <1>1, <1>2, <1>3, <1>4, <1>5, <1>6, <1>7, <1>8, <1>9, <1>10, <1>11, <1>12, <1>13,
     <1>14, <1>15, <1>16, <1>17, <1>18, <1>19, <1>20, <1>21, <1>22, <1>23, <1>24, <1>25, <1>26,
     <1>27, <1>28, <1>29, <1>30, <1>31, <1>32, <1>33, <1>34, <1>35, <1>36, <1>37, <1>38, <1>39,
     <1>40, <1>41, <1>42, <1>43, <1>44, <1>45, <1>46, <1>47, <1>48
  DEF Next, MainStep, MonitorStep, DrainerStep, EnvironmentStep, StopStep, Interrupt

\* The judgement's invariant holds in every reachable state.
LEMMA JudgeInvariance == Spec => []JudgeInv
<1>1. Init => JudgeInv
  BY DEF Init, JudgeInv, PhaseInv, DrainedInv, FindingInv, ExitCodeAgrees, Succeeded,
     CleanCaptureIsComplete, OverBudgetMeansUnread, NoResult, Starting, Stopping, Early,
     Undecided, Judging, Threads, Main, Monitor, Preamble, Cleaning
<1>2. IInv /\ JudgeInv /\ [Next]_vars => JudgeInv'
  BY PhaseStep, DrainedStep, FindingStep DEF JudgeInv
<1>3. QED
  BY <1>1, <1>2, Invariance, PTL DEF Spec

\* A result's exit code goes with its status, and a capture that is not complete is
\* told, whatever the threads, the drainers and the interrupts interleave.
THEOREM ResultIsHonest == Spec => []ResultAgrees
<1>1. JudgeInv => ResultAgrees
  BY DEF JudgeInv, PhaseInv, DrainedInv, ResultAgrees
<1>2. QED
  BY <1>1, JudgeInvariance, PTL

\* An output over its budget, or a failure of the monitor, goes with a success only
\* when the failure is still in the queue: the caller's get_nowait came too early.
THEOREM OverBudgetIsUnread == Spec => []OverBudgetMeansUnread
<1>1. JudgeInv => OverBudgetMeansUnread
  BY DEF JudgeInv, FindingInv
<1>2. QED
  BY <1>1, JudgeInvariance, PTL

-----------------------------------------------------------------------------
(* The cleanup, however the call ends *)

\* The caller in its finally block.
Unwound == pc[Main] \in Unwinding \/ (Stopping /\ ret[Main] = "joinLate")

\* A removal was sent before a query, and by the time a container is gone; a call that
\* unwinds was interrupted; a result without one says so; and no call that raised has
\* not tried one.
ExitInv ==
  /\ \A t \in Threads : pc[t] = "ls" => removal = "sent"
  /\ container = "gone" => removal = "sent"
  /\ pc[Main] \in Preamble \union {"launch", "launchFailed"} => client = "none"
  /\ ret[Main] = "launchFailed" => client = "none"
  /\ ret[Main] = "raised" => interrupts >= 1
  /\ Unwound /\ result = NoResult => interrupts >= 1
  /\ result # NoResult /\ client # "none"
       => removal = "sent" \/ "container_teardown" \in result.events
  /\ pc[Main] = "raised" /\ client # "none" => removal # "none"

\* Every step keeps the account of the cleanup, if there is one interrupt at most.
LEMMA ExitStep == 
  MaxInterrupts <= 1 /\ IInv /\ JudgeInv /\ ExitInv /\ [Next]_vars => ExitInv'
<1> SUFFICES ASSUME MaxInterrupts <= 1, IInv, JudgeInv, ExitInv, [Next]_vars
             PROVE  ExitInv'
  OBVIOUS
<1>t. pc \in [Threads -> Locations] /\ ret \in [Threads -> Returns]
  BY DEF IInv, TypeOK
<1>r. NoResult.status = "none" /\ NoResult.exit = "none" /\ NoResult.events = {}
  BY DEF NoResult
<1>m. MaxInterrupts \in {0, 1} /\ interrupts \in 0 .. MaxInterrupts
  BY InterruptsAssumption DEF IInv, TypeOK
<1> USE <1>t, <1>r, <1>m DEF ExitInv, Unwound,
            Goto, Threads, Main, Monitor, daemonVars, stopVars, monitorVars,
            drainVars, callerVars, cleanupVars, Finished, Preamble, Supervising,
            Unwinding, Cleaning, Returns, Scanning, Starting, Stopping, Early, Undecided,
            Judging
<1>1. CASE ValidateSpec
  BY <1>1 DEF ValidateSpec, Check, Return
<1>2. CASE ResolveBinary
  BY <1>2 DEF ResolveBinary, Check, Return
<1>3. CASE VerifyImage
  BY <1>3 DEF VerifyImage, Check, Return
<1>4. CASE PrepareAudit
  BY <1>4 DEF PrepareAudit, Check, Return
<1>5. CASE Preflight
  BY <1>5 DEF Preflight, Return, ScanOutcomes
<1>6. CASE Create
  BY <1>6 DEF Create, Return, CreateUnconfirmed
<1>7. CASE Created
  BY <1>7 DEF Created, Return, CreateUnconfirmed
<1>8. CASE EnterStart
  BY <1>8 DEF EnterStart
<1>9. CASE Launch
  <2>0. pc[Main] = "launch" /\ client = "none" /\ result = NoResult
    BY <1>9 DEF Launch, JudgeInv, PhaseInv
  <2>1. UNCHANGED <<removal, container, result, interrupts>> /\ pc'[Monitor] = pc[Monitor]
    BY <1>9 DEF Launch, BeginCleanup
  <2>2. CASE pc'[Main] = "spawn" /\ ret' = ret
    <3>1. ret[Main] # "launchFailed"
      BY <2>0 DEF IInv, LockInv
    <3>2. QED
      BY <2>0, <2>1, <2>2, <3>1
  <2>3. CASE pc'[Main] = "rm" /\ ret'[Main] = "launchFailed" /\ client' = client
    BY <2>0, <2>1, <2>3
  <2>4. QED
    BY <1>9, <2>2, <2>3 DEF Launch, BeginCleanup
<1>10. CASE LaunchFailed
  BY <1>10 DEF LaunchFailed, Return
<1>11. CASE Spawn
  BY <1>11 DEF Spawn
<1>12. CASE SpawnRaises
  BY <1>12 DEF SpawnRaises, StartSome, CallStop
<1>13. CASE Wait
  BY <1>13 DEF Wait, CallStop, Exited
<1>14. CASE Signal
  BY <1>14 DEF Signal
<1>15. CASE JoinMonitor
  BY <1>15 DEF JoinMonitor
<1>16. CASE TakeFailure
  BY <1>16 DEF TakeFailure
<1>17. CASE CheckAlive
  BY <1>17 DEF CheckAlive, MonitorAlive
<1>18. CASE JoinDrainers
  BY <1>18 DEF JoinDrainers
<1>19. CASE Collect
  BY <1>19 DEF Collect, CallStop
<1>20. CASE Conclude
  <2>1. pc[Main] = "conclude" /\ pc'[Main] = "finally" /\ pc'[Monitor] = pc[Monitor]
        /\ UNCHANGED <<ret, removal, container, client, interrupts>>
    BY <1>20 DEF Conclude
  <2>2. PICK audit \in SUBSET {"audit"} : result' = Verdict(audit)
    BY <1>20 DEF Conclude
  <2>3. result'.status # "none" /\ lifecycle \subseteq result'.events
    BY <2>2 DEF Verdict
  <2>4. removal = "sent" \/ "container_teardown" \in lifecycle
    BY <2>1 DEF IInv, ReportInv
  <2>5. result' # NoResult /\ (removal = "sent" \/ "container_teardown" \in result'.events)
    BY <2>3, <2>4
  <2>6. QED
    BY <2>1, <2>5
<1>21. CASE FailClosed
  BY <1>21 DEF FailClosed, IInv, AbsenceInv, ConfirmedMeansGone
<1>22. CASE Finally
  BY <1>22 DEF Finally, CallStop
<1>23. CASE JoinLate
  BY <1>23 DEF JoinLate
<1>24. CASE Close
  BY <1>24 DEF Close, Unwind
<1>25. ASSUME NEW t \in Threads, Acquire(t) PROVE ExitInv'
  BY <1>25 DEF Acquire, IInv, LockInv
<1>26. ASSUME NEW t \in Threads, TerminateClient(t) PROVE ExitInv'
  BY <1>26 DEF TerminateClient, NoteTermination, BeginCleanup
<1>27. ASSUME NEW t \in Threads, RemoveContainer(t) PROVE ExitInv'
  <2>1. /\ pc[t] = "rm" /\ removal' # "none" /\ (removal = "sent" => removal' = "sent")
        /\ pc'[t] = "ls" => removal' = "sent" \/ ret[t] = "ls"
        /\ UNCHANGED <<ret, client, container, interrupts, result>>
    BY <1>27, NextRoundMoves DEF RemoveContainer, Unsent, EndCleanup
  <2>2. pc' = [pc EXCEPT ![t] = pc'[t]] /\ pc'[t] \in {"rm", "ls", ret[t]}
    BY <1>27, RemoveMoves
  <2>3. QED
    BY <2>1, <2>2 DEF IInv, LockInv
<1>28. ASSUME NEW t \in Threads, QueryAbsence(t) PROVE ExitInv'
  <2>1. /\ pc[t] = "ls" /\ removal = "sent"
        /\ UNCHANGED <<ret, removal, client, container, interrupts, result>>
    BY <1>28 DEF QueryAbsence
  <2>2. pc' = [pc EXCEPT ![t] = pc'[t]] /\ pc'[t] \in {"rm", "ls", ret[t]}
    BY <1>28, QueryMoves
  <2>3. QED
    BY <2>1, <2>2 DEF IInv, LockInv
<1>29. CASE Scan
  BY <1>29 DEF Scan, ScanOutcomes, CallStop, Scanning
<1>30. CASE Pause
  BY <1>30 DEF Pause
<1>31. CASE PutFailure
  BY <1>31 DEF PutFailure
<1>32. ASSUME NEW s \in Streams, DrainerEnds(s) PROVE ExitInv'
  BY <1>32 DEF DrainerEnds
<1>33. ASSUME NEW s \in Streams, DrainerFails(s) PROVE ExitInv'
  BY <1>33 DEF DrainerFails
<1>34. CASE DaemonCreates
  BY <1>34 DEF DaemonCreates, Environment
<1>35. CASE DaemonStarts
  BY <1>35 DEF DaemonStarts, Environment
<1>36. CASE TargetExits
  BY <1>36 DEF TargetExits, Environment
<1>37. CASE DaemonRemoves
  BY <1>37 DEF DaemonRemoves, Environment
<1>38. CASE TargetWrites
  BY <1>38 DEF TargetWrites, Environment
<1>39. CASE ClientExits
  BY <1>39 DEF ClientExits, Environment
<1>40. ASSUME InterruptPreamble, Delivered PROVE ExitInv'
  BY <1>40 DEF InterruptPreamble, Delivered
<1>41. ASSUME InterruptLaunch, Delivered PROVE ExitInv'
  <2>1. /\ pc[Main] = "launch" /\ pc'[Main] = "rm" /\ pc'[Monitor] = pc[Monitor]
        /\ ret'[Main] = "raised" /\ interrupts' = 1
        /\ UNCHANGED <<removal, container, result>>
    BY <1>41 DEF InterruptLaunch, BeginCleanup, Delivered
  <2>2. result = NoResult
    BY <2>1 DEF JudgeInv, PhaseInv
  <2>3. QED
    BY <2>1, <2>2
<1>42. ASSUME InterruptLaunchFailed, Delivered PROVE ExitInv'
  BY <1>42 DEF InterruptLaunchFailed, Delivered
<1>43. ASSUME InterruptSupervising, Delivered PROVE ExitInv'
  BY <1>43 DEF InterruptSupervising, StartSome, Delivered
<1>44. ASSUME InterruptLateAcquire, Delivered PROVE ExitInv'
  BY <1>44 DEF InterruptLateAcquire, Delivered
<1>45. ASSUME InterruptTerminate, Delivered PROVE ExitInv'
  BY <1>45 DEF InterruptTerminate, NoteTermination, BeginCleanup, Delivered
<1>46. ASSUME InterruptCleanup, Delivered PROVE ExitInv'
  <2>0. interrupts = 0 /\ interrupts' = 1
    BY <1>46 DEF Delivered
  <2>1. /\ pc[Main] \in {"rm", "ls"} /\ pc'[Main] = ret[Main] /\ pc'[Monitor] = pc[Monitor]
        /\ removal' \in {removal, "sent"} /\ UNCHANGED <<ret, client, container, result>>
    BY <1>46 DEF InterruptCleanup, EndCleanup, Delivered
  <2>2. ret[Main] # "raised"
    BY <2>0
  <2>4. CASE UNCHANGED removal
    BY <2>0, <2>1, <2>2, <2>4
  <2>5. CASE removal' = "sent"
    BY <2>0, <2>1, <2>2, <2>5
  <2>6. QED
    BY <2>1, <2>4, <2>5
<1>47. ASSUME InterruptFinally, Delivered PROVE ExitInv'
  BY <1>47 DEF InterruptFinally, Unwind, Delivered
<1>48. CASE UNCHANGED vars
  BY <1>48 DEF vars
<1>49. QED
  BY <1>1, <1>2, <1>3, <1>4, <1>5, <1>6, <1>7, <1>8, <1>9, <1>10, <1>11, <1>12, <1>13,
     <1>14, <1>15, <1>16, <1>17, <1>18, <1>19, <1>20, <1>21, <1>22, <1>23, <1>24, <1>25, <1>26,
     <1>27, <1>28, <1>29, <1>30, <1>31, <1>32, <1>33, <1>34, <1>35, <1>36, <1>37, <1>38, <1>39,
     <1>40, <1>41, <1>42, <1>43, <1>44, <1>45, <1>46, <1>47, <1>48
  DEF Next, MainStep, MonitorStep, DrainerStep, EnvironmentStep, StopStep, Interrupt

\* With at most one interrupt, a result of a launched run follows a `docker rm` that
\* was sent or reports the teardown, and a call that raises has tried to send one.
THEOREM CleanupHappens ==
  ASSUME MaxInterrupts <= 1
  PROVE  Spec => []CleanupOnEveryExit
<1>1. Init => ExitInv
  BY DEF Init, ExitInv, Unwound, Stopping, Unwinding, Cleaning, Threads, Main, Monitor
<1>2. IInv /\ JudgeInv /\ ExitInv /\ [Next]_vars => ExitInv'
  BY ExitStep
<1>3. IInv /\ ExitInv => CleanupOnEveryExit
  BY DEF IInv, ReportInv, ExitInv, CleanupOnEveryExit, Finished
<1>4. QED
  BY <1>1, <1>2, <1>3, Invariance, JudgeInvariance, PTL DEF Spec

-----------------------------------------------------------------------------
(* The promise *)

\* A step of execute is a step of its promise: it leaves the sandbox alone and an
\* ended call ended, or it is the daemon's.
StepShape ==
  \/ SandboxOf' = SandboxOf /\ (pc[Main] \in Finished => UNCHANGED <<pc[Main], result>>)
  \/ UNCHANGED <<pc, result>> /\ container = "pending" /\ container' = "created"
  \/ UNCHANGED <<pc, result>> /\ SandboxOf = "held" /\ SandboxOf' = "released"

\* Every step has that shape.
LEMMA ShapeStep == IInv /\ [Next]_vars => StepShape
<1> SUFFICES ASSUME IInv, [Next]_vars PROVE StepShape
  OBVIOUS
<1> USE DEF Goto, Threads, Main, Monitor, daemonVars, callerVars, Finished
<1>1. CASE ValidateSpec
  BY <1>1 DEF ValidateSpec, Check, Return, StepShape, SandboxOf
<1>2. CASE ResolveBinary
  BY <1>2 DEF ResolveBinary, Check, Return, StepShape, SandboxOf
<1>3. CASE VerifyImage
  BY <1>3 DEF VerifyImage, Check, Return, StepShape, SandboxOf
<1>4. CASE PrepareAudit
  BY <1>4 DEF PrepareAudit, Check, Return, StepShape, SandboxOf
<1>5. CASE Preflight
  BY <1>5 DEF Preflight, Return, ScanOutcomes, StepShape, SandboxOf
<1>6. CASE Create
  BY <1>6 DEF Create, Return, IInv, OwnershipInv, Preamble, StepShape, SandboxOf
<1>7. CASE Created
  BY <1>7 DEF Created, Return, CreateUnconfirmed, StepShape, SandboxOf
<1>8. CASE EnterStart
  BY <1>8 DEF EnterStart, StepShape, SandboxOf
<1>9. CASE Launch
  BY <1>9 DEF Launch, BeginCleanup, StepShape, SandboxOf
<1>10. CASE LaunchFailed
  BY <1>10 DEF LaunchFailed, Return, StepShape, SandboxOf
<1>11. CASE Spawn
  BY <1>11 DEF Spawn, StepShape, SandboxOf
<1>12. CASE SpawnRaises
  BY <1>12 DEF SpawnRaises, StartSome, CallStop, StepShape, SandboxOf
<1>13. CASE Wait
  BY <1>13 DEF Wait, CallStop, StepShape, SandboxOf
<1>14. CASE Signal
  BY <1>14 DEF Signal, StepShape, SandboxOf
<1>15. CASE JoinMonitor
  BY <1>15 DEF JoinMonitor, StepShape, SandboxOf
<1>16. CASE TakeFailure
  BY <1>16 DEF TakeFailure, StepShape, SandboxOf
<1>17. CASE CheckAlive
  BY <1>17 DEF CheckAlive, MonitorAlive, StepShape, SandboxOf
<1>18. CASE JoinDrainers
  BY <1>18 DEF JoinDrainers, StepShape, SandboxOf
<1>19. CASE Collect
  BY <1>19 DEF Collect, CallStop, StepShape, SandboxOf
<1>20. CASE Conclude
  BY <1>20 DEF Conclude, Verdict, StepShape, SandboxOf
<1>21. CASE FailClosed
  BY <1>21 DEF FailClosed, StepShape, SandboxOf
<1>22. CASE Finally
  BY <1>22 DEF Finally, CallStop, StepShape, SandboxOf
<1>23. CASE JoinLate
  BY <1>23 DEF JoinLate, StepShape, SandboxOf
<1>24. CASE Close
  BY <1>24 DEF Close, Unwind, StepShape, SandboxOf
<1>25. ASSUME NEW t \in Threads, Acquire(t) PROVE StepShape
  BY <1>25 DEF Acquire, IInv, TypeOK, StepShape, SandboxOf
<1>26. ASSUME NEW t \in Threads, TerminateClient(t) PROVE StepShape
  BY <1>26 DEF TerminateClient, BeginCleanup, IInv, TypeOK, StepShape, SandboxOf
<1>27. ASSUME NEW t \in Threads, RemoveContainer(t) PROVE StepShape
  <2>1. pc[t] = "rm"
    BY <1>27 DEF RemoveContainer
  <2>2. QED
    BY <1>27, <2>1, RemoveMoves DEF IInv, TypeOK, StepShape, SandboxOf
<1>28. ASSUME NEW t \in Threads, QueryAbsence(t) PROVE StepShape
  <2>1. pc[t] = "ls"
    BY <1>28 DEF QueryAbsence
  <2>2. QED
    BY <1>28, <2>1, QueryMoves DEF IInv, TypeOK, StepShape, SandboxOf
<1>29. CASE Scan
  BY <1>29 DEF Scan, CallStop, IInv, TypeOK, StepShape, SandboxOf
<1>30. CASE Pause
  BY <1>30 DEF Pause, IInv, TypeOK, StepShape, SandboxOf
<1>31. CASE PutFailure
  BY <1>31 DEF PutFailure, IInv, TypeOK, StepShape, SandboxOf
<1>32. ASSUME NEW s \in Streams, DrainerEnds(s) PROVE StepShape
  BY <1>32 DEF DrainerEnds, StepShape, SandboxOf
<1>33. ASSUME NEW s \in Streams, DrainerFails(s) PROVE StepShape
  BY <1>33 DEF DrainerFails, StepShape, SandboxOf
<1>34. CASE DaemonCreates
  BY <1>34 DEF DaemonCreates, Environment, Present, StepShape, SandboxOf
<1>35. CASE DaemonStarts
  BY <1>35 DEF DaemonStarts, Environment, Present, StepShape, SandboxOf
<1>36. CASE TargetExits
  BY <1>36 DEF TargetExits, Environment, Present, StepShape, SandboxOf
<1>37. CASE DaemonRemoves
  BY <1>37 DEF DaemonRemoves, Environment, Present, StepShape, SandboxOf
<1>38. CASE TargetWrites
  BY <1>38 DEF TargetWrites, Environment, Present, StepShape, SandboxOf
<1>39. CASE ClientExits
  BY <1>39 DEF ClientExits, Environment, Present, StepShape, SandboxOf
<1>40. ASSUME InterruptPreamble, Delivered PROVE StepShape
  BY <1>40 DEF InterruptPreamble, Delivered, Preamble, Supervising, Unwinding, StepShape, SandboxOf
<1>41. ASSUME InterruptLaunch, Delivered PROVE StepShape
  BY <1>41 DEF InterruptLaunch, Delivered, BeginCleanup, Preamble, Supervising, Unwinding, StepShape, SandboxOf
<1>42. ASSUME InterruptLaunchFailed, Delivered PROVE StepShape
  BY <1>42 DEF InterruptLaunchFailed, Delivered, Preamble, Supervising, Unwinding, StepShape, SandboxOf
<1>43. ASSUME InterruptSupervising, Delivered PROVE StepShape
  BY <1>43 DEF InterruptSupervising, Delivered, StartSome, Preamble, Supervising, Unwinding, StepShape, SandboxOf
<1>44. ASSUME InterruptLateAcquire, Delivered PROVE StepShape
  BY <1>44 DEF InterruptLateAcquire, Delivered, Preamble, Supervising, Unwinding, StepShape, SandboxOf
<1>45. ASSUME InterruptTerminate, Delivered PROVE StepShape
  BY <1>45 DEF InterruptTerminate, Delivered, NoteTermination, BeginCleanup, Preamble, Supervising, Unwinding, StepShape, SandboxOf
<1>46. ASSUME InterruptCleanup, Delivered PROVE StepShape
  BY <1>46 DEF InterruptCleanup, Delivered, EndCleanup, Preamble, Supervising, Unwinding, StepShape, SandboxOf
<1>47. ASSUME InterruptFinally, Delivered PROVE StepShape
  BY <1>47 DEF InterruptFinally, Delivered, Unwind, Preamble, Supervising, Unwinding, StepShape, SandboxOf
<1>48. CASE UNCHANGED vars
  BY <1>48 DEF vars, StepShape, SandboxOf
<1>49. QED
  BY <1>1, <1>2, <1>3, <1>4, <1>5, <1>6, <1>7, <1>8, <1>9, <1>10, <1>11, <1>12, <1>13,
     <1>14, <1>15, <1>16, <1>17, <1>18, <1>19, <1>20, <1>21, <1>22, <1>23, <1>24, <1>25,
     <1>26, <1>27, <1>28, <1>29, <1>30, <1>31, <1>32, <1>33, <1>34, <1>35, <1>36, <1>37,
     <1>38, <1>39, <1>40, <1>41, <1>42, <1>43, <1>44, <1>45, <1>46, <1>47, <1>48
  DEF Next, MainStep, MonitorStep, DrainerStep, EnvironmentStep, StopStep, Interrupt

\* execute keeps its promise to the caller: one sandbox, released before success,
\* disclosed when a result leaves it behind.
THEOREM PromiseKept == Spec => KeepsPromise
<1>1. Init => Abstract!Init
  BY DEF Init, Abstract!Init, SandboxOf, VerdictOf, DisclosedOf, Threads, Main, Monitor
<1>2. IInv /\ IInv' /\ [Next]_vars
        => [Abstract!Next]_<<SandboxOf, VerdictOf, DisclosedOf>>
  <2> SUFFICES ASSUME IInv, IInv', [Next]_vars
               PROVE  Abstract!Next \/ UNCHANGED <<SandboxOf, VerdictOf, DisclosedOf>>
    OBVIOUS
  <2>1. CASE SandboxOf' = SandboxOf /\ pc[Main] \in Finished
             /\ UNCHANGED <<pc[Main], result>>
    BY <2>1 DEF VerdictOf, DisclosedOf
  <2>2. CASE SandboxOf' = SandboxOf /\ pc[Main] \notin Finished
    <3>1. VerdictOf = "open" /\ DisclosedOf = FALSE
      BY <2>2 DEF VerdictOf, DisclosedOf, Finished
    <3>2. CASE pc'[Main] \notin Finished
      BY <2>2, <3>1, <3>2 DEF VerdictOf, DisclosedOf, Finished
    <3>3. CASE pc'[Main] \in Finished
      <4>1. VerdictOf' \in Abstract!Verdicts \ {"open"} /\ DisclosedOf' \in BOOLEAN
        BY <3>3 DEF VerdictOf, DisclosedOf, Finished, Abstract!Verdicts
      <4>2. VerdictOf' = "succeeded" => SandboxOf = "released"
        BY <2>2 DEF VerdictOf, SandboxOf, IInv, ReportInv, SuccessMeansTornDown, Succeeded
      <4>3. SandboxOf = "held"
              => VerdictOf' = "raised" \/ (VerdictOf' = "failed" /\ DisclosedOf')
        <5>1. SandboxOf = "held" => container' \in {"created", "running", "exited"}
          BY <2>2 DEF SandboxOf, IInv, TypeOK
        <5>2. QED
          BY <3>3, <5>1
          DEF VerdictOf, DisclosedOf, Finished, IInv, ReportInv, NoSilentOrphan
      <4>4. Abstract!Conclude(VerdictOf', DisclosedOf')
        BY <2>2, <3>1, <4>2, <4>3 DEF Abstract!Conclude
      <4>5. QED
        BY <4>1, <4>4 DEF Abstract!Next
    <3>4. QED
      BY <3>2, <3>3
  <2>3. CASE UNCHANGED <<pc, result>> /\ container = "pending" /\ container' = "created"
    <3>1. SandboxOf = "absent" /\ SandboxOf' = "held"
      BY <2>3 DEF SandboxOf
    <3>2. UNCHANGED <<VerdictOf, DisclosedOf>>
      BY <2>3 DEF VerdictOf, DisclosedOf
    <3>3. VerdictOf \in {"open", "raised"} \/ (VerdictOf = "failed" /\ DisclosedOf)
      BY <2>3 DEF VerdictOf, DisclosedOf, IInv, ReportInv, NoSilentOrphan
    <3>4. QED
      BY <3>1, <3>2, <3>3 DEF Abstract!Next, Abstract!Acquire
  <2>4. CASE UNCHANGED <<pc, result>> /\ SandboxOf = "held" /\ SandboxOf' = "released"
    <3>1. UNCHANGED <<VerdictOf, DisclosedOf>>
      BY <2>4 DEF VerdictOf, DisclosedOf
    <3>2. QED
      BY <2>4, <3>1 DEF Abstract!Next, Abstract!Release
  <2>5. QED
    BY <2>1, <2>2, <2>3, <2>4, ShapeStep DEF StepShape
<1>3. QED
  BY <1>1, <1>2, Invariance, PTL DEF Spec, KeepsPromise, Abstract!Spec
=============================================================================
