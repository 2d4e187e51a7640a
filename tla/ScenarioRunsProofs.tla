-------------------------- MODULE ScenarioRunsProofs --------------------------
(***************************************************************************)
(* The state machine of a scenario run, its manifest and its counters, for *)
(* any number of runs, events and faults: RunIInv is inductive, and the    *)
(* three action properties follow from it.                                 *)
(***************************************************************************)
EXTENDS ScenarioRuns, TLAPS

USE DEF tableVars, taskVars, progVars, faultVars

(* A disturbance is counted, and a failed database call remembered. *)
LEMMA FaultType ==
    ASSUME TypeOK, (\E k \in FaultKinds : Fault(k)) \/ UNCHANGED faultVars
    PROVE  budget' \in 0 .. MaxFaults /\ dbFailed' \in BOOLEAN
<1>1. budget' \in 0 .. MaxFaults
  BY ScenarioAssumption DEF TypeOK, Fault
<1>2. dbFailed' \in BOOLEAN
  BY Zenon DEF TypeOK, Fault
<1> QED BY <1>1, <1>2

(* The process starts with no runs. *)
LEMMA InitInv == Init => RunIInv
<1> SUFFICES ASSUME Init PROVE RunIInv
  OBVIOUS
<1> USE ScenarioAssumption DEF Init
<1>1. TypeOK
  <2>1. 0 \in 0 .. EventCount /\ budget \in 0 .. MaxFaults
    OBVIOUS
  <2>2. thread \in [Run -> 0 .. EventCount \cup {NoRefresh}]
    OBVIOUS
  <2> QED BY <2>1, <2>2, Zenon DEF TypeOK, Status, TaskState
<1>2. ManifestBeforeKafka /\ ActiveIsOwned
  BY DEF ManifestBeforeKafka, ActiveIsOwned, Active
<1>3. TaskFitsStatus /\ CancelledIsStopped /\ StopReachesTask /\ DownIsIdle
  BY DEF TaskFitsStatus, CancelledIsStopped, StopReachesTask, DownIsIdle, Generating
<1>4. CountsBehind
  BY DEF CountsBehind
<1> QED BY <1>1, <1>2, <1>3, <1>4 DEF RunIInv, RunInv

(* A new run is STARTING with its task, PENDING without one, or left by a  *)
(* failed call that the flag remembers.                                    *)
LEMMA CreateKeeps ==
    ASSUME RunIInv, NEW r \in Run, Create(r) \/ CreateFails(r)
    PROVE  RunIInv'
<1> USE DEF RunIInv, RunInv, TypeOK, Create, CreateFails, SetStatus, Fault, Live
<1>1. TypeOK'
  BY ScenarioAssumption DEF Status, Active, Terminal, TaskState, NoRefresh
<1>2. TaskFitsStatus'
  BY DEF TaskFitsStatus, Generating, Terminal
<1>3. CancelledIsStopped'
  BY DEF CancelledIsStopped, TaskFitsStatus, Generating, Terminal
<1>4. StopReachesTask' /\ ActiveIsOwned'
  BY DEF StopReachesTask, ActiveIsOwned, TaskFitsStatus, DownIsIdle, CancelledIsStopped,
         Live, Generating, Active, Terminal
<1>5. DownIsIdle'
  BY DEF DownIsIdle
<1>6. ManifestBeforeKafka' /\ CountsBehind'
  BY ScenarioAssumption DEF ManifestBeforeKafka, CountsBehind, TaskFitsStatus, NoRefresh, Generating
<1> QED BY <1>1, <1>2, <1>3, <1>4, <1>5, <1>6

(* stop_run: the status leaves RUNNING before cancel() is called. *)
LEMMA StopKeeps ==
    ASSUME RunIInv, NEW r \in Run, Stop(r) \/ StopFails(r)
    PROVE  RunIInv'
<1> USE DEF RunIInv, RunInv, TypeOK, Stop, StopFails, SetStatus, Live
<1>0. UNCHANGED faultVars \/ \E k \in FaultKinds : Fault(k)
  BY DEF Fault
<1>1. TypeOK'
  <2>1. status' \in [Run -> Status]
    BY DEF Status, Active, Terminal
  <2>2. /\ counted' \in [Run -> 0 .. EventCount]
        /\ manifest' \in [Run -> 0 .. EventCount]
        /\ published' \in [Run -> 0 .. EventCount]
        /\ refreshed' \in [Run -> 0 .. EventCount]
    BY ScenarioAssumption DEF NoRefresh
  <2>3. task' \in [Run -> TaskState]
    BY DEF TaskState
  <2>4. /\ cancelled' \in [Run -> BOOLEAN]
        /\ why' \in [Run -> {"none", "cancel", "timeout", "error"}]
        /\ updater' \in [Run -> {"off", "wait", "refresh", "done", "failed"}]
        /\ stopProgress' \in [Run -> BOOLEAN]
    OBVIOUS
  <2>5. thread' \in [Run -> 0 .. EventCount \cup {NoRefresh}]
    BY ScenarioAssumption DEF NoRefresh
  <2>6. up' \in BOOLEAN
    OBVIOUS
  <2>7. budget' \in 0 .. MaxFaults /\ dbFailed' \in BOOLEAN
    BY <1>0, FaultType
  <2> QED BY <2>1, <2>2, <2>3, <2>4, <2>5, <2>6, <2>7
<1>2. TaskFitsStatus'
  BY DEF TaskFitsStatus, Generating, Terminal
<1>3. CancelledIsStopped'
  BY DEF CancelledIsStopped, TaskFitsStatus, Generating, Terminal, TaskState
<1>4. StopReachesTask' /\ ActiveIsOwned'
  BY DEF StopReachesTask, ActiveIsOwned, TaskFitsStatus, DownIsIdle, CancelledIsStopped,
         Live, Generating, Active, Terminal, Fault
<1>5. DownIsIdle'
  BY DEF DownIsIdle
<1>6. ManifestBeforeKafka' /\ CountsBehind'
  BY ScenarioAssumption DEF ManifestBeforeKafka, CountsBehind, TaskFitsStatus, NoRefresh, Generating
<1> QED BY <1>1, <1>2, <1>3, <1>4, <1>5, <1>6

(* cleanup_run removes a run no task is generating for. *)
LEMMA CleanupKeeps ==
    ASSUME RunIInv, NEW r \in Run, Cleanup(r)
    PROVE  RunIInv'
<1> USE DEF RunIInv, RunInv, TypeOK, Cleanup, SetStatus
<1>1. TypeOK'
  BY ScenarioAssumption DEF Status, Active, Terminal, TaskState, NoRefresh
<1>2. TaskFitsStatus'
  BY DEF TaskFitsStatus, Generating, Terminal
<1>3. CancelledIsStopped'
  BY DEF CancelledIsStopped, TaskFitsStatus, Generating, Terminal
<1>4. StopReachesTask' /\ ActiveIsOwned'
  BY DEF StopReachesTask, ActiveIsOwned, TaskFitsStatus, DownIsIdle, CancelledIsStopped,
         Live, Generating, Active, Terminal
<1>5. DownIsIdle'
  BY DEF DownIsIdle
<1>6. ManifestBeforeKafka' /\ CountsBehind'
  BY ScenarioAssumption DEF ManifestBeforeKafka, CountsBehind, TaskFitsStatus, NoRefresh, Generating
<1> QED BY <1>1, <1>2, <1>3, <1>4, <1>5, <1>6

(* A created task finds its run STARTING. *)
LEMMA BeginKeeps ==
    ASSUME RunIInv, NEW r \in Run, Begin(r) \/ BeginFails(r)
    PROVE  RunIInv'
<1> USE DEF RunIInv, RunInv, TypeOK, Begin, BeginFails, SetStatus
<1>0. UNCHANGED faultVars \/ \E k \in FaultKinds : Fault(k)
  BY DEF Fault
<1>1. TypeOK'
  <2>1. status' \in [Run -> Status]
    BY DEF Status, Active, Terminal
  <2>2. /\ counted' \in [Run -> 0 .. EventCount]
        /\ manifest' \in [Run -> 0 .. EventCount]
        /\ published' \in [Run -> 0 .. EventCount]
        /\ refreshed' \in [Run -> 0 .. EventCount]
    BY ScenarioAssumption DEF NoRefresh
  <2>3. task' \in [Run -> TaskState]
    BY DEF TaskState
  <2>4. /\ cancelled' \in [Run -> BOOLEAN]
        /\ why' \in [Run -> {"none", "cancel", "timeout", "error"}]
        /\ updater' \in [Run -> {"off", "wait", "refresh", "done", "failed"}]
        /\ stopProgress' \in [Run -> BOOLEAN]
    OBVIOUS
  <2>5. thread' \in [Run -> 0 .. EventCount \cup {NoRefresh}]
    BY ScenarioAssumption DEF NoRefresh
  <2>6. up' \in BOOLEAN
    OBVIOUS
  <2>7. budget' \in 0 .. MaxFaults /\ dbFailed' \in BOOLEAN
    BY <1>0, FaultType
  <2> QED BY <2>1, <2>2, <2>3, <2>4, <2>5, <2>6, <2>7
<1>2. TaskFitsStatus'
  BY DEF TaskFitsStatus, Generating, Terminal
<1>3. CancelledIsStopped'
  BY DEF CancelledIsStopped, TaskFitsStatus, Generating, Terminal
<1>4. StopReachesTask' /\ ActiveIsOwned'
  BY DEF StopReachesTask, ActiveIsOwned, TaskFitsStatus, DownIsIdle, CancelledIsStopped,
         Live, Generating, Active, Terminal, Fault
<1>5. DownIsIdle'
  BY DEF DownIsIdle
<1>6. ManifestBeforeKafka' /\ CountsBehind'
  BY ScenarioAssumption DEF ManifestBeforeKafka, CountsBehind, TaskFitsStatus, NoRefresh, Generating
<1> QED BY <1>1, <1>2, <1>3, <1>4, <1>5, <1>6

(* The manifest runs ahead of Kafka and stays within the requested count. *)
LEMMA GenerateKeeps ==
    ASSUME RunIInv, NEW r \in Run, Journey(r) \/ Publish(r)
    PROVE  RunIInv'
<1> USE DEF RunIInv, RunInv, TypeOK, Journey, Publish
<1>1. TypeOK'
  BY ScenarioAssumption DEF Status, Active, Terminal, TaskState, NoRefresh
<1>2. TaskFitsStatus'
  BY DEF TaskFitsStatus, Generating, Terminal
<1>3. CancelledIsStopped'
  BY DEF CancelledIsStopped, TaskFitsStatus, Generating, Terminal
<1>4. StopReachesTask' /\ ActiveIsOwned'
  BY DEF StopReachesTask, ActiveIsOwned, TaskFitsStatus, DownIsIdle, CancelledIsStopped,
         Live, Generating, Active, Terminal
<1>5. DownIsIdle'
  BY DEF DownIsIdle
<1>6. ManifestBeforeKafka' /\ CountsBehind'
  BY ScenarioAssumption DEF ManifestBeforeKafka, CountsBehind, TaskFitsStatus, NoRefresh, Generating
<1> QED BY <1>1, <1>2, <1>3, <1>4, <1>5, <1>6

(* The task waits for its updater. *)
LEMMA FlushKeeps ==
    ASSUME RunIInv, NEW r \in Run, Flush(r) \/ AwaitUpdater(r)
    PROVE  RunIInv'
<1> USE DEF RunIInv, RunInv, TypeOK, Flush, AwaitUpdater
<1>1. TypeOK'
  BY ScenarioAssumption DEF Status, Active, Terminal, TaskState, NoRefresh
<1>2. TaskFitsStatus'
  BY DEF TaskFitsStatus, Generating, Terminal
<1>3. CancelledIsStopped'
  BY DEF CancelledIsStopped, TaskFitsStatus, Generating, Terminal
<1>4. StopReachesTask' /\ ActiveIsOwned'
  BY DEF StopReachesTask, ActiveIsOwned, TaskFitsStatus, DownIsIdle, CancelledIsStopped,
         Live, Generating, Active, Terminal
<1>5. DownIsIdle'
  BY DEF DownIsIdle
<1>6. ManifestBeforeKafka' /\ CountsBehind'
  BY ScenarioAssumption DEF ManifestBeforeKafka, CountsBehind, TaskFitsStatus, NoRefresh, Generating
<1> QED BY <1>1, <1>2, <1>3, <1>4, <1>5, <1>6

(* A task that returns leaves STOP_REQUESTED alone only when the stop's    *)
(* database call had failed.                                               *)
LEMMA CompleteKeeps ==
    ASSUME RunIInv, NEW r \in Run, Complete(r)
    PROVE  RunIInv'
<1> USE DEF RunIInv, RunInv, TypeOK, Complete, SetStatus
<1>1. TypeOK'
  BY ScenarioAssumption DEF Status, Active, Terminal, TaskState, NoRefresh
<1>2. TaskFitsStatus'
  BY DEF TaskFitsStatus, Generating, Terminal
<1>3. CancelledIsStopped'
  BY DEF CancelledIsStopped, TaskFitsStatus, Generating, Terminal
<1>4. StopReachesTask' /\ ActiveIsOwned'
  BY DEF StopReachesTask, ActiveIsOwned, TaskFitsStatus, DownIsIdle, CancelledIsStopped,
         Live, Generating, Active, Terminal
<1>5. DownIsIdle'
  BY DEF DownIsIdle
<1>6. ManifestBeforeKafka' /\ CountsBehind'
  BY ScenarioAssumption DEF ManifestBeforeKafka, CountsBehind, TaskFitsStatus, NoRefresh, Generating
<1> QED BY <1>1, <1>2, <1>3, <1>4, <1>5, <1>6

(* An exception leaves _generate: cancellation, a timeout or an error. *)
LEMMA UnwindKeeps ==
    ASSUME RunIInv, NEW r \in Run, Interrupt(r) \/ Timeout(r) \/ TaskFails(r)
    PROVE  RunIInv'
<1> USE DEF RunIInv, RunInv, TypeOK, Interrupt, Timeout, TaskFails, Unwind, SetStatus
<1>0. UNCHANGED faultVars \/ \E k \in FaultKinds : Fault(k)
  BY DEF Fault
<1>1. TypeOK'
  <2>1. status' \in [Run -> Status]
    BY DEF Status, Active, Terminal
  <2>2. /\ counted' \in [Run -> 0 .. EventCount]
        /\ manifest' \in [Run -> 0 .. EventCount]
        /\ published' \in [Run -> 0 .. EventCount]
        /\ refreshed' \in [Run -> 0 .. EventCount]
    BY ScenarioAssumption DEF NoRefresh
  <2>3. task' \in [Run -> TaskState]
    BY DEF TaskState
  <2>4. /\ cancelled' \in [Run -> BOOLEAN]
        /\ why' \in [Run -> {"none", "cancel", "timeout", "error"}]
        /\ updater' \in [Run -> {"off", "wait", "refresh", "done", "failed"}]
        /\ stopProgress' \in [Run -> BOOLEAN]
    OBVIOUS
  <2>5. thread' \in [Run -> 0 .. EventCount \cup {NoRefresh}]
    BY ScenarioAssumption DEF NoRefresh
  <2>6. up' \in BOOLEAN
    OBVIOUS
  <2>7. budget' \in 0 .. MaxFaults /\ dbFailed' \in BOOLEAN
    BY <1>0, FaultType
  <2> QED BY <2>1, <2>2, <2>3, <2>4, <2>5, <2>6, <2>7
<1>2. TaskFitsStatus'
  BY DEF TaskFitsStatus, Generating, Terminal
<1>3. CancelledIsStopped'
  BY DEF CancelledIsStopped, TaskFitsStatus, Generating, Terminal
<1>4. StopReachesTask' /\ ActiveIsOwned'
  BY DEF StopReachesTask, ActiveIsOwned, TaskFitsStatus, DownIsIdle, CancelledIsStopped,
         Live, Generating, Active, Terminal, Fault
<1>5. DownIsIdle'
  BY DEF DownIsIdle
<1>6. ManifestBeforeKafka' /\ CountsBehind'
  BY ScenarioAssumption DEF ManifestBeforeKafka, CountsBehind, TaskFitsStatus, NoRefresh, Generating
<1> QED BY <1>1, <1>2, <1>3, <1>4, <1>5, <1>6

(* The handlers of _execute end the run unless their own call fails. *)
LEMMA EndKeeps ==
    ASSUME RunIInv, NEW r \in Run, End(r)
    PROVE  RunIInv'
<1> USE DEF RunIInv, RunInv, TypeOK, End, SetStatus, Verdict, Reason
<1>0. UNCHANGED faultVars \/ \E k \in FaultKinds : Fault(k)
  BY DEF Fault
<1>1. TypeOK'
  <2>1. status' \in [Run -> Status]
    BY DEF Status, Active, Terminal
  <2>2. /\ counted' \in [Run -> 0 .. EventCount]
        /\ manifest' \in [Run -> 0 .. EventCount]
        /\ published' \in [Run -> 0 .. EventCount]
        /\ refreshed' \in [Run -> 0 .. EventCount]
    BY ScenarioAssumption DEF NoRefresh
  <2>3. task' \in [Run -> TaskState]
    BY DEF TaskState
  <2>4. /\ cancelled' \in [Run -> BOOLEAN]
        /\ why' \in [Run -> {"none", "cancel", "timeout", "error"}]
        /\ updater' \in [Run -> {"off", "wait", "refresh", "done", "failed"}]
        /\ stopProgress' \in [Run -> BOOLEAN]
    OBVIOUS
  <2>5. thread' \in [Run -> 0 .. EventCount \cup {NoRefresh}]
    BY ScenarioAssumption DEF NoRefresh
  <2>6. up' \in BOOLEAN
    OBVIOUS
  <2>7. budget' \in 0 .. MaxFaults /\ dbFailed' \in BOOLEAN
    BY <1>0, FaultType
  <2> QED BY <2>1, <2>2, <2>3, <2>4, <2>5, <2>6, <2>7
<1>2. TaskFitsStatus'
  BY DEF TaskFitsStatus, Generating, Terminal
<1>3. CancelledIsStopped'
  BY DEF CancelledIsStopped, TaskFitsStatus, Generating, Terminal
<1>4. StopReachesTask' /\ ActiveIsOwned'
  BY DEF StopReachesTask, ActiveIsOwned, TaskFitsStatus, DownIsIdle, CancelledIsStopped,
         Live, Generating, Active, Terminal, Fault
<1>5. DownIsIdle'
  BY DEF DownIsIdle
<1>6. ManifestBeforeKafka' /\ CountsBehind'
  BY ScenarioAssumption DEF ManifestBeforeKafka, CountsBehind, TaskFitsStatus, NoRefresh, Generating
<1> QED BY <1>1, <1>2, <1>3, <1>4, <1>5, <1>6

(* The updater starts a refresh with a count at least as high as the last. *)
LEMMA UpdaterKeeps ==
    ASSUME RunIInv, NEW r \in Run, UpdaterWakes(r) \/ UpdaterResumes(r)
    PROVE  RunIInv'
<1> USE DEF RunIInv, RunInv, TypeOK, UpdaterWakes, UpdaterResumes
<1>1. TypeOK'
  BY ScenarioAssumption DEF Status, Active, Terminal, TaskState, NoRefresh
<1>2. TaskFitsStatus'
  BY DEF TaskFitsStatus, Generating, Terminal
<1>3. CancelledIsStopped'
  BY DEF CancelledIsStopped, TaskFitsStatus, Generating, Terminal
<1>4. StopReachesTask' /\ ActiveIsOwned'
  BY DEF StopReachesTask, ActiveIsOwned, TaskFitsStatus, DownIsIdle, CancelledIsStopped,
         Live, Generating, Active, Terminal
<1>5. DownIsIdle'
  BY DEF DownIsIdle
<1>6. ManifestBeforeKafka' /\ CountsBehind'
  BY ScenarioAssumption DEF ManifestBeforeKafka, CountsBehind, TaskFitsStatus, NoRefresh, Generating
<1> QED BY <1>1, <1>2, <1>3, <1>4, <1>5, <1>6

(* The thread writes the count it was started with. *)
LEMMA RefreshKeeps ==
    ASSUME RunIInv, NEW r \in Run, Refresh(r) \/ RefreshFails(r)
    PROVE  RunIInv'
<1> USE DEF RunIInv, RunInv, TypeOK, Refresh, RefreshFails
<1>0. UNCHANGED faultVars \/ \E k \in FaultKinds : Fault(k)
  BY DEF Fault
<1>1. TypeOK'
  <2>1. status' \in [Run -> Status]
    BY DEF Status, Active, Terminal
  <2>2. /\ counted' \in [Run -> 0 .. EventCount]
        /\ manifest' \in [Run -> 0 .. EventCount]
        /\ published' \in [Run -> 0 .. EventCount]
        /\ refreshed' \in [Run -> 0 .. EventCount]
    BY ScenarioAssumption DEF NoRefresh
  <2>3. task' \in [Run -> TaskState]
    BY DEF TaskState
  <2>4. /\ cancelled' \in [Run -> BOOLEAN]
        /\ why' \in [Run -> {"none", "cancel", "timeout", "error"}]
        /\ updater' \in [Run -> {"off", "wait", "refresh", "done", "failed"}]
        /\ stopProgress' \in [Run -> BOOLEAN]
    OBVIOUS
  <2>5. thread' \in [Run -> 0 .. EventCount \cup {NoRefresh}]
    BY ScenarioAssumption DEF NoRefresh
  <2>6. up' \in BOOLEAN
    OBVIOUS
  <2>7. budget' \in 0 .. MaxFaults /\ dbFailed' \in BOOLEAN
    BY <1>0, FaultType
  <2> QED BY <2>1, <2>2, <2>3, <2>4, <2>5, <2>6, <2>7
<1>2. TaskFitsStatus'
  BY DEF TaskFitsStatus, Generating, Terminal
<1>3. CancelledIsStopped'
  BY DEF CancelledIsStopped, TaskFitsStatus, Generating, Terminal
<1>4. StopReachesTask' /\ ActiveIsOwned'
  BY DEF StopReachesTask, ActiveIsOwned, TaskFitsStatus, DownIsIdle, CancelledIsStopped,
         Live, Generating, Active, Terminal, Fault
<1>5. DownIsIdle'
  BY DEF DownIsIdle
<1>6. ManifestBeforeKafka' /\ CountsBehind'
  BY ScenarioAssumption DEF ManifestBeforeKafka, CountsBehind, TaskFitsStatus, NoRefresh, Generating
<1> QED BY <1>1, <1>2, <1>3, <1>4, <1>5, <1>6

(* A crash ends every task. *)
LEMMA CrashKeeps ==
    ASSUME RunIInv, Crash
    PROVE  RunIInv'
<1> USE DEF RunIInv, RunInv, TypeOK, Crash
<1>0. UNCHANGED faultVars \/ \E k \in FaultKinds : Fault(k)
  BY DEF Fault
<1>1. TypeOK'
  <2>1. status' \in [Run -> Status]
    BY DEF Status, Active, Terminal
  <2>2. /\ counted' \in [Run -> 0 .. EventCount]
        /\ manifest' \in [Run -> 0 .. EventCount]
        /\ published' \in [Run -> 0 .. EventCount]
        /\ refreshed' \in [Run -> 0 .. EventCount]
    BY ScenarioAssumption DEF NoRefresh
  <2>3. task' \in [Run -> TaskState]
    BY DEF TaskState
  <2>4. /\ cancelled' \in [Run -> BOOLEAN]
        /\ why' \in [Run -> {"none", "cancel", "timeout", "error"}]
        /\ updater' \in [Run -> {"off", "wait", "refresh", "done", "failed"}]
        /\ stopProgress' \in [Run -> BOOLEAN]
    OBVIOUS
  <2>5. thread' \in [Run -> 0 .. EventCount \cup {NoRefresh}]
    BY ScenarioAssumption DEF NoRefresh
  <2>6. up' \in BOOLEAN
    OBVIOUS
  <2>7. budget' \in 0 .. MaxFaults /\ dbFailed' \in BOOLEAN
    BY <1>0, FaultType
  <2> QED BY <2>1, <2>2, <2>3, <2>4, <2>5, <2>6, <2>7
<1>2. TaskFitsStatus'
  BY DEF TaskFitsStatus, Generating, Terminal
<1>3. CancelledIsStopped'
  BY DEF CancelledIsStopped, TaskFitsStatus, Generating, Terminal
<1>4. StopReachesTask' /\ ActiveIsOwned'
  BY DEF StopReachesTask, ActiveIsOwned, TaskFitsStatus, DownIsIdle, CancelledIsStopped,
         Live, Generating, Active, Terminal, Fault
<1>5. DownIsIdle'
  BY DEF DownIsIdle
<1>6. ManifestBeforeKafka' /\ CountsBehind'
  BY ScenarioAssumption DEF ManifestBeforeKafka, CountsBehind, TaskFitsStatus, NoRefresh, Generating
<1> QED BY <1>1, <1>2, <1>3, <1>4, <1>5, <1>6

(* Reconciliation leaves no active run behind. *)
LEMMA RestartKeeps ==
    ASSUME RunIInv, Restart
    PROVE  RunIInv'
<1> USE DEF RunIInv, RunInv, TypeOK, Restart
<1>1. TypeOK'
  <2>1. status' \in [Run -> Status]
    BY DEF Status, Active, Terminal
  <2>2. /\ counted' \in [Run -> 0 .. EventCount]
        /\ manifest' \in [Run -> 0 .. EventCount]
        /\ published' \in [Run -> 0 .. EventCount]
        /\ refreshed' \in [Run -> 0 .. EventCount]
    BY ScenarioAssumption DEF NoRefresh
  <2>3. task' \in [Run -> TaskState]
    BY DEF TaskState
  <2>4. /\ cancelled' \in [Run -> BOOLEAN]
        /\ why' \in [Run -> {"none", "cancel", "timeout", "error"}]
        /\ updater' \in [Run -> {"off", "wait", "refresh", "done", "failed"}]
        /\ stopProgress' \in [Run -> BOOLEAN]
    OBVIOUS
  <2>5. thread' \in [Run -> 0 .. EventCount \cup {NoRefresh}]
    BY ScenarioAssumption DEF NoRefresh
  <2>6. up' \in BOOLEAN
    OBVIOUS
  <2>7. budget' \in 0 .. MaxFaults /\ dbFailed' \in BOOLEAN
    OBVIOUS
  <2> QED BY <2>1, <2>2, <2>3, <2>4, <2>5, <2>6, <2>7
<1>2. TaskFitsStatus'
  BY DEF TaskFitsStatus, Generating, DownIsIdle
<1>3. CancelledIsStopped'
  BY DEF CancelledIsStopped, TaskFitsStatus, Generating, Terminal
<1>4. StopReachesTask' /\ ActiveIsOwned'
  BY DEF StopReachesTask, ActiveIsOwned, TaskFitsStatus, DownIsIdle, CancelledIsStopped,
         Live, Generating, Active, Terminal
<1>5. DownIsIdle'
  BY DEF DownIsIdle
<1>6. ManifestBeforeKafka' /\ CountsBehind'
  BY ScenarioAssumption DEF ManifestBeforeKafka, CountsBehind, TaskFitsStatus, NoRefresh, Generating
<1> QED BY <1>1, <1>2, <1>3, <1>4, <1>5, <1>6

-----------------------------------------------------------------------------
(* Every step keeps the invariant. *)
LEMMA StepKeeps == RunIInv /\ [Next]_vars => RunIInv'
<1> SUFFICES ASSUME RunIInv, [Next]_vars PROVE RunIInv'
  OBVIOUS
<1>1. ASSUME NEW r \in Run,
             Create(r) \/ CreateFails(r) \/ Stop(r) \/ StopFails(r) \/ Cleanup(r)
      PROVE  RunIInv'
  BY <1>1, CreateKeeps, StopKeeps, CleanupKeeps
<1>2. ASSUME NEW r \in Run, TaskStep(r) \/ BeginFails(r) \/ Timeout(r)
      PROVE  RunIInv'
  BY <1>2, BeginKeeps, GenerateKeeps, FlushKeeps, CompleteKeeps, UnwindKeeps, EndKeeps
     DEF TaskStep
<1>3. ASSUME NEW r \in Run, UpdaterStep(r) \/ RefreshFails(r)
      PROVE  RunIInv'
  BY <1>3, UpdaterKeeps, RefreshKeeps DEF UpdaterStep
<1>4. CASE UNCHANGED vars
  BY <1>4 DEF vars, RunIInv, RunInv, TypeOK, ManifestBeforeKafka, ActiveIsOwned, Live,
              TaskFitsStatus, CancelledIsStopped, StopReachesTask, DownIsIdle,
              CountsBehind, Generating
<1> QED BY <1>1, <1>2, <1>3, <1>4, CrashKeeps, RestartKeeps DEF Next

(* The inductive invariant holds in every reachable state. *)
THEOREM RunIInvHolds == Spec => []RunIInv
BY InitInv, StepKeeps, PTL DEF Spec

(* No event is in Kafka before the manifest, and no run is active without  *)
(* a task unless a database call has failed since the last start           *)
(* (scenario_runner.py:56-284).                                            *)
THEOREM RunCorrect == Spec => []RunInv
<1>1. RunIInv => RunInv
  BY DEF RunIInv
<1> QED BY <1>1, RunIInvHolds, PTL

-----------------------------------------------------------------------------
(* Whoever writes the status follows the documented state machine          *)
(* (docs/demo-control-center.md:68-79).                                    *)
THEOREM DocumentedTransitionsHold == Spec => DocumentedTransitions
<1> DEFINE Documented(r) ==
             status'[r] # status[r] =>
                \/ status[r] = "ABSENT" /\ status'[r] \in {"PENDING", "STARTING"}
                \/ status[r] \in Terminal /\ status'[r] = "DELETED"
                \/ TransitionAllowed(status[r], status'[r])
<1>1. ASSUME RunIInv, Next, NEW r \in Run PROVE Documented(r)
  <2> USE DEF RunIInv, RunInv, TypeOK, TransitionAllowed, SetStatus
  <2>1. CASE UNCHANGED status
    BY <2>1
  <2>2. ASSUME NEW q \in Run, Create(q) \/ CreateFails(q) \/ Stop(q) \/ StopFails(q) \/ Cleanup(q)
        PROVE  Documented(r)
    BY <1>1, <2>2 DEF Create, CreateFails, Stop, StopFails, Cleanup
  <2>3. ASSUME NEW q \in Run, Begin(q) \/ BeginFails(q)
        PROVE  Documented(r)
    BY <1>1, <2>3 DEF Begin, BeginFails, TaskFitsStatus
  <2>4. ASSUME NEW q \in Run, Complete(q) \/ TaskFails(q)
        PROVE  Documented(r)
    BY <1>1, <2>4 DEF Complete, TaskFails
  <2>5. ASSUME NEW q \in Run, End(q)
        PROVE  Documented(r)
    BY <1>1, <2>5 DEF End, Verdict, TaskFitsStatus, Terminal
  <2>6. CASE Restart
    BY <1>1, <2>6 DEF Restart
  <2>7. ASSUME NEW q \in Run,
               \/ Journey(q) \/ Publish(q) \/ Flush(q) \/ AwaitUpdater(q) \/ Interrupt(q)
               \/ Timeout(q) \/ UpdaterStep(q) \/ RefreshFails(q)
        PROVE  UNCHANGED status
    BY <2>7 DEF Journey, Publish, Flush, AwaitUpdater, Interrupt, Timeout, UpdaterStep,
                UpdaterWakes, Refresh, UpdaterResumes, RefreshFails
  <2>8. CASE Crash
    BY <2>8 DEF Crash
  <2> QED BY <1>1, <2>1, <2>2, <2>3, <2>4, <2>5, <2>6, <2>7, <2>8 DEF Next, TaskStep
<1>2. RunIInv /\ [Next]_vars => [\A r \in Run : Documented(r)]_vars
  BY <1>1
<1> QED BY <1>2, RunIInvHolds, PTL DEF Spec, DocumentedTransitions

(* No event is sent for a run that was reported as ended or removed        *)
(* (scenario_runner.py:72-118).                                            *)
THEOREM SettledRunsAreQuietHolds == Spec => SettledRunsAreQuiet
<1> DEFINE Quiet(r) == status[r] \in Terminal \cup {"DELETED"} => published'[r] = published[r]
<1>1. ASSUME RunIInv, Next, NEW r \in Run PROVE Quiet(r)
  <2>1. ASSUME NEW q \in Run, Publish(q) PROVE Quiet(r)
    BY <1>1, <2>1 DEF RunIInv, RunInv, TypeOK, Publish, TaskFitsStatus, Generating, Terminal
  <2>2. CASE UNCHANGED published
    BY <2>2
  <2>3. UNCHANGED published \/ \E q \in Run : Publish(q)
    BY <1>1 DEF Next, TaskStep, UpdaterStep, Create, CreateFails, Stop, StopFails, Cleanup,
                Begin, BeginFails, Journey, Flush, AwaitUpdater, Complete, Interrupt,
                Timeout, TaskFails, Unwind, End, UpdaterWakes, Refresh, UpdaterResumes,
                RefreshFails, Crash, Restart
  <2> QED BY <2>1, <2>2, <2>3
<1>2. RunIInv /\ [Next]_vars => [\A r \in Run : Quiet(r)]_vars
  BY <1>1
<1> QED BY <1>2, RunIInvHolds, PTL DEF Spec, SettledRunsAreQuiet

(* generated_event_count never goes back and never runs ahead of what was  *)
(* sent, although threads that outlive their task write it                 *)
(* (scenario_runner.py:179-201).                                           *)
THEOREM CountsOnlyGrowHolds == Spec => CountsOnlyGrow
<1>1. ASSUME RunIInv, Next, NEW r \in Run
      PROVE  counted'[r] >= counted[r] /\ counted'[r] <= published'[r]
  <2>1. counted'[r] >= counted[r]
    <3>1. counted'[r] = counted[r] \/ (thread[r] # NoRefresh /\ counted'[r] = thread[r])
      <4>1. UNCHANGED counted \/ \E q \in Run : Refresh(q) \/ RefreshFails(q)
        BY <1>1 DEF Next, TaskStep, UpdaterStep, Create, CreateFails, Stop, StopFails,
                    Cleanup, Begin, BeginFails, Journey, Publish, Flush, AwaitUpdater,
                    Complete, Interrupt, Timeout, TaskFails, Unwind, End, UpdaterWakes,
                    UpdaterResumes, Crash, Restart
      <4>2. CASE UNCHANGED counted
        BY <4>2
      <4>3. ASSUME NEW q \in Run, Refresh(q) \/ RefreshFails(q)
            PROVE  counted'[r] = counted[r] \/ (thread[r] # NoRefresh /\ counted'[r] = thread[r])
        <5>1. counted \in [Run -> 0 .. EventCount] /\ thread[q] # NoRefresh
          BY <1>1, <4>3 DEF Refresh, RefreshFails, RunIInv, RunInv, TypeOK
        <5>2. counted' = counted \/ counted' = [counted EXCEPT ![q] = thread[q]]
          BY <4>3, <5>1 DEF Refresh, RefreshFails
        <5> QED BY <5>1, <5>2
      <4> QED BY <4>1, <4>2, <4>3
    <3> QED BY <1>1, <3>1, ScenarioAssumption
            DEF RunIInv, RunInv, TypeOK, CountsBehind
  <2>2. counted'[r] <= published'[r]
    <3>1. RunIInv'
      BY <1>1, StepKeeps
    <3> QED BY <3>1, ScenarioAssumption DEF RunIInv, RunInv, TypeOK, CountsBehind
  <2> QED BY <2>1, <2>2
<1>2. RunIInv /\ [Next]_vars
      => [\A r \in Run : counted'[r] >= counted[r] /\ counted'[r] <= published'[r]]_vars
  BY <1>1
<1> QED BY <1>2, RunIInvHolds, PTL DEF Spec, CountsOnlyGrow
=============================================================================
