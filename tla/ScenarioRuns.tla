---------------------------- MODULE ScenarioRuns ----------------------------
(***************************************************************************)
(* Scenario runs of the demo control API: the run table, the in-memory     *)
(* tasks of ScenarioRunner that generate each run's events, the progress   *)
(* updater that runs beside each task, and the HTTP handlers that create,  *)
(* stop and clean up runs.                                                 *)
(*                                                                         *)
(* One asyncio event loop runs handlers, tasks and updaters: what lies     *)
(* between two awaits is one step.  Database refreshes of the updaters     *)
(* and the cleanup handler run in threads.  The process may crash, and any *)
(* database or Kafka call may fail, before or after it took effect.        *)
(***************************************************************************)
EXTENDS Integers, FiniteSets

CONSTANTS
    Run,            \* run identities (uuid4)
    EventCount,     \* requested_event_count of every run
    JourneySize,    \* bound: the longest journey the builder returns
    MaxConcurrent,  \* demo_max_concurrent_runs
    FaultKinds,     \* the disturbances that may happen
    MaxFaults       \* bound: how many disturbances happen in a behaviour

ASSUME ScenarioAssumption ==
    /\ EventCount \in Nat \ {0}
    /\ JourneySize \in Nat \ {0}
    /\ MaxConcurrent \in Nat \ {0}
    /\ MaxFaults \in Nat

VARIABLES
    \* demo_runs: status and generated_event_count of each run; how many
    \* events of the run are in demo_run_event_manifest
    status, counted, manifest,
    \* Kafka: how many events of the run were handed to the producer
    published,
    \* the process is up; the task of each run, whether cancel() was called
    \* on it, and which exception is unwinding it
    up, task, cancelled, why,
    \* progress_updater: control point, refreshed_generated, stop_progress,
    \* and the value a refresh running in a thread is about to write
    updater, refreshed, stopProgress, thread,
    \* disturbances left; a database call has failed since the process started
    budget, dbFailed

tableVars == <<status, counted, manifest>>
taskVars  == <<task, cancelled, why>>
progVars  == <<updater, refreshed, stopProgress, thread>>
faultVars == <<budget, dbFailed>>
vars == <<tableVars, published, up, taskVars, progVars, faultVars>>

Terminal == {"STOPPED", "COMPLETED", "FAILED"}
Active   == {"STARTING", "RUNNING", "STOP_REQUESTED"}
Status   == {"ABSENT", "PENDING", "DELETED"} \cup Active \cup Terminal

(* "done" is a task that died before its try block: it stays in _tasks. *)
TaskState == {"none", "created", "generate", "await", "waiting", "unwind", "done"}

NoRefresh == -1

TypeOK ==
    /\ status \in [Run -> Status]
    /\ counted \in [Run -> 0 .. EventCount]
    /\ manifest \in [Run -> 0 .. EventCount]
    /\ published \in [Run -> 0 .. EventCount]
    /\ up \in BOOLEAN
    /\ task \in [Run -> TaskState]
    /\ cancelled \in [Run -> BOOLEAN]
    /\ why \in [Run -> {"none", "cancel", "timeout", "error"}]
    /\ updater \in [Run -> {"off", "wait", "refresh", "done", "failed"}]
    /\ refreshed \in [Run -> 0 .. EventCount]
    /\ stopProgress \in [Run -> BOOLEAN]
    /\ thread \in [Run -> 0 .. EventCount \cup {NoRefresh}]
    /\ budget \in 0 .. MaxFaults
    /\ dbFailed \in BOOLEAN

Init ==
    /\ status = [r \in Run |-> "ABSENT"]
    /\ counted = [r \in Run |-> 0]
    /\ manifest = [r \in Run |-> 0]
    /\ published = [r \in Run |-> 0]
    /\ up = TRUE
    /\ task = [r \in Run |-> "none"]
    /\ cancelled = [r \in Run |-> FALSE]
    /\ why = [r \in Run |-> "none"]
    /\ updater = [r \in Run |-> "off"]
    /\ refreshed = [r \in Run |-> 0]
    /\ stopProgress = [r \in Run |-> FALSE]
    /\ thread = [r \in Run |-> NoRefresh]
    /\ budget = MaxFaults
    /\ dbFailed = FALSE

-----------------------------------------------------------------------------
Fault(kind) ==
    /\ kind \in FaultKinds
    /\ budget > 0
    /\ budget' = budget - 1
    /\ dbFailed' = (dbFailed \/ kind = "db")

(* transition().  Its refusal of a transition that is not allowed          *)
(* (InvalidTransitionError, demo_runs.py:154-157) is left out: no caller   *)
(* ever meets it, which is what DocumentedTransitions says.                *)
SetStatus(r, s) == status' = [status EXCEPT ![r] = s]

(* models/runs.py, TRANSITIONS *)
TransitionAllowed(s, t) ==
    \/ s = "PENDING" /\ t = "STARTING"
    \/ s = "STARTING" /\ t \in {"RUNNING", "FAILED"}
    \/ s = "RUNNING" /\ t \in {"COMPLETED", "STOP_REQUESTED", "FAILED"}
    \/ s = "STOP_REQUESTED" /\ t \in {"STOPPED", "FAILED"}

(* not task.done() *)
Live(r) == task[r] \notin {"none", "done"}

LiveTasks == {r \in Run : Live(r)}

-----------------------------------------------------------------------------
(* create_run and retry_run: insert the PENDING row, then runner.start,    *)
(* which checks the limit, writes STARTING and creates the task.  Nothing  *)
(* in it awaits, so it is one step of the loop.  At the limit the PENDING  *)
(* row stays behind.                                                       *)
Create(r) ==
    /\ up
    /\ status[r] = "ABSENT"
    /\ \/ /\ Cardinality(LiveTasks) < MaxConcurrent
          /\ SetStatus(r, "STARTING")
          /\ task' = [task EXCEPT ![r] = "created"]
       \/ /\ Cardinality(LiveTasks) >= MaxConcurrent
          /\ SetStatus(r, "PENDING")
          /\ UNCHANGED task
    /\ UNCHANGED <<counted, manifest, published, up, cancelled, why, progVars, faultVars>>

(* The insert or the transition raises: no task is created. *)
CreateFails(r) ==
    /\ up
    /\ status[r] = "ABSENT"
    /\ Fault("db")
    /\ \/ SetStatus(r, "PENDING")
       \/ Cardinality(LiveTasks) < MaxConcurrent /\ SetStatus(r, "STARTING")
    /\ UNCHANGED <<counted, manifest, published, up, taskVars, progVars>>

(* A faulty variant: the task is not cancelled. *)
StopOnlyRequested(r) ==
    /\ up
    /\ status[r] \notin Terminal \cup {"ABSENT", "DELETED"}
    /\ task[r] # "created"
    /\ SetStatus(r, IF status[r] = "RUNNING" THEN "STOP_REQUESTED" ELSE status[r])
    /\ UNCHANGED <<counted, manifest, published, up, taskVars, progVars, faultVars>>

(* stop_run: require_run and runner.stop, one step of the loop.  A created *)
(* task is ahead in the loop's queue of any request that can name its run. *)
Stop(r) ==
    /\ up
    /\ status[r] \notin Terminal \cup {"ABSENT", "DELETED"}
    /\ task[r] # "created"
    /\ SetStatus(r, IF status[r] = "RUNNING" THEN "STOP_REQUESTED" ELSE status[r])
    /\ cancelled' = [cancelled EXCEPT ![r] = Live(r)]
    /\ UNCHANGED <<counted, manifest, published, up, task, why, progVars, faultVars>>

(* The transition raises, applied or not: cancel() is not reached. *)
StopFails(r) ==
    /\ up
    /\ status[r] = "RUNNING"
    /\ Fault("db")
    /\ SetStatus(r, "STOP_REQUESTED") \/ UNCHANGED status
    /\ UNCHANGED <<counted, manifest, published, up, taskVars, progVars>>

(* A faulty variant: a run that is still active is removed. *)
CleanupAny(r) ==
    /\ up
    /\ status[r] \notin {"ABSENT", "DELETED"}
    /\ SetStatus(r, "DELETED")
    /\ manifest' = [manifest EXCEPT ![r] = 0]
    /\ UNCHANGED <<counted, published, up, taskVars, progVars, faultVars>>

(* cleanup_run, in a thread: terminal runs only. *)
Cleanup(r) ==
    /\ up
    /\ status[r] \in Terminal
    /\ SetStatus(r, "DELETED")
    /\ manifest' = [manifest EXCEPT ![r] = 0]
    /\ UNCHANGED <<counted, published, up, taskVars, progVars, faultVars>>

-----------------------------------------------------------------------------
(* _execute writes RUNNING, _generate starts the progress updater. *)
Begin(r) ==
    /\ task[r] = "created"
    /\ SetStatus(r, "RUNNING")
    /\ task' = [task EXCEPT ![r] = "generate"]
    /\ updater' = [updater EXCEPT ![r] = "wait"]
    /\ UNCHANGED <<counted, manifest, published, up, cancelled, why, refreshed,
                   stopProgress, thread, faultVars>>

(* The first get() raises outside the try block, and the task is dead; or  *)
(* the transition raises and the handler marks the run.                    *)
BeginFails(r) ==
    /\ task[r] = "created"
    /\ Fault("db")
    /\ \/ task' = [task EXCEPT ![r] = "done"] /\ UNCHANGED status
       \/ task' = [task EXCEPT ![r] = "none"] /\ SetStatus(r, "FAILED")
    /\ UNCHANGED <<counted, manifest, published, up, cancelled, why, progVars>>

(* The generator builds a journey and records its events, cut off at the   *)
(* requested count, in the manifest.  A malformed message without an event *)
(* id has no row; it is counted here like the others.                      *)
Journey(r) ==
    /\ task[r] = "generate" /\ ~cancelled[r]
    /\ published[r] = manifest[r]
    /\ manifest[r] < EventCount
    /\ \E n \in 1 .. JourneySize :
        manifest' = [manifest EXCEPT ![r] =
                        IF @ + n > EventCount THEN EventCount ELSE @ + n]
    /\ UNCHANGED <<status, counted, published, up, taskVars, progVars, faultVars>>

(* publish_message and the pacing sleep. *)
Publish(r) ==
    /\ task[r] = "generate" /\ ~cancelled[r]
    /\ published[r] < manifest[r]
    /\ published' = [published EXCEPT ![r] = @ + 1]
    /\ UNCHANGED <<tableVars, up, taskVars, progVars, faultVars>>

(* All events are sent and flushed: tell the updater, wait for it. *)
Flush(r) ==
    /\ task[r] = "generate" /\ ~cancelled[r]
    /\ published[r] = EventCount
    /\ stopProgress' = [stopProgress EXCEPT ![r] = TRUE]
    /\ task' = [task EXCEPT ![r] = "await"]
    /\ UNCHANGED <<tableVars, published, up, cancelled, why, updater, refreshed,
                   thread, faultVars>>

(* The updater has returned.  What is left is to wait, at most a minute,   *)
(* for the events to be processed.                                         *)
AwaitUpdater(r) ==
    /\ task[r] = "await" /\ ~cancelled[r]
    /\ updater[r] = "done"
    /\ task' = [task EXCEPT ![r] = "waiting"]
    /\ UNCHANGED <<tableVars, published, up, cancelled, why, progVars, faultVars>>

(* A faulty variant: the last refresh overwrites the generated count. *)
CompleteResetsCount(r) ==
    /\ task[r] = "waiting" /\ ~cancelled[r]
    /\ IF status[r] = "RUNNING"
       THEN /\ SetStatus(r, "COMPLETED")
            /\ counted' = [counted EXCEPT ![r] = 0]
       ELSE UNCHANGED <<status, counted>>
    /\ task' = [task EXCEPT ![r] = "none"]
    /\ UNCHANGED <<manifest, published, up, cancelled, why, progVars, faultVars>>

(* The last refresh leaves the generated count alone. *)
Complete(r) ==
    /\ task[r] = "waiting" /\ ~cancelled[r]
    /\ SetStatus(r, IF status[r] = "RUNNING" THEN "COMPLETED" ELSE status[r])
    /\ task' = [task EXCEPT ![r] = "none"]
    /\ UNCHANGED <<counted, manifest, published, up, cancelled, why, progVars, faultVars>>

-----------------------------------------------------------------------------
(* An exception leaves _generate, whose handler cancels the updater; a     *)
(* refresh already running in its thread goes on.                          *)
Unwind(r, reason) ==
    /\ task' = [task EXCEPT ![r] = "unwind"]
    /\ why' = [why EXCEPT ![r] = reason]
    /\ updater' = [updater EXCEPT ![r] = IF @ = "failed" THEN @ ELSE "done"]
    /\ UNCHANGED <<counted, manifest, published, up, cancelled, refreshed,
                   stopProgress, thread>>

(* CancelledError is raised at the await the task is at. *)
Interrupt(r) ==
    /\ task[r] \in {"generate", "await", "waiting"}
    /\ cancelled[r]
    /\ Unwind(r, "cancel")
    /\ UNCHANGED <<status, faultVars>>

(* wait_for gives up on _generate. *)
Timeout(r) ==
    /\ task[r] \in {"generate", "await"}
    /\ Fault("timeout")
    /\ Unwind(r, "timeout")
    /\ UNCHANGED status

(* Kafka or the database fails, or the updater had failed earlier.  The    *)
(* COMPLETED transition may have been applied when it raises.              *)
TaskFails(r) ==
    /\ \/ task[r] \in {"generate", "waiting"} /\ (Fault("kafka") \/ Fault("db"))
       \/ task[r] = "await" /\ updater[r] = "failed" /\ UNCHANGED faultVars
    /\ ~cancelled[r]
    /\ Unwind(r, "error")
    /\ \/ UNCHANGED status
       \/ task[r] = "waiting" /\ status[r] = "RUNNING" /\ SetStatus(r, "COMPLETED")

(* What reaches _execute: a failed updater's exception replaces the one    *)
(* that is unwinding; cancel() wins over a timeout.                        *)
Reason(r) ==
    IF why[r] = "error" \/ updater[r] = "failed" THEN "error"
    ELSE IF cancelled[r] THEN "cancel"
    ELSE why[r]

(* A faulty variant: the handlers do not look at the current status. *)
VerdictUnchecked(r) == IF Reason(r) # "cancel" THEN "FAILED" ELSE "STOPPED"

(* The status the handlers of _execute leave. *)
Verdict(r) ==
    IF status[r] \in Terminal \cup {"DELETED"} THEN status[r]
    ELSE IF Reason(r) # "cancel" THEN "FAILED"
    ELSE IF status[r] = "STOP_REQUESTED" THEN "STOPPED" ELSE status[r]

(* The handlers and the finally block.  A handler whose database call      *)
(* raises leaves the run as it is, without a task.                         *)
End(r) ==
    /\ task[r] = "unwind"
    /\ \/ SetStatus(r, Verdict(r)) /\ UNCHANGED faultVars
       \/ UNCHANGED status /\ Fault("db")
    /\ task' = [task EXCEPT ![r] = "none"]
    /\ cancelled' = [cancelled EXCEPT ![r] = FALSE]
    /\ UNCHANGED <<counted, manifest, published, up, why, progVars>>

-----------------------------------------------------------------------------
(* The updater wakes up, on a change or on its timeout, and starts a       *)
(* refresh in a thread if there is something new.                          *)
UpdaterWakes(r) ==
    /\ updater[r] = "wait"
    /\ \/ /\ published[r] # refreshed[r]
          /\ thread' = [thread EXCEPT ![r] = published[r]]
          /\ refreshed' = [refreshed EXCEPT ![r] = published[r]]
          /\ updater' = [updater EXCEPT ![r] = "refresh"]
       \/ /\ published[r] = refreshed[r]
          /\ stopProgress[r]
          /\ updater' = [updater EXCEPT ![r] = "done"]
          /\ UNCHANGED <<thread, refreshed>>
    /\ UNCHANGED <<tableVars, published, up, taskVars, stopProgress, faultVars>>

(* repository.refresh in the thread: a deleted row is left alone. *)
Refresh(r) ==
    /\ thread[r] # NoRefresh
    /\ counted' = [counted EXCEPT ![r] = IF status[r] = "DELETED" THEN @ ELSE thread[r]]
    /\ thread' = [thread EXCEPT ![r] = NoRefresh]
    /\ UNCHANGED <<status, manifest, published, up, taskVars, updater, refreshed,
                   stopProgress, faultVars>>

(* It raises, applied or not: the updater ends with the exception. *)
RefreshFails(r) ==
    /\ thread[r] # NoRefresh
    /\ Fault("db")
    /\ \/ UNCHANGED counted
       \/ status[r] # "DELETED" /\ counted' = [counted EXCEPT ![r] = thread[r]]
    /\ thread' = [thread EXCEPT ![r] = NoRefresh]
    /\ updater' = [updater EXCEPT ![r] = IF @ = "refresh" THEN "failed" ELSE @]
    /\ UNCHANGED <<status, manifest, published, up, taskVars, refreshed, stopProgress>>

(* The loop resumes the updater after its refresh. *)
UpdaterResumes(r) ==
    /\ updater[r] = "refresh"
    /\ thread[r] = NoRefresh
    /\ updater' = [updater EXCEPT ![r] = IF stopProgress[r] THEN "done" ELSE "wait"]
    /\ UNCHANGED <<tableVars, published, up, taskVars, refreshed, stopProgress, thread,
                   faultVars>>

-----------------------------------------------------------------------------
(* The process ends; a refresh in a thread is lost unless it was applied. *)
Crash ==
    /\ up
    /\ Fault("crash")
    /\ up' = FALSE
    /\ task' = [r \in Run |-> "none"]
    /\ cancelled' = [r \in Run |-> FALSE]
    /\ why' = [r \in Run |-> "none"]
    /\ updater' = [r \in Run |-> "off"]
    /\ thread' = [r \in Run |-> NoRefresh]
    /\ UNCHANGED <<tableVars, published, refreshed, stopProgress>>

(* A faulty variant: runs that were being stopped are not reconciled. *)
RestartKeepsStopping ==
    /\ ~up
    /\ up' = TRUE
    /\ status' = [r \in Run |-> IF status[r] \in {"STARTING", "RUNNING"} THEN "FAILED"
                                ELSE status[r]]
    /\ dbFailed' = FALSE
    /\ UNCHANGED <<counted, manifest, published, taskVars, progVars, budget>>

(* lifespan: reconcile abandoned runs before serving requests. *)
Restart ==
    /\ ~up
    /\ up' = TRUE
    /\ status' = [r \in Run |-> IF status[r] \in {"STARTING", "RUNNING"} THEN "FAILED"
                                ELSE IF status[r] = "STOP_REQUESTED" THEN "STOPPED"
                                ELSE status[r]]
    /\ dbFailed' = FALSE
    /\ UNCHANGED <<counted, manifest, published, taskVars, progVars, budget>>

TaskStep(r) ==
    \/ Begin(r) \/ Journey(r) \/ Publish(r) \/ Flush(r) \/ AwaitUpdater(r)
    \/ Complete(r) \/ Interrupt(r) \/ TaskFails(r) \/ End(r)

UpdaterStep(r) == UpdaterWakes(r) \/ Refresh(r) \/ UpdaterResumes(r)

Next ==
    \/ \E r \in Run :
        \/ Create(r) \/ CreateFails(r) \/ Stop(r) \/ StopFails(r) \/ Cleanup(r)
        \/ TaskStep(r) \/ BeginFails(r) \/ Timeout(r)
        \/ UpdaterStep(r) \/ RefreshFails(r)
    \/ Crash \/ Restart

Spec == Init /\ [][Next]_vars

(* The loop and its threads run, and the container is restarted after a    *)
(* crash (compose.yaml, restart: unless-stopped).                          *)
Fairness ==
    /\ \A r \in Run : WF_vars(TaskStep(r)) /\ WF_vars(UpdaterStep(r))
    /\ WF_vars(Restart)

FairSpec == Spec /\ Fairness
-----------------------------------------------------------------------------
(* docs/demo-control-center.md:68-79: whoever writes the status - a        *)
(* handler, a task, its error handlers or the reconciliation after a       *)
(* restart - follows the documented state machine; only cleanup removes.   *)
DocumentedTransitions ==
    [][\A r \in Run :
        status'[r] # status[r] =>
            \/ status[r] = "ABSENT" /\ status'[r] \in {"PENDING", "STARTING"}
            \/ status[r] \in Terminal /\ status'[r] = "DELETED"
            \/ TransitionAllowed(status[r], status'[r])]_vars

(* No event is sent for a run that has been reported as ended or has been  *)
(* removed (scenario_runner.py:72-118, demo_runs.py:278-284).              *)
SettledRunsAreQuiet ==
    [][\A r \in Run : status[r] \in Terminal \cup {"DELETED"}
                        => published'[r] = published[r]]_vars

(* docs/demo-control-center.md:55-59: an event is in the manifest before   *)
(* it is in Kafka, so no crash leaves an event that belongs to no run.     *)
ManifestBeforeKafka ==
    \A r \in Run : status[r] # "DELETED" => published[r] <= manifest[r]

(* generated_event_count never goes back and never runs ahead of what was  *)
(* sent, although it is written from threads that outlive their task       *)
(* (scenario_runner.py:179-201, demo_runs.py:195-227).                     *)
CountsOnlyGrow ==
    [][\A r \in Run : counted'[r] >= counted[r] /\ counted'[r] <= published'[r]]_vars

(* docs/demo-control-center.md:82-83, "reconciles abandoned active states  *)
(* on restart": while the process is up, a run in an active state has a    *)
(* task that will end it.  Only a database call that fails, maybe in the   *)
(* handler that should end the run, may leave one behind, and the next     *)
(* restart ends it (scenario_runner.py:96-118, demo_runs.py:264-276).      *)
ActiveIsOwned ==
    up /\ ~dbFailed => \A r \in Run : status[r] \in Active => Live(r)

(* At every await of the API's tasks and handlers: the tables are well     *)
(* formed, no event is in Kafka without its manifest row, and no run is    *)
(* active without a task (scenario_runner.py:56-284).                      *)
RunInv == TypeOK /\ ManifestBeforeKafka /\ ActiveIsOwned

(* An active run ends, whatever interrupts it: stops, timeouts, Kafka      *)
(* errors and crashes all lead to a terminal state, and so does a failed   *)
(* database call once the process is restarted (scenario_runner.py:82-118, *)
(* demo_runs.py:264-276).                                                  *)
EventuallyEnded ==
    \A r \in Run :
        status[r] \in Active ~> (status[r] \in Terminal \cup {"DELETED"} \/ dbFailed)

(* scenario_runner.py:277-279: "The updater performs and awaits the final  *)
(* refresh before exiting, so generated_event_count is durable on return". *)
FinalCountDurable ==
    \A r \in Run : status[r] = "COMPLETED" => counted[r] = EventCount
(***************************************************************************)
(* Why these hold: status, task and cancellation are three views of a run  *)
(* that different actors write, and the invariant says how they fit.       *)
(***************************************************************************)

(* A task has begun, and none of its handlers has run. *)
Generating(r) == task[r] \in {"generate", "await", "waiting"}

(* The status of a run fits the state its task is in. *)
TaskFitsStatus ==
    \A r \in Run :
        /\ task[r] \in {"created", "done"} => status[r] = "STARTING"
        /\ Generating(r) => status[r] \in {"RUNNING", "STOP_REQUESTED"}
        /\ task[r] = "unwind"
            => status[r] \in {"RUNNING", "STOP_REQUESTED", "DELETED"} \cup Terminal

(* A task is only cancelled after the status has left RUNNING. *)
CancelledIsStopped ==
    \A r \in Run :
        /\ cancelled[r] => Generating(r) \/ task[r] = "unwind"
        /\ cancelled[r] \/ (task[r] = "unwind" /\ why[r] = "cancel") => status[r] # "RUNNING"

(* While no database call has failed, a stop request reaches the task. *)
StopReachesTask ==
    up /\ ~dbFailed => \A r \in Run : status[r] = "STOP_REQUESTED" => cancelled[r]

(* Nothing runs while the process is down. *)
DownIsIdle == ~up => \A r \in Run : task[r] = "none"

(* What a refresh writes lies between what is stored and what was sent. *)
CountsBehind ==
    \A r \in Run :
        /\ counted[r] <= refreshed[r]
        /\ refreshed[r] <= published[r]
        /\ thread[r] \in {NoRefresh, refreshed[r]}

RunIInv ==
    /\ RunInv
    /\ TaskFitsStatus
    /\ CancelledIsStopped
    /\ StopReachesTask
    /\ DownIsIdle
    /\ CountsBehind
=============================================================================
