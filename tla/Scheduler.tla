------------------------------- MODULE Scheduler -------------------------------
(***************************************************************************)
(* The cron scheduler of one server process: pkg/runtime/execution/        *)
(* schedule, scheduler.go and persister.go, with its callers in pkg/       *)
(* gateway (gateway_cron_api.go) and cmd/anyclaw (cron_cli.go).            *)
(*                                                                         *)
(* A ticker starts a goroutine for every enabled task whose NextRun has    *)
(* passed; the goroutine records a run, executes the command with retries  *)
(* under a timeout, writes NextRun and saves the history.  Every action is *)
(* one critical section under Scheduler.mu, or one stretch of runTask      *)
(* outside it.  Time is abstracted to whether NextRun lies ahead.          *)
(***************************************************************************)
EXTENDS Naturals, Sequences, FiniteSets

CONSTANTS
    Tasks,           \* task IDs
    Slots,           \* run records, each with the goroutine that writes it
    MaxRetries,      \* Task.MaxRetries
    RunHistorySize,  \* Scheduler.runHistorySize
    MaxActive,       \* bound: goroutines of runTask at the same time
    MaxEdits         \* bound: calls and restarts from outside

ASSUME TaskAssumption == Tasks # {}
ASSUME BoundAssumption == /\ MaxRetries \in Nat
                          /\ RunHistorySize \in Nat \ {0}
                          /\ MaxActive \in Nat \ {0}
                          /\ MaxEdits \in Nat

VARIABLES
    tasks,        \* Scheduler.tasks: absent, or the Enabled field
    nextRun,      \* Task.NextRun: nil, ahead or past
    running,      \* Scheduler.running
    looping,      \* the runLoop goroutine is alive
    toStart,      \* tasksToRun of the tick that has released the lock
    pc,           \* where the goroutine of a run is
    owner,        \* TaskRun.TaskID
    stale,        \* goroutines whose task pointer is no longer in tasks
    tries,        \* a goroutine's loop counter i
    outcome,      \* what Execute returned last
    runStatus,    \* TaskRun.Status
    history,      \* Scheduler.taskRuns
    cancelFuncs,  \* Scheduler.cancelFuncs
    cancelling,   \* runs CancelRun has found running and has yet to mark
    snapshot,     \* the runs a goroutine has collected for SaveRuns
    tasksFile,    \* tasks.json
    runsFile,     \* runs.json
    edits         \* calls and restarts so far

vars == <<tasks, nextRun, running, looping, toStart, pc, owner, stale, tries,
           outcome, runStatus, history, cancelFuncs,
          cancelling, snapshot, tasksFile, runsFile, edits>>

loop      == <<running, looping, toStart>>
table     == <<tasks, nextRun, stale>>
progress  == <<owner, tries, outcome>>
files     == <<tasksFile, runsFile>>
outside   == <<cancelling, edits>>

TaskStates == {"absent", "enabled", "disabled"}
Results    == {"ok", "error"}
Idle       == {"free", "lost"}
Running    == {"registering", "loop", "executing", "waiting", "finishing"}
Finished   == {"reschedule", "quit", "collecting", "writing", "cleanup"}
Holding    == {"checked"} \union Running \union Finished

Runs(hist) == UNION {{hist[t][i] : i \in 1 .. Len(hist[t])} : t \in Tasks}
Saved      == UNION {{runsFile[t][i] : i \in 1 .. Len(runsFile[t])} : t \in Tasks}

(* A slot stands for a new run once nothing refers to the old one.         *)
Free(g) == /\ pc[g] \in Idle
           /\ g \notin Runs(history) \union cancelling
           /\ \A h \in Slots : g \notin Runs(snapshot[h])
           /\ \A entry \in Saved : entry.slot # g

NoRuns == [t \in Tasks |-> << >>]

-----------------------------------------------------------------------------
(* LoadPersisted: every task of the file has a NextRun, by now past or not. *)
LoadTasks(file, next) ==
    \A t \in Tasks : next[t] = "nil" <=> file[t] = "absent"

Init ==
    /\ tasksFile \in [Tasks -> TaskStates]
    /\ tasks = tasksFile
    /\ nextRun \in [Tasks -> {"nil", "ahead", "past"}]
    /\ LoadTasks(tasksFile, nextRun)
    /\ running = TRUE
    /\ looping = TRUE
    /\ toStart = {}
    /\ pc = [g \in Slots |-> "free"]
    /\ owner = [g \in Slots |-> CHOOSE t \in Tasks : TRUE]
    /\ stale = {}
    /\ tries = [g \in Slots |-> 0]
    /\ outcome = [g \in Slots |-> "none"]
    /\ runStatus = [g \in Slots |-> "none"]
    /\ history = NoRuns
    /\ cancelFuncs = {}
    /\ cancelling = {}
    /\ snapshot = [g \in Slots |-> NoRuns]
    /\ runsFile = NoRuns
    /\ edits = 0

-----------------------------------------------------------------------------
(* The ticker.                                                             *)

TimePasses(t) ==
    /\ nextRun[t] = "ahead"
    /\ nextRun' = [nextRun EXCEPT ![t] = "past"]
    /\ UNCHANGED <<tasks, loop, pc, progress, stale, runStatus, history,
                   cancelFuncs, outside, snapshot, files>>

(* Slip: a task without a NextRun is passed over.                          *)
PassedOver(t) == FALSE

(* checkAndRunTasks under the read lock: a missing NextRun is computed, and *)
(* lies ahead; the tasks that are due are gathered.                         *)
Unscheduled(t) == tasks[t] = "enabled" /\ nextRun[t] = "nil"
Due(t)         == tasks[t] = "enabled" /\ nextRun[t] = "past"

Tick ==
    /\ looping /\ toStart = {}
    /\ nextRun' = [t \in Tasks |->
                      IF Unscheduled(t) THEN "ahead" ELSE nextRun[t]]
    /\ toStart' = {t \in Tasks : Due(t)}
    /\ UNCHANGED <<tasks, running, looping, pc, progress, stale,
                   runStatus, history, cancelFuncs, outside, snapshot, files>>

(* go s.runTask(task.ID)                                                   *)
Start(t, g) ==
    /\ Free(g)
    /\ Cardinality({h \in Slots : pc[h] \notin Idle}) < MaxActive
    /\ pc' = [pc EXCEPT ![g] = "spawned"]
    /\ owner' = [owner EXCEPT ![g] = t]
    /\ runStatus' = [runStatus EXCEPT ![g] = "none"]
    /\ UNCHANGED <<table, tries, outcome, history, cancelFuncs, cancelling,
                   snapshot, files>>

Spawn(t, g) ==
    /\ t \in toStart
    /\ toStart' = toStart \ {t}
    /\ Start(t, g)
    /\ UNCHANGED <<running, looping, edits>>

LoopExits ==
    /\ ~running /\ looping /\ toStart = {}
    /\ looping' = FALSE
    /\ UNCHANGED <<table, running, toStart, pc, progress, runStatus,
                   history, cancelFuncs, outside, snapshot, files>>

-----------------------------------------------------------------------------
(* runTask.                                                                *)

Goto(g, place) == pc' = [pc EXCEPT ![g] = place]

Lookup(g) ==
    /\ pc[g] = "spawned"
    /\ Goto(g, IF tasks[owner[g]] = "enabled" THEN "checked" ELSE "free")
    /\ stale' = stale \ {g}
    /\ UNCHANGED <<tasks, nextRun, loop, progress, runStatus, history,
                   cancelFuncs, outside, snapshot, files>>

(* Writing a field of the task goes through the pointer read at the start. *)
SetNextRun(g, value) ==
    nextRun' = IF g \in stale THEN nextRun
                              ELSE [nextRun EXCEPT ![owner[g]] = value]

(* Slip: the whole history is kept.                                        *)
Untrimmed(runs) == runs

Trimmed(runs) == IF Len(runs) > RunHistorySize
                 THEN SubSeq(runs, Len(runs) - RunHistorySize + 1, Len(runs))
                 ELSE runs

Record(g) ==
    /\ pc[g] = "checked"
    /\ Goto(g, "registering")
    /\ SetNextRun(g, "nil")
    /\ history' = [history EXCEPT ![owner[g]] = Trimmed(Append(@, g))]
    /\ runStatus' = [runStatus EXCEPT ![g] = "running"]
    /\ UNCHANGED <<tasks, loop, progress, stale, cancelFuncs,
                   outside, snapshot, files>>

Register(g) ==
    /\ pc[g] = "registering"
    /\ Goto(g, "loop")
    /\ cancelFuncs' = cancelFuncs \union {g}
    /\ UNCHANGED <<table, loop, progress, runStatus, history, outside,
                   snapshot, files>>

(* The run's timeout may have passed whenever the goroutine looks at its    *)
(* context.  It returns early, by way of "quit", and does not save.         *)
EndCancelled(g) ==
    /\ runStatus' = [runStatus EXCEPT ![g] = "cancelled"]
    /\ Goto(g, "quit")
    /\ UNCHANGED <<table, loop, progress, history, cancelFuncs,
                   outside, snapshot, files>>

LoopHead(g) ==
    /\ pc[g] = "loop"
    /\ \/ EndCancelled(g)
       \/ /\ Goto(g, "executing")
          /\ UNCHANGED <<table, loop, progress, runStatus, history,
                         cancelFuncs, outside, snapshot, files>>

(* Slip: the last retry is not made.                                       *)
AfterAttemptEarly(g, result) ==
    IF result = "error" /\ tries[g] + 1 < MaxRetries THEN "waiting"
                                                     ELSE "finishing"

AfterAttempt(g, result) ==
    IF result = "error" /\ tries[g] < MaxRetries THEN "waiting" ELSE "finishing"

ExecuteReturns(g, result) ==
    /\ pc[g] = "executing"
    /\ outcome' = [outcome EXCEPT ![g] = result]
    /\ Goto(g, AfterAttempt(g, result))
    /\ UNCHANGED <<table, loop, owner, tries, runStatus, history,
                   cancelFuncs, outside, snapshot, files>>

(* Slip: the attempt is not counted.                                       *)
WaitUncounted(g) ==
    /\ pc[g] = "waiting"
    /\ Goto(g, "loop")
    /\ UNCHANGED <<table, loop, progress, runStatus, history, cancelFuncs,
                   outside, snapshot, files>>

WaitOver(g) ==
    /\ pc[g] = "waiting"
    /\ \/ EndCancelled(g)
       \/ /\ tries' = [tries EXCEPT ![g] = @ + 1]
          /\ Goto(g, "loop")
          /\ UNCHANGED <<table, loop, owner, outcome, runStatus, history,
                         cancelFuncs, outside, snapshot, files>>

Verdict(g) == IF outcome[g] = "error" THEN "failed" ELSE "success"

EndNormal(g) ==
    /\ pc[g] = "finishing"
    /\ runStatus' = [runStatus EXCEPT ![g] = Verdict(g)]
    /\ Goto(g, "reschedule")
    /\ UNCHANGED <<table, loop, progress, history, cancelFuncs,
                   outside, snapshot, files>>

(* Slip: a run that failed returns without saving.                         *)
RescheduleUnsavedFailure(g) ==
    /\ pc[g] \in {"reschedule", "quit"}
    /\ SetNextRun(g, "ahead")
    /\ Goto(g, IF pc[g] = "quit" \/ runStatus[g] = "failed"
               THEN "cleanup" ELSE "collecting")
    /\ UNCHANGED <<tasks, loop, progress, stale, runStatus, history,
                   cancelFuncs, outside, snapshot, files>>

Reschedule(g) ==
    /\ pc[g] \in {"reschedule", "quit"}
    /\ SetNextRun(g, "ahead")
    /\ Goto(g, IF pc[g] = "quit" THEN "cleanup" ELSE "collecting")
    /\ UNCHANGED <<tasks, loop, progress, stale, runStatus, history,
                   cancelFuncs, outside, snapshot, files>>

(* allRuns is gathered without the lock and holds pointers: the histories   *)
(* of all tasks in one step, where the code goes from task to task ...      *)
Collect(g) ==
    /\ pc[g] = "collecting"
    /\ snapshot' = [snapshot EXCEPT ![g] = history]
    /\ Goto(g, "writing")
    /\ UNCHANGED <<table, loop, progress, runStatus, history,
                   cancelFuncs, outside, files>>

(* ... and SaveRuns writes what the records say by then.                   *)
Entry(h) == [slot |-> h, status |-> runStatus[h]]

Write(g) ==
    /\ pc[g] = "writing"
    /\ runsFile' = [t \in Tasks |-> [i \in 1 .. Len(snapshot[g][t]) |->
                                        Entry(snapshot[g][t][i])]]
    /\ snapshot' = [snapshot EXCEPT ![g] = NoRuns]
    /\ Goto(g, "cleanup")
    /\ UNCHANGED <<table, loop, progress, runStatus, history,
                   cancelFuncs, outside, tasksFile>>

Cleanup(g) ==
    /\ pc[g] = "cleanup"
    /\ cancelFuncs' = cancelFuncs \ {g}
    /\ tries' = [tries EXCEPT ![g] = 0]
    /\ outcome' = [outcome EXCEPT ![g] = "none"]
    /\ stale' = stale \ {g}
    /\ Goto(g, "free")
    /\ UNCHANGED <<tasks, nextRun, loop, owner, runStatus, history,
                   outside, snapshot, files>>

-----------------------------------------------------------------------------
(* Calls from outside, at most MaxEdits of them.                           *)

Edit == edits < MaxEdits /\ edits' = edits + 1

(* The table's entry of t is replaced or deleted: who holds the old pointer *)
(* keeps writing to it.                                                     *)
Replace(t) == stale' = stale \union
                       {g \in Slots : pc[g] \in Holding /\ owner[g] = t}

AddTask(t) ==
    /\ Edit
    /\ tasks' = [tasks EXCEPT ![t] = "enabled"]
    /\ nextRun' = [nextRun EXCEPT ![t] = "ahead"]
    /\ Replace(t)
    /\ UNCHANGED <<loop, pc, progress, runStatus, history, cancelFuncs,
                   cancelling, snapshot, files>>

UpdateTask(t, enabled) ==
    /\ Edit
    /\ tasks[t] # "absent"
    /\ tasks' = [tasks EXCEPT ![t] = enabled]
    /\ Replace(t)
    /\ UNCHANGED <<nextRun, loop, pc, progress, runStatus, history,
                   cancelFuncs, cancelling, snapshot, files>>

DeleteTask(t) ==
    /\ Edit
    /\ tasks[t] # "absent"
    /\ tasks' = [tasks EXCEPT ![t] = "absent"]
    /\ nextRun' = [nextRun EXCEPT ![t] = "nil"]
    /\ Replace(t)
    /\ UNCHANGED <<loop, pc, progress, runStatus, history, cancelFuncs,
                   cancelling, snapshot, files>>

(* EnableTask and DisableTask write the field of the entry in place.       *)
SetEnabled(t, enabled) ==
    /\ Edit
    /\ tasks[t] \in TaskStates \ {"absent", enabled}
    /\ tasks' = [tasks EXCEPT ![t] = enabled]
    /\ UNCHANGED <<nextRun, loop, pc, progress, stale, runStatus,
                   history, cancelFuncs, cancelling, snapshot, files>>

RunTaskNow(t, g) ==
    /\ Edit
    /\ tasks[t] = "enabled"
    /\ Start(t, g)
    /\ UNCHANGED loop

(* CancelRun marks the record and leaves the context alone.  It holds the  *)
(* lock, but the goroutine writes Status without it: the two steps of      *)
(* CancelRun interleave with the goroutine's.                              *)
CancelRun(g) ==
    /\ Edit
    /\ g \in Runs(history) /\ runStatus[g] = "running"
    /\ cancelling' = cancelling \union {g}
    /\ UNCHANGED <<table, loop, pc, progress, runStatus, history,
                   cancelFuncs, snapshot, files>>

CancelMarks(g) ==
    /\ g \in cancelling
    /\ cancelling' = cancelling \ {g}
    /\ runStatus' = [runStatus EXCEPT ![g] = "cancelled"]
    /\ UNCHANGED <<table, loop, pc, progress, history,
                   cancelFuncs, snapshot, files, edits>>

ClearHistory(t) ==
    /\ Edit
    /\ tasks[t] # "absent" /\ history[t] # << >>
    /\ history' = [history EXCEPT ![t] = << >>]
    /\ UNCHANGED <<table, loop, pc, progress, runStatus, cancelFuncs,
                   cancelling, snapshot, files>>

Stop ==
    /\ Edit
    /\ running
    /\ running' = FALSE
    /\ UNCHANGED <<table, looping, toStart, pc, progress, runStatus,
                   history, cancelFuncs, cancelling, snapshot, files>>

(* The cron commands load tasks.json into a scheduler of their own, change *)
(* one task and save; only they ever call SaveTasks.                       *)
CliEdit(t, state) ==
    /\ Edit
    /\ tasksFile[t] # state
    /\ tasksFile[t] = "absent" => state = "enabled"
    /\ tasksFile' = [tasksFile EXCEPT ![t] = state]
    /\ UNCHANGED <<table, loop, pc, progress, runStatus, history,
                   cancelFuncs, cancelling, snapshot, runsFile>>

(* The process ends and the next one reads both files (LoadPersisted).     *)
Loaded(g) == {entry \in Saved : entry.slot = g}

Restart ==
    /\ Edit
    /\ tasks' = tasksFile
    /\ nextRun' \in [Tasks -> {"nil", "ahead", "past"}]
    /\ LoadTasks(tasksFile, nextRun')
    /\ running' = TRUE /\ looping' = TRUE /\ toStart' = {}
    /\ pc' = [g \in Slots |-> IF Loaded(g) = {} THEN "free" ELSE "lost"]
    /\ runStatus' = [g \in Slots |-> IF Loaded(g) = {} THEN "none"
                                     ELSE (CHOOSE e \in Loaded(g) : TRUE).status]
    /\ history' = [t \in Tasks |-> [i \in 1 .. Len(runsFile[t]) |->
                                       runsFile[t][i].slot]]
    /\ stale' = {} /\ cancelFuncs' = {} /\ cancelling' = {}
    /\ snapshot' = [g \in Slots |-> NoRuns]
    /\ tries' = [g \in Slots |-> 0]
    /\ outcome' = [g \in Slots |-> "none"]
    /\ UNCHANGED <<owner, files>>

-----------------------------------------------------------------------------
RunTask(g) ==
    \/ Lookup(g) \/ Record(g) \/ Register(g) \/ LoopHead(g)
    \/ \E result \in Results : ExecuteReturns(g, result)
    \/ WaitOver(g) \/ EndNormal(g) \/ Reschedule(g)
    \/ Collect(g) \/ Write(g) \/ Cleanup(g)

Call ==
    \/ \E t \in Tasks :
          \/ AddTask(t) \/ DeleteTask(t) \/ ClearHistory(t)
          \/ \E g \in Slots : RunTaskNow(t, g)
          \/ \E enabled \in {"enabled", "disabled"} :
                UpdateTask(t, enabled) \/ SetEnabled(t, enabled)
          \/ \E state \in TaskStates : CliEdit(t, state)
    \/ \E g \in Slots : CancelRun(g)
    \/ Stop
    \/ Restart

Next ==
    \/ Tick \/ LoopExits
    \/ \E t \in Tasks : TimePasses(t) \/ \E g \in Slots : Spawn(t, g)
    \/ \E g \in Slots : RunTask(g) \/ CancelMarks(g)
    \/ Call

Spec == Init /\ [][Next]_vars

Fairness ==
    /\ WF_vars(Tick) /\ WF_vars(LoopExits)
    /\ \A t \in Tasks : /\ WF_vars(TimePasses(t))
                        /\ WF_vars(\E g \in Slots : Spawn(t, g))
    /\ \A g \in Slots : WF_vars(RunTask(g)) /\ WF_vars(CancelMarks(g))

FairSpec == Spec /\ Fairness

-----------------------------------------------------------------------------
Histories == [Tasks -> Seq(Slots)]
Statuses  == {"running", "success", "failed", "cancelled"}
Entries   == [slot : Slots, status : Statuses]

(* Every variable has its type; in particular no task's history outgrows   *)
(* runHistorySize, in memory, on its way to the file or in it, and a       *)
(* cancel function is registered only for a goroutine that will remove it. *)
TypeOK ==
    /\ tasks \in [Tasks -> TaskStates] /\ tasksFile \in [Tasks -> TaskStates]
    /\ nextRun \in [Tasks -> {"nil", "ahead", "past"}]
    /\ running \in BOOLEAN /\ looping \in BOOLEAN
    /\ toStart \subseteq Tasks
    /\ pc \in [Slots -> Idle \union Holding \union {"spawned"}]
    /\ owner \in [Slots -> Tasks]
    /\ tries \in [Slots -> 0 .. MaxRetries]
    /\ outcome \in [Slots -> Results \union {"none"}]
    /\ runStatus \in [Slots -> Statuses \union {"none"}]
    /\ stale \subseteq Slots
    /\ cancelling \subseteq Slots
    /\ cancelFuncs \subseteq {g \in Slots : pc[g] \in Running \union Finished}
    /\ history \in Histories /\ snapshot \in [Slots -> Histories]
    /\ runsFile \in [Tasks -> Seq(Entries)]
    /\ \A t \in Tasks : /\ Len(history[t]) <= RunHistorySize
                        /\ Len(runsFile[t]) <= RunHistorySize
                        /\ \A g \in Slots : Len(snapshot[g][t]) <= RunHistorySize
    /\ edits \in 0 .. MaxEdits

(* The end of a run is recorded.  In memory: a kept record says running     *)
(* only while the goroutine is at work or went with an earlier process.  In *)
(* runs.json: once a goroutine is past its own save, the file says of its   *)
(* run what the record says, whoever wrote it and in whatever order the     *)
(* saves came.  The exception is a cancelled run: the early returns of      *)
(* runTask and CancelRun do not save, and the file may go on saying running *)
(* when another run wrote it meanwhile.                                     *)
PastSave == {"cleanup"} \union Idle

EndIsRecorded ==
    /\ \A g \in Runs(history) :
          runStatus[g] = "running" => pc[g] \in Running \union {"lost"}
    /\ \A entry \in Saved :
          pc[entry.slot] \in PastSave =>
              runStatus[entry.slot] \in {entry.status, "cancelled"}

(* What a run is reported to have come to, in memory and in runs.json, is   *)
(* what its last Execute returned, and it fails only after its last retry:  *)
(* while its goroutine lives, no report is left over from an earlier        *)
(* attempt, from an earlier run or from a save that another run made.       *)
Report(g, status) ==
    pc[g] \notin Idle =>
        /\ status = "success" => outcome[g] = "ok"
        /\ status = "failed" => outcome[g] = "error" /\ tries[g] = MaxRetries

ResultTrue == /\ \A g \in Slots : Report(g, runStatus[g])
              /\ \A entry \in Saved : Report(entry.slot, entry.status)

(* A run that has been recorded comes to an end: its goroutine returns,     *)
(* whatever Execute answers and whoever edits the task meanwhile.           *)
RunEnds == \A g \in Slots : pc[g] = "registering" ~> pc[g] \in Idle

(* As long as the ticker runs, a task that stays enabled is run again and   *)
(* again: neither a run that holds a replaced task, nor an edit during the  *)
(* run, nor a restart leaves it without a NextRun for good.                 *)
EnabledTaskRuns ==
    \A t \in Tasks :
        (tasks[t] = "enabled" /\ running)
          ~> \/ \E g \in Slots : pc[g] = "registering" /\ owner[g] = t
             \/ tasks[t] # "enabled" \/ ~running
=============================================================================
