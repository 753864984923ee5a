# AnyClaw in TLA+

This directory holds a verification development for AnyClaw
(`github.com/1024XEngineer/anyclaw`), a local-first workbench for AI agents
written in Go: TLA+ modules translated from the source, TLC configurations that
check them on small instances, and TLAPS proofs of what matters most for every
value of the constants. `PROJECT.json` lists the components, runs, mutants,
hazards, findings and theorems, and maps every definition that models code to
the lines it translates.

Paths below are relative to `src/`.

## 1. The system

`docs/ARCHITECTURE.md` divides AnyClaw into nine modules. What matters for a
model is the state each keeps, who changes it, and from which goroutines.

| Component | State | Operations | Interaction and what is hard | Correct when |
|---|---|---|---|---|
| **Orchestrator** `pkg/runtime/orchestrator` | plan, sub-task queue, agent pool, lifecycle records, semaphore | Decompose, DequeueReady, UpdateResult, the loop and goroutines of `runTaskResult`, temporary agents | one loop, one goroutine per sub-task; agent pool and lifecycle shared with other runs | dependencies deliver, failures spread, the limit holds, the run ends |
| **Batch jobs** `pkg/gateway` (transport, jobs API, workers), `pkg/state/store.go` | job records in the state file, a channel of closures, the cancel marks | submit, work, cancel, retry, restart | HTTP handlers, worker goroutines and the store write the same record from private copies; bounded channel; restart loses the closures and keeps the records | the record tells what happened; nothing queued is forgotten |
| **Session turns** `pkg/runtime/sessionrunner`, `pkg/state/sessions.go` | messages, presence, typing, queue depth | EnqueueTurn, Run, RunChannel, the approval hook, resume, failRun | requests of one session run concurrently; a run pauses by an error, another goroutine resumes it; clones are read, changed and written back | no message lost, no slot leaked, no gated call without a yes |
| **Approval records** `pkg/state/approvals.go`, `pkg/gateway/approvals` | approvals of calls and of task executions, with resume states | request, resolve, act on the answer | whoever asks, answers and resumes are three goroutines; a record is read, decided on and written in separate steps | an answer stands and is acted on once |
| **Task runner** `pkg/runtime/taskrunner` | tasks with steps, evidence and approvals | Create, Execute, await approvals, reject, fail | whole-task copies are held over a long run and written back; each answer starts another execution; a restart leaves the record as it was | outcome is true and stands; nothing unapproved passes the gate |
| **Scheduler** `pkg/runtime/execution/schedule` | tasks with next run, runs, cancel functions, two files | next due time of a schedule, tick, runTask with retries, cancel, update, persist | two searches through the calendar that must end and miss nothing; one ticker, a goroutine per run, handlers that replace the task under a run, unlocked collection of runs | reports are true, histories bounded, an enabled task keeps running |
| **Workflow executor** `pkg/capability/workflows` | graph executions: node states, the active set, loop variables | execute nodes, join, loop, retry, skip, goto, cancel | a recursion over a graph with cycles and gotos; errors caught at any level; states forgotten between iterations | ends, joins wait for all parents, loops serve all items |
| **Workflow triggers, editor** `pkg/capability/workflows` | triggers, graphs | fire a trigger, edit a graph | start of an execution only | - |
| **Runtime pool, hot reload** `pkg/runtime/pool.go`, `hot_reload.go` | runtimes by agent and workspace | get or create, expire, evict, invalidate | entries in use by a run while evicted | limit kept, no use of a closed runtime |
| **Gateway server** `pkg/gateway` | HTTP and websocket connections, events | routing, decoding, JSON views, event bus | pure I/O around the state above | views agree with the state |
| **Ingress and channels** `pkg/gateway/ingress`, `intake`, `pkg/input`, `pkg/route`, channel and session bridges | adapters' cursors, conversation to session map | receive, normalise, route, reply | find-then-create of a conversation's session | one session per conversation |
| **State store** `pkg/state` | everything above, in one JSON file | clone on read, replace on write, save | last writer wins; file rewritten in place | reads see the last write |
| **Agent kernel** `pkg/capability/agents`, `models` | the conversation of one call | model loop, tool calls, resume | external model; approval hook on each call | gated calls ask |
| **Tools** `pkg/capability/tools`, `clihub`, `vision`, `media`, `canvas`, `isolation` | files, processes, browser | one function per tool | I/O | - |
| **Extensions, marketplace** `pkg/extensions`, `marketplace`, `marketregistry` | installed artifacts, receipts, plugin processes | install, bind, start | partial installs, process exit | receipt matches what is installed |
| **Assembly, configuration** `pkg/runtime/bootstrap*`, `pkg/config` | object graph | built once | sequential | - |
| **Governance, infrastructure** `pkg/gateway/auth`, `pkg/state/policy`, `pkg/sqlite`, `vec`, `index`, `embedding`, `api` | users, policies, audit, indexes | decide, record, search | mostly functions of data | - |
| **Devices** `pkg/gateway/resources`, `transport` | nodes, pairing codes | pair, expire, invoke | code expiry against use | a code is used once |
| **Clients** `cmd/`, `ui/` | - | presentation | - | - |

The way a request goes through the modelled core: a message arrives in the
gateway, `sessionrunner.Run` enqueues a turn in the session, takes a runtime
from the pool and runs the agent; a tool call that needs approval makes the run
return, and the gateway's approval endpoint resumes it from a goroutine of its
own. A task too large for one agent goes to the orchestrator, which decomposes
it and runs sub-agents. A message may also become a task: `taskrunner.Execute` runs it in
a session of its own, behind an approval of the execution where the agent's
configuration demands one, and the same approval endpoint starts it again. The
scheduler starts commands when they are due, a workflow's nodes call tools in the
order of its graph. Administrative batches (moving sessions, refreshing runtimes)
are jobs behind a channel.

Components in the table without a module are listed as `not_modelled` in
`PROJECT.json` with the reason.

## 2. The modules

Every action is one critical section of the code: a call under the mutex that
guards the state, a channel operation, or a stretch of a goroutine that touches
only its own variables. Definitions whose comment begins with *Slip* are
mutations: plausible mistakes in the definition they stand before. No
specification uses them; with one in place of that definition TLC finds the
property violated, which shows what the property excludes.

### OrchestratorRun (`orchestrator.go`, `task.go`, `lifecycle.go`, `temporary.go`)

| TLA+ | code |
|---|---|
| `dependsOn`, `assigned`, `status`, `inputs` | `SubTask.DependsOn`, `.AssignedAgent`, `.Status`, the outputs `buildTaskInput` put into the input |
| `agentPool`, `lifecycle` | `AgentPool.agents`, `ManagedAgent.Status` |
| `main`, `current` | where the loop of `runTaskResult` is, the sub-task it holds |
| `worker`, `sem`, `updateMu` | the goroutines, the channel `sem`, the mutex |
| `CheckPending` ... `WaitAll` | the loop, `HasPending` (twice), `DequeueReady`, pool lookup, `sem <-`, `wg.Wait` |
| `PrepareInput` ... `ReleaseSlot` | the goroutine: `GetDepOutputs`, `lifecycle.Start`, the run and `UpdateResult` under `updateMu`, `Complete`/`Fail`, `<-sem` |
| `CleanUpTemporary` | another run ends its temporary plan: `Unregister` and `lifecycle.Cleanup` |

`Doomed` is the set `markDependentsFailed` marks by recursion, written as the
least set closed under "depends on"; `Known` drops the dependencies that the
queue's index does not have (see finding 1). The result of the agent (output or
error) is a choice. The loop's sleep is the step `Recheck`.

### JobQueue (`session_moves.go`, `runtimes.go`, `gateway_audit_jobs_api.go`, `gateway_job_queue_runtime.go`, `gateway_http_helpers.go`, `store.go`)

| TLA+ | code |
|---|---|
| `record` | `Job.Status` in the store |
| `outcome`, `position`, `failures`, `work` | the closure's own copy and its progress |
| `jobQueue`, `idle` | the channel, the worker goroutines waiting on it |
| `jobCancel`, `canceller`, `answered` | `Server.jobCancel`, the cancel handlers, the jobs whose cancel was answered |
| `decoded` | jobs whose payload was read back from JSON |
| `Submit`, `Retry`, `Validate`, `Send` | the handlers up to the channel send |
| `Receive`, `Begin`, ..., `Finish` | a worker and the closure |
| `CancelRead`, `CancelMark`, `CancelWrite` | `handleCancelJob` |
| `Restart` | the process ends and starts again on the same state file |

`Loop` and `Reached` model the conversions of the payload by what they do: the
assertion to `[]any` gives no items before a restart, and the decoded refresh
items are read with keys they do not have.

### SessionTurns (`manager.go`, `sessions.go`, `approvals.go`, `service.go`, `api.go`, `approval_resume.go`)

| TLA+ | code |
|---|---|
| `depth`, `presence`, `typing`, `said`, `last` | `Session.QueueDepth`, `.Presence`, `.Typing`, `.Messages` (which turns' messages are there, and the last one) |
| `open` | ghost: turns enqueued that nothing has released |
| `asked`, `status`, `resumable` | the approvals in the order of the store, their status, whether the payload holds a `resume_state` |
| `pc`, `turn`, `call`, `pending`, `via` | the runs: place, message, the gated call, the clone about to be saved, the approval the call ran under (ghost) |
| `answer`, `target`, `verdict`, `seen` | the resolve requests and the clone each has read |

Run `r` in `Turns` is a new message; run `MaxTurns + k` is the one that answer
`k` resumes. One run asks for at most one approval, which bears its number. The
message texts of turns are distinct, as are their numbers. `Run` and
`RunChannel` differ in two exits, both in `Execute`: without a runtime `Run`
fails the turn and `RunChannel` abandons it.

### CronNext (`parser.go`, `scheduler.go` of `execution/schedule`)

| TLA+ | code |
|---|---|
| `schedule` | the five fields of a `CronSpec` or `CronExpr`, each a set of values; `{-1}` is what `isWildcard` recognises |
| `from`, `current` | the argument `t`, the candidate of the search |
| `JumpMonth` ... `ReturnZero` | one round of the loop of `CronSpec.Next` (the schedule pages of the gateway) |
| `ExprJumpMonth`, `ExprJumpDay`, `ExprReturn` | one round of the loop of `CronExpr.Next` (the scheduler) |
| `Minute` ... `TimeOfDay` | package `time` on a calendar that is a parameter |

A parsed `*` is the set of all values of its field, as `parseFieldPart` makes it;
only `@every` gives `{-1}`. `CronExpr` holds one number per field, -1 for any;
`ParseCronExpr` does not look at their ranges (`ScheduleAssumption`). The
calendar has the same months every year and no summer time.

### Scheduler (`scheduler.go`, `persister.go`, `gateway_cron_api.go`, `cron_cli.go`)

| TLA+ | code |
|---|---|
| `tasks`, `nextRun` | `Scheduler.tasks` with `Enabled`, `Task.NextRun` as nil, ahead or past |
| `toStart`, `looping`, `running` | `tasksToRun` of a tick, the goroutine `runLoop`, the flag |
| slot `g`: `pc`, `owner`, `tries`, `outcome`, `runStatus` | one `TaskRun` record with the goroutine that writes it: place, `TaskID`, loop counter, last result, `Status` |
| `stale` | goroutines whose `task` pointer is no longer the one in the map |
| `history`, `snapshot`, `runsFile`, `tasksFile` | `taskRuns`, the runs collected for `SaveRuns`, the two files |
| `Tick`, `Spawn`, `Lookup` ... `Cleanup` | `checkAndRunTasks`, `go runTask`, and `runTask` cut at each lock, unlock and unlocked write |
| `AddTask` ... `Stop` | the methods behind the HTTP handlers |
| `CliEdit`, `Restart` | the cron commands on the file, `LoadPersisted` |

A snapshot holds pointers: `Write` saves what the records say by then. The
context of a run has a timeout, so the goroutine may find it done whenever it
looks. A slot is used again only when nothing refers to its old record.

### TaskRun (`tasks.go`, `approvals.go`, `state.go` of `taskrunner`; `approvals.go` of `state`; `service.go`)

| TLA+ | code |
|---|---|
| `task`, `approvals` | the task's record and its approvals in the store |
| `pc`, `copy`, `session`, `err` | the executions: place, the clone of the task, its session, what the runtime returned |
| `depth`, `presence`, `said` | the sessions the executions use |
| `answer`, `target`, `verdict`, `seen`, `held` | the resolve requests, with the task `MarkRejected` holds |
| `granted`, `hasty`, `crashed` | ghosts: approvals that were ever approved, whether an answer came while something was at work, whether there was a restart |
| `Begin` ... `FailTask` | `Execute` and what it calls, one action per access to the store or method of the session manager |
| `ReadApproval` ... `ShowRejected` | `Resolve`, `HandleResolved`, `MarkRejected` |
| `Crash` | the process ends, the file stays |

Execution 1 is the request's; execution `k + 1` is the one that answer `k` sets
off. `Continue` clears the local state of an execution that returns.
`LookupSignature` and `RequestSignature` are two constants that differ, as the
two signatures do (finding 3).

### WorkflowRun (`executor.go`, `graph.go` of `workflows`)

| TLA+ | code |
|---|---|
| `status`, `attempts` | `ExecutionContext.NodeStates` |
| `active`, `executions` | `workflowExecutionRun` |
| `stack` | the calls of `executeNode` under way: node, place, the nodes still to call, the item and the `beforeStates` of a loop |
| `failure` | the error on its way up |
| `execStatus`, `returned` | `ExecutionContext.Status`, the error of `ExecuteGraphContext` |
| `cancelled`, `expired` | the contexts that are done |
| `Call...`, `Enter`, `StartAttempt` | the checks at the head of `executeNode`, one attempt of its retry loop |
| `Body...`, `Loop...` | `executeNodeBody`, `executeLoopNode` |
| `NodeReturns`, `PassOn`, `Retry`, `Skip`, `Fail`, `Execution...` | returns, `handleNodeError`, the end of the execution |

The graph is a variable that `Init` takes from `Graphs` and nothing changes. A
goto to a node that the graph does not have, which `Validate` lets through, is a
goto to `Root`. A loop variable that is no list fails as one with too many items
does. The
order of calls among the nodes that follow is left open; the code uses the order
of the graph's list of edges.

### PlanRun

The abstract plan: sub-tasks that wait, work, succeed or fail, at most `Limit` at
work, each after those it needs, a failure taking everything below it along in
one step, and one answer. It knows no queue, goroutine or lock.
`OrchestratorRun!KeepsPromise` is its specification under the mapping
`Progress`: a sub-task is working from the moment it has a goroutine, and what
the queue's index does not know is not needed.

### The MC modules and the proof modules

`MCSessionTurns` and `MCScheduler` add the symmetry of the tools and of the
slots (both are only compared), `MCCronNext` the small calendar and the
schedules, `MCWorkflowRun` the graphs. The theorems are in
`OrchestratorRunProofs`, `JobQueueProofs`, `SessionTurnsProofs`,
`SchedulerProofs`, `TaskRunProofs`, `CronNextProofs`, `WorkflowRunProofs` and
`WorkflowOutcomeProofs`, which extends the one before; see section 5.

## 3. Runs

| Run | Instance | Distinct states | Shows |
|---|---|---|---|
| `orchestrator` | 3 sub-tasks, every dependency graph on them and every assignment to 2 agents, limit 2, one agent that another run may remove, lifecycle records left idle or completed | 260,538 | the safety properties, `RunsOnce`, the refinement of `PlanRun`, `Termination` |
| `jobs` | 2 jobs of 0 or 2 items, one worker, channel of 1, store that keeps 1 record, 2 attempts, 1 restart | 227,565 | the record agrees with the closure; everything queued drains |
| `session` | 2 turns, 2 answers, 2 runs at work at once, 2 calls covered by one desktop grant | 3,846,197 | messages, depth, typing, answers |
| `cron` | a year of 2 months (2 and 3 days), weeks of 3 days, days of 4 hours of 3 minutes of 2 seconds; 433 schedules for `CronSpec.Next`, 157 for `CronExpr.Next`, from each of the 120 seconds of the year | 276,712 | no match is missed, both searches end (but for the exceptions named below and in section 4) |
| `scheduler` | 1 task, 3 run records, 2 goroutines at once, 1 retry, histories of 1, one call or restart | 1,039,665 | reports are true, the end of a run is recorded |
| `scheduler_live` | the same with 1 goroutine at once, under fairness | 135,326 | every run ends, an enabled task runs again and again |
| `tasks` | 1 task with or without a gate, 2 answers, 1 restart | 259,432 | gate, reply, status, an approved task is executed |
| `workflow` | 426 graphs of at most 5 nodes, limits 10 and 2 | 82,516 | stack, joins, loops, outcome; every execution ends |
| `orchestrator_blank_step` | as `orchestrator` with a blank first step | violated | finding 1 |
| `session_first_answer` | 1 turn, 2 answers | violated | finding 2 |
| `task_tool_approval` | as `tasks` | violated | finding 3 |
| `workflow_loop_retry` | loops with two attempts | violated | finding 4 |

Why the bounds are enough to be interesting. Three sub-tasks are the least with
a chain (`Doomed` at depth two), a join (one dependency completed, the other
running) and two independent siblings that share an agent; a limit of two makes
the third wait for a token. Two jobs with a channel of one and one worker make
a handler block on a full channel behind a running closure; a store of one
record makes the older job's updates fall into the void; sizes 0 and 2 give the
empty batch, the partial failure and the total failure. Two turns and two
answers are the least for: two waits on one approval, an answer that races the
pause, contradictory answers, a resumed run beside a new one. `MaxAtOnce`
bounds how many runs are at work together, resumed ones included. Both calls
are desktop calls in this instance, so that one grant can cover two of them; with
one of the two an ordinary call (`Desktop = {t1}`, without the symmetry) the same
properties hold in 7,308,472 states, and `CallsWereAnswered` is proved for every
set of calls and desktop calls.

The small calendar keeps what the jumps depend on: months of different lengths
(a day only one of them has), a week that does not divide the year (so that the
week day of a date changes from year to year), several hours, minutes and
seconds (a start in the middle of each). A field is everything, one value,
neighbours or values apart. `SearchYears` is 1 here and 4 in the code; a
day that exists comes round within a real 4 years (29 February, around a year
like 2100, excepted). `CronExpr` is also given minutes and hours out of range,
with any day and with one day of the month, those included whose search goes
round on one day for ever (`SearchEnds` excepts them). Only a date that no month
has is left out: the search for it runs on through the years, which are more
states than TLC can visit.

One task is enough for the scheduler because two tasks share nothing but the
ticker and the file of runs, and a file that is written while another goroutine
works is there with two goroutines of one task. Two goroutines give the double
start of a task that is still due, two writers of `NextRun` and two saves in
either order; a third record and a history of one let a run fall out of the
history while it works. One retry tells the first attempt, a retry and the last
one apart. One edit is any one of the calls at any moment; with two, state
spaces grow beyond what a run affords, and the proofs cover every number. The
liveness run has one goroutine at a time: it shows that a run ends and that its
task comes round again, also when it was replaced meanwhile; goroutines that
overlap are in `scheduler` only.

Two answers give a task up to three executions, with an answer while one is at
work, contradictory answers, a second answer to a settled approval, and a
restart anywhere; a task has no other actors.

The graphs are: a parallel fan-out and conditions whose branches meet in a join,
with a branch that is skipped, retried, left by a goto, or chosen by an
expression; loops over two items with a body of two nodes, a continuation and a
join, with skips, retries, a timeout and too many items; a loop in a loop, with
and without a retry; bodies and branches that lead back, a join in a body, gotos
into a body, behind a loop and to no node; and all 400 graphs on three nodes that start with
an action, whatever the types of the other two and four of the edges between
them. Cancellation, the action's own errors, panics and expiry may come at any
step. Ten executions are enough for all but the largest of these graphs, which
reach the limit.

Deadlock checking is off for `jobs`, `session`, the scheduler's and the task's
runs: when all jobs are done, no turn has anything left to do and nobody
answers, the scheduler is stopped and its calls are used up, or the task is at
rest, the system rests. The orchestrator, the cron search and the workflow end
in a step of their own, so there deadlock is checked.

### The properties

* Orchestrator. `OutputsDelivered`: a started sub-task has the outputs of
  everything it depends on. `SlotBound`: `sem` counts the goroutines and stays
  within the limit. `FailurePropagates`: whatever depends on a failed sub-task
  has failed and was never started. `DoneIsFinal`: the call returns after all
  goroutines, with an outcome for each sub-task, and an error exactly when one
  failed. `LifecycleRunning`: a record that says running has a goroutine behind
  it, although `Start`'s error is dropped and other runs clean up. `RunsOnce`:
  no second start, no second outcome. `KeepsPromise`: all of it is a run of
  `PlanRun`. `Termination`.
* Jobs. `CompletedMeansDone`: a submitted batch recorded as completed went
  through all its items and not all failed. `CancelStands`: after an answered
  cancel, the ended closure's record is cancelled or the closure had been
  through everything. `OutcomeKept`: no stale clone survives the end of a
  closure. `Drained`: what waits for a slot or a worker gets it.
* Session. `MessageKept`, `DepthBound`, `TypingStops`, `CallsAnswered`: see the
  comments at their definitions, which also name their exceptions (a channel
  request whose runtime cannot be had returns without releasing anything).
* Cron. `NoMatchPassed`: the candidate of `CronSpec.Next` never jumps over a
  match, at any point of the search, except in an hour right after an hour of
  the schedule; a match by the code's own rule for the two day fields or by the
  rule that its comment states (`StatedDay`). `NeverLate`: `CronExpr.Next` jumps over none at all, whatever
  its five numbers; it may be early. `SearchEnds`: both searches end,
  `CronSpec.Next` always, `CronExpr.Next` if some day has the month, the day and
  the weekday of the schedule and, where the day is restricted, its hour and
  minute do not lead off that day. Without either it need not (section 4). No run
  checks `FirstMatch` (what `NoMatchPassed` says of the answer) and
  `RoundAdvances`; they are there for the theorems.
* Scheduler. `EndIsRecorded`: a kept record says running only while its goroutine
  is at work or went with an earlier process; and once a goroutine is past its own
  save, the file says of its run what the record says, in whatever order the runs
  save. A cancelled run is excepted in the file: it does not save. `ResultTrue`: while the goroutine lives, a reported or saved success
  is its last attempt's, and a failure comes only after the last retry; no report
  is left over from an earlier run of the record or from another run's save.
  `RunEnds`, `EnabledTaskRuns`: a recorded run ends, and a task that stays
  enabled is run again, whatever replaces it under the run that has to
  reschedule it.
* Tasks. `ApprovalGate`: with confirmation required nothing reaches the runtime
  before a yes to the execution. `CompletedHasReply`: a completed task has its
  exchange, in its own session unless an answer came while something was at
  work. `StatusTrue`: under that condition a task at rest has a true status, and
  waits only where an approval is still open. `ApprovedRuns`: a yes in time is
  followed by an execution.
* Workflow. `NeverReentered`: no node is on the stack twice. `JoinStandsOnParents`:
  a completed join keeps settled parents. `LastParentRunsJoin`: when an
  execution completes, a join whose parents are all settled, and call it, has
  run, unless a loop absorbed a failure. `LoopServesEveryItem`: a loop that was
  called afresh and completes at its first attempt has run its body for every
  item. `CompletedHasNoFailure`: a failed node is not in a completed execution
  unless a loop around it absorbed the failure.
  `ExecutionEnds`.

### Fairness

`orchestrator`: weak fairness of the loop and of each goroutine. The Go
scheduler runs whatever is runnable, `updateMu` is held over straight-line code,
and a sub-agent's run ends at the latest when its context does; the loop cannot
starve the semaphore since only it acquires. `CleanUpTemporary` belongs to other
runs and has none. `jobs`: weak fairness of each sender (blocked senders on a Go
channel are served in order), of the receive and of each closure (moving a
session and refreshing a runtime return). Clients are not fair. In `session`
only safety is checked; `FairSpec` is there because a goroutine
that can run does, and nobody is obliged to answer. `cron`: weak fairness of the
loop, which has no wait in it. `scheduler_live`: weak fairness of the ticker, of
the end of the loop, of time passing for a task, of the start of a goroutine and
of each goroutine (a command ends at the latest when its context does); the
calls from outside have none. `tasks`: weak fairness of each execution and of
each answer that was given, none of the client who may answer nor of the
restart. `workflow`: weak fairness of the goroutine that executes the graph,
hence of its actions' return; cancellation and expiry have none.

## 4. Findings

Each of the first four is a run of its own whose property states what a comment,
test or text of the repository promises; TLC's counterexample is the behaviour
of the code. The quotations are in `PROJECT.json`.

1. **A blank planner step hangs the run** (`task.go:174`). A step that depends on
   a skipped one stays pending and the loop spins for ever.
2. **The second answer wins** (`service.go:56`). Approving a rejected approval
   makes the call, although the record stays rejected.
3. **An approved tool call is asked for again** (`taskrunner/approvals.go:177`).
   The hook looks for a signature of the arguments, the request signs the whole
   payload; the two never agree.
4. **A retried loop passes over items** (`executor.go:307`). The node states of
   the failed iteration are kept, and a node that is completed is not run again.

Other statements of the repository are violated as well. The modules state them,
no run repeats them; the instance that shows each is given here.

* *Retries of batches are recorded and never made* (`session_moves.go:160`,
  `runtimes.go:164`): the record goes back to queued and nothing is enqueued.
  *Retrying a job does nothing* (`gateway_job_queue_runtime.go:24`): the items are
  lost in a type assertion and the retry is recorded as completed.
  `JobQueue!QueuedHasWork` and `RetryRepeats`, with `Spec`, `MaxJobs = 2`,
  `Sizes = {2}`, `QueueCapacity = 2`, `Workers = 2`, `MaxAttempts = 2`,
  `KeptJobs = 2`, `MaxRestarts = 0`, without deadlock checking.
* *An answer can be undone* (`manager.go:1144`): saving the resume state writes a
  pending clone over an approval that was resolved meanwhile.
  `SessionTurns!ResolutionStands` as a PROPERTY of `MCSessionTurns` with
  `FairSpec`, `MaxTurns = 1`, `MaxAnswers = 1`, `MaxAtOnce = 2`, `Tools = {t1}`,
  `Desktop = {}`, without deadlock checking.
* *The next hour is skipped* (`parser.go:176`): with `0 * * * *`, the next time
  after 10:30 is given as 12:00. *A weekly schedule is due every day*
  (`parser.go:138`): a parsed `*` is not recognised as unrestricted, and the two
  day fields are combined with or. `CronNext!NextIsNext` and `OnlyOneRestricted`,
  as in `CronNext.cfg` with `Exprs <- Nothing`.
* *A daily task is due every second* (`scheduler.go:237`): once its hour is past,
  the next due time of `@daily` is one second away. `CronNext!DueOnSchedule`, with
  `Specs <- Nothing` and `Exprs <- Daily`.
* *A join may be left out* (`executor.go:178`): when a condition takes one of two
  branches, the join that it reaches waits for the parent on the other, which
  nobody runs, and the execution completes without it. The palette says
  "Join multiple branches back into one path." (`editor.go:149`).
  `MCWorkflowRun`, `JoinedIsRun`, with `Spec` and `Graphs <- Diamonds`.

Remarks from the same reading, with no statement in the repository to hold
against them:

* Schedules. A five-field schedule with a `*` is not a `CronExpr`
  (`ParseCronExpr` reads five numbers), and `calculateNextRun` then makes the task
  due in an hour. Nor are the numbers checked (`scheduler.go:188`). With the hour
  left open and a restricted day (`0 -1 2 -1 -1`), each round adds a day and sets
  the hour to -1, the last hour of the day before: the candidate stays where it
  is, and the search does not end while the scheduler holds its lock
  (`scheduler.go:231`). An hour of 24 goes on by two days instead, and
  `0 24 2 1 -1` steps over the second of January of every year; nor does the
  search for a day that no month has end. A minute of -1 is not "any minute": `-1 11 -1 -1 -1`, asked
  at 10:59, is due at 10:59 of the next day.
* Scheduler. A task that is due at two ticks before its run is recorded is
  started twice. `CancelRun` has no caller in the server and never calls the
  cancel function: the run goes on and overwrites the mark. A negative
  `MaxRetries` reports success without an attempt (`scheduler.go:447`). A
  run whose timeout has passed returns without saving (`scheduler.go:449`,
  `479`): when another run saved while it was at work, the file says running with
  nothing at work, until some run saves again. Of two saves the later one may lack the other's
  run, and a save that fails is ignored (`scheduler.go:521`); the model's saves
  succeed. The server's add, update and delete are never saved, and the command line
  edits the file of a running server (`persister.go:11`, `gateway_cron_api.go`).
* Tasks. Every answer is acted on, also one to a settled approval, so executions
  of one task can overlap; the pause of an execution is saved after its approval
  can be answered, and a late `waiting_approval` can be the last thing that is
  said of a task nobody will take up again. Without a runtime the session stays
  typing. An execution that waits never gives back the slot in its session's
  queue. `MarkRejected` fails a completed task. After a restart nothing takes up
  a task that says running.
* Workflow. A loop that fails and is retried passes over body nodes of a loop
  inside it, and a join in its body may be left out when a parent had settled, but
  not yet called it, before the failure: the parent is not run again. An action's
  own deadline error makes the execution "cancelled"
  (`executor.go:130`, `666`). An execution that completes after a node failed inside a
  retried loop keeps the old error text; when the loop is skipped and no node
  comes after it, the status stays failed while no error is returned. A failure edge is never
  followed (`executor.go:390`). The trigger manager starts executions without its
  context, so the timeout of a trigger does not apply (`trigger.go:474`).

## 5. Proofs

All eight proof modules are checked by `tlapm` with no assumption beyond those
named in the modules (`PlanAssumption`, `AgentAssumption`, `SlotAssumption`;
`BoundAssumption`, `QueueAssumption`, `StoreAssumption`; `BoundAssumption`,
`ToolAssumption`; `TaskAssumption`, `BoundAssumption`; `GraphAssumption`,
`LimitAssumption`; `CalendarAssumption`, `ScheduleAssumption`). They say only that
limits are numbers, that a channel, a pool of workers, a history and a store have
room for one, that sub-plans are subsets, that there is a task, that graphs are
what `Graph.Validate` accepts (edges between known nodes, at least one start
node; a cycle is legal, and so is a goto to an unknown node), that a calendar has units and months that are not empty, and of schedules
what their parsers guarantee. Every invariant that a run checks is proved.

* `OrchestratorRunProofs!Invariance`. `SlotBound` is not inductive without
  knowing where the loop and each goroutine are (`PhaseInv`): that the sub-task
  in hand is running and has no goroutine yet, and that a goroutine's phase and
  its sub-task's status agree. `OutputsDelivered` needs `GateInv` (whoever is
  past the queue has its dependencies completed, and completed is for ever), and
  `FailurePropagates` needs `NoLostFailure` (nothing pending has a failed
  dependency) besides, the facts that make marking only *pending* dependents
  enough. `EndInv` says that the loop ends only when all have an outcome. The other theorems
  of the module follow from the invariant; `RunsOnce` is an action property
  proved from it step by step.
* `JobQueueProofs!Invariance`. `CancelStands` and `CompletedMeansDone` are not
  inductive: both need to know what the closure's private copy looks like at each
  point of its work (`Progress`: not yet begun, running, or over with no more
  items than the request has), that the stored record is that copy unless a cancel
  was answered (`Recorded`), and that an answered cancel stays marked for as long
  as the closure can still look (`Marked`; a restart clears the marks and the
  closures together). `Queued` (the channel holds each queued closure once) and
  `Born` (a job not created has left no trace) carry the counting of the workers
  in `TypeOK` through `Receive` and the creation of a job.
* `SessionTurnsProofs!Invariance`. `DepthBound` compares a number with the
  cardinality of the set `open`: each action that removes a turn from `open`
  also decrements the depth, or finds it zero, and by `SlotInv` a turn that is
  enqueued was not in `open` before. `MessageKept` follows from `RecordedInv`
  (past the phase that writes it, the message is there) and rests on `LastInv`:
  a user message that is last is among those said, so the shortcut of
  `EnsurePendingUserMessage` loses nothing.
* `SessionTurnsProofs!AnswersInvariance` follows an approval from the run that
  asked (`Asked`, `Placed`) through the clone about to be saved (`Saving`), the
  answer that aims at it (`Aimed`), the grant (`Granted`: an approved record has
  an answer with yes behind it), to the resumed run (`Resumed`) and the call
  (`Called`). `TypingInv` gives `TypingStops`: a session that shows typing has a
  run at work.
* `OrchestratorRunProofs!PromiseKept`: under the mapping, initial states are
  initial states of `PlanRun`, and under the invariant every step is a step of it
  or leaves the mapped state alone. A failing result maps to `Fail` with the set
  of everything that `Doomed` marks; the bound on `Start` is `SlotBound`'s.
* `SchedulerProofs!Invariance`. `ResultTrue` speaks of a record while its
  goroutine lives, so the invariant says which places each status allows and how
  the loop ends (`LocalInv`: a goroutine that waits has retries left, one that
  finishes has succeeded or used them up), the same of each entry of the file
  (`SavedInv`), and that whatever a history or a snapshot refers to has been
  recorded (`KeptHasStatus`). That a slot is not reused while anything refers to
  it makes the file speak of the present run. `EndIsRecorded` is part of it: a
  write replaces all entries with what the records say at that moment, so those of
  one run agree with each other and, once its goroutine is past its save, with a
  record that nobody changes any more but to cancelled; a goroutine that comes
  there without a save has a cancelled record.
* `TaskRunProofs!Invariance`. `ApprovalGate` needs that an approved record was
  answered yes by somebody (`ApprovedByAnswer`), that answers aim at approvals
  there are (`AnswersAim`), and that the two places between the check and the
  runtime are behind the gate as well (`PastTheGate`). A grant is never taken
  back, so a later refusal does not disturb it.
* `TaskRunProofs!StatusInvariance`. Executions write whole clones back; both
  properties need to know what is in a clone at each place. `Spoken` holds without
  any assumption: no clone and no record says completed before an exchange was
  added. `Calm` is about the time before the first hasty answer: whoever is at
  work is alone (`Alone`), so that what it has read is still so when it writes
  (`OwnSession`, `Unfinished`, `Pausing`, `Replying`, `Rejecting`), and whoever
  stops leaves a true status behind (`Quiet`).
* `WorkflowRunProofs!Invariance` and `JoinInvariance`. `NeverReentered` needs to
  know that the lowest frame is the execution's own and is never taken for a node
  (`RootFrame`). `JoinStandsOnParents` is not inductive, because a loop forgets
  states: that nothing is forgotten under a join follows from what the loops on
  the stack will keep, a set that holds no join without its parents (`Closed`)
  and every call below (`FrameOK`); the same invariant says that a call's node is
  not settled before its body is over, so that no status of a parent is taken
  back. There is one lemma per kind of change of the stack (replace the top
  frame, pop, push, drop), once for the stack and once for the joins.
* `WorkflowOutcomeProofs!OutcomeInvariance`. What a completed execution has done
  is decided long before it completes, so the invariant speaks of every moment:
  `Tidy` says that each node state is settled or belongs to a call on the stack,
  and that a join that is due (all its parents settled, each one a caller of it)
  has run, runs, or is still in the list of some call. It fails while an error is
  on its way up (`Unwinding`) and after a loop has absorbed one, which is what the
  properties except. A loop takes states away, so `LoopFrame` says the same of
  the states each loop will keep, relative to the calls below it, and that these
  sets grow with the stack. At the end the stack is empty: every state is settled
  (`NoHiddenFailure`), every join that is due has run (`JoinsAreRun`).
* `WorkflowOutcomeProofs!LoopsServe`. `LoopServesEveryItem` needs to know, at
  each place of a loop that is at its first attempt, which items its private body
  nodes have been run for: up to the last item, without any state left of them,
  at the head of an iteration (`AtHead`); and within one, each of them run or
  still to be called (`InBody`). No state of such a node is there without one of
  its loop (`Sole`), among what each loop keeps as well, and nobody else has it in
  a list (`CallFrames`, `RootCalls`).
* `CronNextProofs!Invariance`. On a calendar whose units and months are
  parameters, the proofs first have to know the calendar: that to divide
  twice is to divide by the product (`DivDiv`), that `DaysBefore` is well defined
  and grows, that every day lies in exactly one month, and that times in one month,
  day, hour or minute share its number. The library's induction theorems cannot
  be used, but the least element of a set of numbers can (`Least`, from the
  well-foundedness of the order), and that is induction enough for
  `DaysBefore`. For `CronSpec.Next` each jump then goes forward to a time such
  that everything between differs from the schedule in one field, or lies in the
  hour after an hour of the schedule (`Jumps`, `MayPass`); on a day that matches as
  the comment states it, the code's rule matches as well (`StatedDayMatches`), so
  that the jumps pass over neither kind of match. `FirstMatchFound` and
  `RoundsAdvance` follow. `CronExpr.Next` may go backwards, with an hour out of
  range; its candidate is after the given time, or held back for ever on one day
  (`Stuck`), or nothing matches at all (`Hopeless`), and in each case no match has
  been passed.

The argument is always the same: the initial states satisfy the invariant, each
action preserves each conjunct it can disturb, and the property follows.

Only model-checked: `Termination`, `Drained`, `SearchEnds`, `RunEnds`,
`EnabledTaskRuns`, `ApprovedRuns` and `ExecutionEnds`, because liveness under
fairness is out of the prover's reach; `RoundsAdvance` is the part of
`SearchEnds` that is a statement about steps. Refuted properties are, of course,
not proved.

## 6. Not modelled, and the plan

Texts (messages, plans, summaries), formatting, wall-clock times other than
"expired or not", the choice of agents, authentication, and everything the
inventory lists without a module. In the modelled parts: the depth and child
limits of `AgentLifecycle.Spawn`; market install jobs; the steps, evidence and
recovery points of a task, which accompany its status and are never read to
decide one, and the desktop-plan hook that writes them; the values that a
workflow passes along; the writes of session moves to a session that is running.

Most of the repository is I/O around this core: of 917 source files the modules
stand for those that keep a protocol between goroutines in the server process.
The tools, the readers and writers of files, speech, vision and documents, the
provider clients, the plugin and market code and the user interfaces are for the
most part sequential functions on data or on the outside world; a model of them
would restate them. What is left that has a protocol, in the order of interest:

1. `RuntimePool` with runs that hold a runtime while it expires or is evicted.
   It is one mutex around a map; `Remember` ignores `maxInstances`
   (`pool.go:101`), and a runtime is never closed on eviction.
2. Conversation sessions: find, then create (`conversation_sessions.go:21`), two
   first messages of a conversation may get a session each. The names of
   temporary agents are chosen the same way (`temporary.go:81`), and ids of
   spawned agents come from the clock (`lifecycle.go:73`).
3. The state file, rewritten in place (`store.go:963`): a crash in the middle of
   a write leaves a torn file behind.
4. The retry of a job, whose closure never looks at the cancel mark
   (`gateway_job_queue_runtime.go:49`), composed with a cancel.
5. The abstract approval (asked, answered once, used), refined by `SessionTurns`
   and by `TaskRun` where finding 2 does not interfere.
6. `TriggerManager`, market installs, plugin processes, device pairing, provider
   failover.
