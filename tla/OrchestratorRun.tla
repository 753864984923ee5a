---------------------------- MODULE OrchestratorRun ----------------------------
(***************************************************************************)
(* One run of the multi-agent orchestrator: pkg/runtime/orchestrator,      *)
(* task.go (TaskDecomposer, TaskQueue) and orchestrator.go (runTaskResult).*)
(*                                                                         *)
(* A plan is a set of sub-tasks with dependencies.  The main loop takes    *)
(* ready sub-tasks from the queue and starts one goroutine for each, at    *)
(* most MaxConcurrentAgents at a time; a goroutine collects the outputs of *)
(* its dependencies, runs the agent and reports under updateMu.  Every     *)
(* action is one critical section of the code (a call under TaskQueue.mu,  *)
(* AgentLifecycle.mu or AgentPool.mu, or one channel operation).           *)
(***************************************************************************)
EXTENDS Naturals, FiniteSets

CONSTANTS
    N,                    \* planner steps in the payload
    Blank,                \* steps the planner returned with an empty title
    Agents,               \* agents in the pool when the plan is made
    Temporary,            \* those that belong to other runs' temporary plans
    Leftover,             \* what earlier runs may have left as lifecycle status
    MaxConcurrentAgents   \* OrchestratorConfig.MaxConcurrentAgents

Steps == 1 .. N

(* Decompose skips a step whose title is blank.                            *)
SubTasks == Steps \ Blank

ASSUME PlanAssumption == /\ N \in Nat
                         /\ SubTasks # {}
ASSUME AgentAssumption ==
    /\ Temporary \subseteq Agents
    /\ Leftover \subseteq {"idle", "completed", "failed", "gone"}
ASSUME SlotAssumption == MaxConcurrentAgents \in Nat \ {0}

None == 0     \* no sub-task; Steps starts at 1

VARIABLES
    dependsOn,   \* SubTask.DependsOn, fixed by the plan
    assigned,    \* SubTask.AssignedAgent, fixed by the plan
    status,      \* SubTask.Status
    inputs,      \* the dependencies whose output went into the task input
    agentPool,   \* names registered in AgentPool
    lifecycle,   \* ManagedAgent.Status, or "gone" once Cleanup removed it
    main,        \* where the loop of runTaskResult is
    current,     \* the sub-task it has dequeued
    worker,      \* where the goroutine of each sub-task is
    sem,         \* tokens in the channel sem
    updateMu,    \* the sub-task whose goroutine holds updateMu
    result       \* the error value runTaskResult returned

plan == <<dependsOn, assigned>>
vars == <<plan, status, inputs, agentPool, lifecycle, main, current, worker,
          sem, updateMu, result>>

Statuses == {"pending", "ready", "running", "completed", "failed"}
Terminal == {"completed", "failed"}
Active   == {"spawned", "prepared", "running", "reported", "unlocked"}

(* DependsOn may name a step that Decompose skipped: such an id is not in  *)
(* the queue's index, and every check of the queue passes over it.         *)
Known(t) == dependsOn[t] \cap SubTasks

DepsMet(t) == \A d \in Known(t) : status[d] = "completed"

HasPending == \E t \in SubTasks : status[t] \notin Terminal

-----------------------------------------------------------------------------
(* Decompose keeps only dependencies on earlier steps and marks as ready   *)
(* the sub-tasks that have none; assignments fall on pool agents.  The     *)
(* lifecycle records outlive a run: they start as earlier runs left them.  *)
Init ==
    /\ dependsOn \in [SubTasks -> SUBSET Steps]
    /\ \A t \in SubTasks : \A d \in dependsOn[t] : d < t
    /\ assigned \in [SubTasks -> Agents]
    /\ status = [t \in SubTasks |->
                    IF dependsOn[t] = {} THEN "ready" ELSE "pending"]
    /\ inputs = [t \in SubTasks |-> {}]
    /\ agentPool = Agents
    /\ lifecycle \in [Agents -> Leftover]
    /\ main = "loop"
    /\ current = None
    /\ worker = [t \in SubTasks |-> "none"]
    /\ sem = 0
    /\ updateMu = None
    /\ result = "none"

(* markDependentsFailed: the pending sub-tasks that reach t through        *)
(* pending sub-tasks, the smallest set closed under "depends on".          *)
ClosedUnderDependents(t, F) ==
    \A u \in SubTasks :
        /\ status[u] = "pending"
        /\ dependsOn[u] \cap (F \union {t}) # {}
        => u \in F

(* Slip: only the direct dependents are marked, without the recursion.     *)
DoomedDirectly(t) ==
    {u \in SubTasks : status[u] = "pending" /\ t \in dependsOn[u]}

Doomed(t) ==
    {u \in SubTasks : /\ status[u] = "pending"
                      /\ \A F \in SUBSET SubTasks :
                            ClosedUnderDependents(t, F) => u \in F}

(* UpdateResult with an error, and with an output (activateDependents).    *)
FailResult(t) ==
    status' = [u \in SubTasks |->
                  IF u = t \/ u \in Doomed(t) THEN "failed" ELSE status[u]]

(* Slip: the completed sub-task itself is still read as unfinished.        *)
ActivatedTooEarlyRead(t) ==
    {u \in SubTasks : /\ status[u] = "pending"
                      /\ t \in dependsOn[u]
                      /\ \A d \in Known(u) : status[d] = "completed"}

Activated(t) ==
    {u \in SubTasks : /\ status[u] = "pending"
                      /\ t \in dependsOn[u]
                      /\ \A d \in Known(u) \ {t} : status[d] = "completed"}

CompleteResult(t) ==
    status' = [u \in SubTasks |-> IF u = t THEN "completed"
                                  ELSE IF u \in Activated(t) THEN "ready"
                                  ELSE status[u]]

-----------------------------------------------------------------------------
(* The loop of runTaskResult.                                              *)
CheckPending ==
    /\ main = "loop"
    /\ main' = IF HasPending THEN "dequeue" ELSE "wait"
    /\ UNCHANGED <<plan, status, inputs, agentPool, lifecycle, current, worker,
                   sem, updateMu, result>>

(* Slip: only a running dependency holds a sub-task back.                  *)
DequeuableUnlessRunning ==
    {t \in SubTasks : /\ status[t] \in {"pending", "ready"}
                      /\ \A d \in Known(t) : status[d] # "running"}

Dequeuable == {t \in SubTasks : status[t] = "ready" /\ DepsMet(t)}

(* Slip: the sub-task is handed out without being marked as running.       *)
DequeueUnmarked ==
    /\ main = "dequeue"
    /\ \/ \E t \in Dequeuable :
            /\ \A u \in Dequeuable : t <= u
            /\ current' = t
            /\ main' = "dispatch"
       \/ /\ Dequeuable = {}
          /\ main' = "recheck"
          /\ UNCHANGED current
    /\ UNCHANGED <<plan, status, inputs, agentPool, lifecycle, worker, sem,
                   updateMu, result>>

DequeueReady ==
    /\ main = "dequeue"
    /\ \/ \E t \in Dequeuable :
            /\ \A u \in Dequeuable : t <= u
            /\ status' = [status EXCEPT ![t] = "running"]
            /\ current' = t
            /\ main' = "dispatch"
       \/ /\ Dequeuable = {}
          /\ main' = "recheck"
          /\ UNCHANGED <<status, current>>
    /\ UNCHANGED <<plan, inputs, agentPool, lifecycle, worker, sem, updateMu,
                   result>>

(* Nothing was ready: leave the loop, or sleep and look again.             *)
Recheck ==
    /\ main = "recheck"
    /\ main' = IF HasPending THEN "loop" ELSE "wait"
    /\ UNCHANGED <<plan, status, inputs, agentPool, lifecycle, current, worker,
                   sem, updateMu, result>>

Dispatch ==
    /\ main = "dispatch"
    /\ \/ /\ assigned[current] \in agentPool
          /\ main' = "acquire"
          /\ UNCHANGED <<status, current>>
       \/ /\ assigned[current] \notin agentPool
          /\ FailResult(current)
          /\ current' = None
          /\ main' = "loop"
    /\ UNCHANGED <<plan, inputs, agentPool, lifecycle, worker, sem, updateMu,
                   result>>

(* Slip: one token too many.                                               *)
AcquireOffByOne ==
    /\ main = "acquire"
    /\ sem <= MaxConcurrentAgents
    /\ sem' = sem + 1
    /\ worker' = [worker EXCEPT ![current] = "spawned"]
    /\ current' = None
    /\ main' = "loop"
    /\ UNCHANGED <<plan, status, inputs, agentPool, lifecycle, updateMu, result>>

Acquire ==
    /\ main = "acquire"
    /\ sem < MaxConcurrentAgents
    /\ sem' = sem + 1
    /\ worker' = [worker EXCEPT ![current] = "spawned"]
    /\ current' = None
    /\ main' = "loop"
    /\ UNCHANGED <<plan, status, inputs, agentPool, lifecycle, updateMu, result>>

(* Slip: the loop's end is taken for the end of the goroutines.            *)
ReturnWithoutWaiting ==
    /\ main = "wait"
    /\ main' = "done"
    /\ result' = IF \E t \in SubTasks : status[t] = "failed"
                 THEN "error" ELSE "ok"
    /\ UNCHANGED <<plan, status, inputs, agentPool, lifecycle, current, worker,
                   sem, updateMu>>

(* wg.Wait, then the error that depends on the number of failures.         *)
WaitAll ==
    /\ main = "wait"
    /\ \A t \in SubTasks : worker[t] \notin Active
    /\ main' = "done"
    /\ result' = IF \E t \in SubTasks : status[t] = "failed"
                 THEN "error" ELSE "ok"
    /\ UNCHANGED <<plan, status, inputs, agentPool, lifecycle, current, worker,
                   sem, updateMu>>

-----------------------------------------------------------------------------
(* The goroutine of sub-task t.                                            *)
PrepareInput(t) ==
    /\ worker[t] = "spawned"
    /\ inputs' = [inputs EXCEPT ![t] = {d \in Known(t) : status[d] = "completed"}]
    /\ worker' = [worker EXCEPT ![t] = "prepared"]
    /\ UNCHANGED <<plan, status, agentPool, lifecycle, main, current, sem,
                   updateMu, result>>

(* AgentLifecycle.Start refuses an agent that is not idle; the error is    *)
(* dropped and the agent runs all the same.                                *)
StartAgent(t) ==
    /\ worker[t] = "prepared"
    /\ lifecycle' = IF lifecycle[assigned[t]] = "idle"
                    THEN [lifecycle EXCEPT ![assigned[t]] = "running"]
                    ELSE lifecycle
    /\ worker' = [worker EXCEPT ![t] = "running"]
    /\ UNCHANGED <<plan, status, inputs, agentPool, main, current, sem,
                   updateMu, result>>

(* The agent has returned: lock updateMu and record the outcome.           *)
Report(t) ==
    /\ worker[t] = "running"
    /\ updateMu = None
    /\ CompleteResult(t) \/ FailResult(t)
    /\ updateMu' = t
    /\ worker' = [worker EXCEPT ![t] = "reported"]
    /\ UNCHANGED <<plan, inputs, agentPool, lifecycle, main, current, sem,
                   result>>

(* Slip: the error path returns before the lifecycle is told.              *)
FinishWithoutFail(t) ==
    /\ worker[t] = "reported"
    /\ lifecycle' = IF lifecycle[assigned[t]] = "gone" \/ status[t] = "failed"
                    THEN lifecycle
                    ELSE [lifecycle EXCEPT ![assigned[t]] = status[t]]
    /\ updateMu' = None
    /\ worker' = [worker EXCEPT ![t] = "unlocked"]
    /\ UNCHANGED <<plan, status, inputs, agentPool, main, current, sem, result>>

(* AgentLifecycle.Complete or Fail, then updateMu is unlocked.             *)
FinishAgent(t) ==
    /\ worker[t] = "reported"
    /\ lifecycle' = IF lifecycle[assigned[t]] = "gone" THEN lifecycle
                    ELSE [lifecycle EXCEPT ![assigned[t]] = status[t]]
    /\ updateMu' = None
    /\ worker' = [worker EXCEPT ![t] = "unlocked"]
    /\ UNCHANGED <<plan, status, inputs, agentPool, main, current, sem, result>>

(* Slip: the slot is given back by the goroutine and again by a defer.     *)
ReleaseSlotTwice(t) ==
    /\ worker[t] = "unlocked"
    /\ sem' = sem - 2
    /\ worker' = [worker EXCEPT ![t] = "exited"]
    /\ UNCHANGED <<plan, status, inputs, agentPool, lifecycle, main, current,
                   updateMu, result>>

(* The deferred receive from sem, then wg.Done.                            *)
ReleaseSlot(t) ==
    /\ worker[t] = "unlocked"
    /\ sem' = sem - 1
    /\ worker' = [worker EXCEPT ![t] = "exited"]
    /\ UNCHANGED <<plan, status, inputs, agentPool, lifecycle, main, current,
                   updateMu, result>>

(* Another run's temporary plan ends: its agent leaves the pool, and       *)
(* Cleanup drops the lifecycle record of every agent that has finished,    *)
(* whichever run it belongs to.                                            *)
CleanUpTemporary(a) ==
    /\ main # "done"
    /\ a \in agentPool
    /\ agentPool' = agentPool \ {a}
    /\ lifecycle' = [b \in Agents |->
                        IF lifecycle[b] \in Terminal THEN "gone" ELSE lifecycle[b]]
    /\ UNCHANGED <<plan, status, inputs, main, current, worker, sem, updateMu,
                   result>>

Main == CheckPending \/ DequeueReady \/ Recheck \/ Dispatch \/ Acquire \/ WaitAll

Goroutine(t) == \/ PrepareInput(t) \/ StartAgent(t) \/ Report(t)
                \/ FinishAgent(t) \/ ReleaseSlot(t)

Finished == main = "done" /\ UNCHANGED vars

Next == \/ Main
        \/ \E t \in SubTasks : Goroutine(t)
        \/ \E a \in Temporary : CleanUpTemporary(a)
        \/ Finished

(* The Go scheduler runs every goroutine that can run, and an agent run    *)
(* returns (its context ends it at the latest).                            *)
Fairness == /\ WF_vars(Main)
            /\ \A t \in SubTasks : WF_vars(Goroutine(t))

Spec == Init /\ [][Next]_vars
FairSpec == Spec /\ Fairness

-----------------------------------------------------------------------------
(* Every variable holds a value the code can give it.                      *)
TypeOK ==
    /\ dependsOn \in [SubTasks -> SUBSET Steps]
    /\ assigned \in [SubTasks -> Agents]
    /\ status \in [SubTasks -> Statuses]
    /\ inputs \in [SubTasks -> SUBSET SubTasks]
    /\ agentPool \subseteq Agents
    /\ lifecycle \in [Agents -> {"idle", "running", "gone"} \union Terminal]
    /\ main \in {"loop", "dequeue", "recheck", "dispatch", "acquire", "wait",
                 "done"}
    /\ current \in SubTasks \union {None}
    /\ worker \in [SubTasks -> Active \union {"none", "exited"}]
    /\ sem \in Nat
    /\ updateMu \in SubTasks \union {None}
    /\ result \in {"none", "ok", "error"}

(* A goroutine that has built its task input holds the output of every     *)
(* sub-task it depends on: none is started before its dependencies, and    *)
(* none of their outputs is missed.                                        *)
OutputsDelivered ==
    \A t \in SubTasks :
        worker[t] \notin {"none", "spawned"} => inputs[t] = Known(t)

Running == {t \in SubTasks : worker[t] \in Active}

(* At most MaxConcurrentAgents goroutines run at once, and sem counts them.*)
SlotBound ==
    /\ sem = Cardinality(Running)
    /\ sem <= MaxConcurrentAgents

(* A failure stops everything that depends on it: no sub-task below a      *)
(* failed one is ever started or left waiting.                             *)
FailurePropagates ==
    \A t \in SubTasks : \A d \in Known(t) :
        status[d] = "failed" => status[t] = "failed" /\ worker[t] = "none"

(* runTaskResult returns only when no goroutine is left and every sub-task *)
(* has an outcome, and it returns an error exactly when one failed.        *)
DoneIsFinal ==
    main = "done" =>
        /\ \A t \in SubTasks : worker[t] \in {"none", "exited"}
        /\ \A t \in SubTasks : status[t] \in Terminal
        /\ result = "ok" <=> \A t \in SubTasks : status[t] = "completed"

(* An agent whose lifecycle record says running has a goroutine at work.   *)
LifecycleRunning ==
    \A a \in Agents : lifecycle[a] = "running" =>
        \E t \in SubTasks : assigned[t] = a /\ worker[t] \in {"running", "reported"}

OnceStep ==
    \A t \in SubTasks :
        /\ status[t] \in Terminal => status'[t] = status[t]
        /\ worker[t] # "none" => worker'[t] # "spawned" \/ worker[t] = "spawned"

(* A sub-task is started once and its outcome stands, whatever happens to  *)
(* the others.                                                             *)
RunsOnce == [][OnceStep]_vars

(* How far a sub-task is, for the caller: it works from the moment its     *)
(* goroutine is started until its outcome is recorded.                     *)
Progress(t) ==
    CASE status[t] = "completed" -> "succeeded"
      [] status[t] = "failed" -> "failed"
      [] status[t] \notin Terminal /\ worker[t] # "none" -> "working"
      [] OTHER -> "waiting"

Promise == INSTANCE PlanRun
             WITH Tasks <- SubTasks, Limit <- MaxConcurrentAgents,
                  needs <- [t \in SubTasks |-> Known(t)],
                  progress <- [t \in SubTasks |-> Progress(t)],
                  answer <- result

(* The loop, the goroutines, the semaphore and the queue together do what  *)
(* PlanRun promises: every step is one of its steps or invisible.          *)
KeepsPromise == Promise!Spec

(* A run ends.                                                             *)
Termination == <>(main = "done")
=============================================================================
