-------------------------------- MODULE JobQueue --------------------------------
(***************************************************************************)
(* The gateway's batch jobs: sessions.move.batch (pkg/gateway/transport/   *)
(* session_moves.go), runtimes.refresh.batch (transport/runtimes.go), the  *)
(* cancel and retry handlers (gateway_audit_jobs_api.go), the closures a   *)
(* retry enqueues (gateway_job_queue_runtime.go), the worker goroutines    *)
(* (gateway_http_helpers.go) and the job records of the store              *)
(* (pkg/state/store.go), which outlive the process.                        *)
(*                                                                         *)
(* A job is a record in the store and a closure that travels through the   *)
(* channel jobQueue.  The closure writes its own copy of the record, a     *)
(* cancel handler writes the clone it has read: the last writer wins.      *)
(* Jobs are numbered in the order of AppendJob.                            *)
(***************************************************************************)
EXTENDS Naturals, Sequences, FiniteSets

CONSTANTS
    MaxJobs,         \* bound: jobs ever created
    Sizes,           \* bound: numbers of items in a request
    QueueCapacity,   \* capacity of jobQueue
    Workers,         \* JobWorkerCount
    MaxAttempts,     \* JobMaxAttempts
    KeptJobs,        \* records AppendJob keeps
    MaxRestarts      \* bound: restarts of the gateway

ASSUME BoundAssumption == /\ MaxJobs \in Nat
                          /\ Sizes \subseteq Nat
                          /\ MaxRestarts \in Nat
ASSUME QueueAssumption == QueueCapacity \in Nat \ {0} /\ Workers \in Nat \ {0}
ASSUME StoreAssumption == KeptJobs \in Nat \ {0} /\ MaxAttempts \in Nat

Jobs == 1 .. MaxJobs
NoJob == 0

VARIABLES
    created,     \* how many jobs there are
    request,     \* Kind, number of items, RetryOf: fixed at creation
    decoded,     \* jobs whose Payload was read back from the state file
    record,      \* Job.Status in the store
    work,        \* where the handler or the closure of each job is
    outcome,     \* Job.Status in the closure's own copy
    position,    \* items the closure has been through
    failures,    \* items that failed
    jobQueue,    \* the channel
    idle,        \* worker goroutines waiting on the channel
    jobCancel,   \* Server.jobCancel
    canceller,   \* the cancel handler at work on each job
    answered,    \* jobs whose cancel request was answered "cancelled"
    restarts

progress == <<outcome, position, failures>>
channel  == <<jobQueue, idle>>
cancels  == <<jobCancel, canceller, answered>>
vars == <<created, request, decoded, record, work, progress, channel, cancels,
          restarts>>

Requests == [kind : {"move", "refresh"}, size : Sizes, retryOf : Jobs \union {NoJob}]
Statuses == {"queued", "running", "completed", "failed", "cancelled"}
Final    == {"completed", "failed", "cancelled"}

Direct(j) == request[j].retryOf = NoJob

(* AppendJob keeps the newest records; GetJob and UpdateJob find no other. *)
Kept(j) == j \in 1 .. created /\ j + KeptJobs > created

(* A retry reads its items from the Payload.  In the process that made the *)
(* request the Payload holds a []string or a []struct, the assertion to    *)
(* []any fails and no item is left; once decoded from the state file it is *)
(* a []any.                                                                *)
Loop(j) == IF Direct(j) \/ j \in decoded THEN request[j].size ELSE 0

(* A decoded refresh item is read as fmt.Sprint(m["Agent"], m["agent"]):   *)
(* the missing first key prints as "<nil>", and the key names no runtime.  *)
Reached(j) == IF Direct(j) \/ request[j].kind = "move" THEN position[j] ELSE 0

UpdateJob(j, s) ==
    record' = IF Kept(j) THEN [record EXCEPT ![j] = s] ELSE record

Idle(j) == work[j] \in {"none", "ended", "lost"}

-----------------------------------------------------------------------------
Init ==
    /\ created = 0
    /\ request \in [Jobs -> {[kind |-> "move", size |-> 0, retryOf |-> NoJob]}]
    /\ decoded = {}
    /\ record = [j \in Jobs |-> "queued"]
    /\ work = [j \in Jobs |-> "none"]
    /\ outcome = [j \in Jobs |-> "queued"]
    /\ position = [j \in Jobs |-> 0]
    /\ failures = [j \in Jobs |-> 0]
    /\ jobQueue = <<>>
    /\ idle = Workers
    /\ jobCancel = {}
    /\ canceller = [j \in Jobs |-> "none"]
    /\ answered = {}
    /\ restarts = 0

(* HandleBatch and HandleRefreshBatch up to AppendJob.                     *)
Submit(kind, n) ==
    LET j == created + 1 IN
    /\ created < MaxJobs
    /\ created' = j
    /\ request' = [request EXCEPT
                      ![j] = [kind |-> kind, size |-> n, retryOf |-> NoJob]]
    /\ work' = [work EXCEPT ![j] = "sending"]
    /\ UNCHANGED <<decoded, record, progress, channel, cancels, restarts>>

(* handleRetryJob: every job is born Retriable and nothing unsets it, so   *)
(* the guard on Retriable passes for a job in any status.                  *)
Retry(source) ==
    LET j == created + 1 IN
    /\ Kept(source)
    /\ created < MaxJobs
    /\ created' = j
    /\ request' = [request EXCEPT ![j] = [request[source] EXCEPT !.retryOf = source]]
    /\ decoded' = IF source \in decoded THEN decoded \union {j} ELSE decoded
    /\ work' = [work EXCEPT
                   ![j] = IF request[source].kind = "move" THEN "validating"
                                                          ELSE "sending"]
    /\ UNCHANGED <<record, progress, channel, cancels, restarts>>

(* enqueueSessionMoveBatch: the target workspace may be gone by now.       *)
Validate(j) ==
    /\ work[j] = "validating"
    /\ \/ /\ work' = [work EXCEPT ![j] = "sending"]
          /\ UNCHANGED <<record, outcome>>
       \/ /\ UpdateJob(j, "failed")
          /\ outcome' = [outcome EXCEPT ![j] = "failed"]
          /\ work' = [work EXCEPT ![j] = "ended"]
    /\ UNCHANGED <<created, request, decoded, position, failures, channel,
                   cancels, restarts>>

(* jobQueue <- closure: the handler blocks while the channel is full.      *)
Send(j) ==
    /\ work[j] = "sending"
    /\ Len(jobQueue) < QueueCapacity
    /\ jobQueue' = Append(jobQueue, j)
    /\ work' = [work EXCEPT ![j] = "queued"]
    /\ UNCHANGED <<created, request, decoded, record, progress, idle, cancels,
                   restarts>>

-----------------------------------------------------------------------------
(* A worker goroutine.                                                     *)
Receive ==
    /\ idle > 0
    /\ jobQueue # <<>>
    /\ jobQueue' = Tail(jobQueue)
    /\ idle' = idle - 1
    /\ work' = [work EXCEPT ![Head(jobQueue)] = "received"]
    /\ UNCHANGED <<created, request, decoded, record, progress, cancels,
                   restarts>>

(* Slip: on a cancelled job the worker returns, not only the closure.      *)
BeginReturningWorker(j) ==
    /\ work[j] = "received"
    /\ IF Direct(j) /\ j \in jobCancel
       THEN work' = [work EXCEPT ![j] = "ended"]
       ELSE work' = [work EXCEPT ![j] = "starting"]
    /\ UNCHANGED <<created, request, decoded, record, progress, channel,
                   cancels, restarts>>

(* The closure's first look at the cancel mark; a retry's has none.        *)
Begin(j) ==
    /\ work[j] = "received"
    /\ IF Direct(j) /\ j \in jobCancel
       THEN /\ work' = [work EXCEPT ![j] = "ended"]
            /\ idle' = idle + 1
       ELSE /\ work' = [work EXCEPT ![j] = "starting"]
            /\ UNCHANGED idle
    /\ UNCHANGED <<created, request, decoded, record, progress, jobQueue,
                   cancels, restarts>>

MarkRunning(j) ==
    /\ work[j] = "starting"
    /\ work' = [work EXCEPT ![j] = "looping"]
    /\ outcome' = [outcome EXCEPT ![j] = "running"]
    /\ UpdateJob(j, "running")
    /\ UNCHANGED <<created, request, decoded, position, failures, channel,
                   cancels, restarts>>

(* The head of the loop: leave it when the job is cancelled, else go for   *)
(* the next item.                                                          *)
NextItem(j) ==
    /\ work[j] = "looping"
    /\ position[j] < Loop(j)
    /\ ~ (Direct(j) /\ j \in jobCancel)
    /\ work' = [work EXCEPT ![j] = "item"]
    /\ UNCHANGED <<created, request, decoded, record, progress, channel,
                   cancels, restarts>>

(* Slip: the cancelled closure ends without saving its record.             *)
StopUnsaved(j) ==
    /\ work[j] = "looping"
    /\ position[j] < Loop(j)
    /\ Direct(j) /\ j \in jobCancel
    /\ outcome' = [outcome EXCEPT ![j] = "cancelled"]
    /\ work' = [work EXCEPT ![j] = "ended"]
    /\ idle' = idle + 1
    /\ UNCHANGED <<created, request, decoded, record, position, failures,
                   jobQueue, cancels, restarts>>

(* Slip: break for return, so that the code after the loop still runs.     *)
StopByBreak(j) ==
    /\ work[j] = "looping"
    /\ position[j] < Loop(j)
    /\ Direct(j) /\ j \in jobCancel
    /\ outcome' = [outcome EXCEPT ![j] = "completed"]
    /\ UpdateJob(j, "completed")
    /\ work' = [work EXCEPT ![j] = "ended"]
    /\ idle' = idle + 1
    /\ UNCHANGED <<created, request, decoded, position, failures, jobQueue,
                   cancels, restarts>>

Stop(j) ==
    /\ work[j] = "looping"
    /\ position[j] < Loop(j)
    /\ Direct(j) /\ j \in jobCancel
    /\ outcome' = [outcome EXCEPT ![j] = "cancelled"]
    /\ UpdateJob(j, "cancelled")
    /\ work' = [work EXCEPT ![j] = "ended"]
    /\ idle' = idle + 1
    /\ UNCHANGED <<created, request, decoded, position, failures, jobQueue,
                   cancels, restarts>>

(* MoveSession or RuntimePool.Refresh on one item.  A blank workspace      *)
(* fails a refresh; "<nil>" is not blank.                                  *)
Process(j) ==
    /\ work[j] = "item"
    /\ position' = [position EXCEPT ![j] = @ + 1]
    /\ \/ UNCHANGED failures
       \/ /\ Direct(j) \/ request[j].kind = "move"
          /\ failures' = [failures EXCEPT ![j] = @ + 1]
    /\ work' = [work EXCEPT ![j] = "looping"]
    /\ UNCHANGED <<created, request, decoded, record, outcome, channel,
                   cancels, restarts>>

(* The status after the loop.  A closure runs once, so Attempts is 1 here; *)
(* a retry has no attempts to count.                                       *)
Result(j) ==
    IF failures[j] = Loop(j) /\ Loop(j) > 0
    THEN IF Direct(j) /\ 1 < MaxAttempts THEN "queued" ELSE "failed"
    ELSE "completed"

Finish(j) ==
    /\ work[j] = "looping"
    /\ position[j] = Loop(j)
    /\ outcome' = [outcome EXCEPT ![j] = Result(j)]
    /\ UpdateJob(j, Result(j))
    /\ work' = [work EXCEPT ![j] = "ended"]
    /\ idle' = idle + 1
    /\ UNCHANGED <<created, request, decoded, position, failures, jobQueue,
                   cancels, restarts>>

-----------------------------------------------------------------------------
(* handleCancelJob: read a clone, refuse a finished job, mark the job,     *)
(* then write the clone back as cancelled.                                 *)
CancelRead(j) ==
    /\ Kept(j)
    /\ canceller[j] = "none"
    /\ record[j] \notin Final
    /\ canceller' = [canceller EXCEPT ![j] = "read"]
    /\ UNCHANGED <<created, request, decoded, record, work, progress, channel,
                   jobCancel, answered, restarts>>

CancelMark(j) ==
    /\ canceller[j] = "read"
    /\ jobCancel' = jobCancel \union {j}
    /\ canceller' = [canceller EXCEPT ![j] = "marked"]
    /\ UNCHANGED <<created, request, decoded, record, work, progress, channel,
                   answered, restarts>>

(* Slip: the clone is saved before its status is set.                      *)
CancelWriteStale(j) ==
    /\ canceller[j] = "marked"
    /\ UpdateJob(j, "running")
    /\ canceller' = [canceller EXCEPT ![j] = "none"]
    /\ answered' = answered \union {j}
    /\ UNCHANGED <<created, request, decoded, work, progress, channel,
                   jobCancel, restarts>>

CancelWrite(j) ==
    /\ canceller[j] = "marked"
    /\ UpdateJob(j, "cancelled")
    /\ canceller' = [canceller EXCEPT ![j] = "none"]
    /\ answered' = answered \union {j}
    /\ UNCHANGED <<created, request, decoded, work, progress, channel,
                   jobCancel, restarts>>

(* The gateway stops and starts again: the channel, the closures, the      *)
(* handlers and the cancel marks are gone, the records are read back from  *)
(* the state file.                                                         *)
Restart ==
    /\ restarts < MaxRestarts
    /\ restarts' = restarts + 1
    /\ work' = [j \in Jobs |-> IF Idle(j) THEN work[j] ELSE "lost"]
    /\ decoded' = {j \in Jobs : Kept(j)}
    /\ jobQueue' = <<>>
    /\ idle' = Workers
    /\ jobCancel' = {}
    /\ canceller' = [j \in Jobs |-> "none"]
    /\ UNCHANGED <<created, request, record, progress, answered>>

Closure(j) == \/ Begin(j) \/ MarkRunning(j) \/ NextItem(j) \/ Stop(j)
              \/ Process(j) \/ Finish(j)

Cancel(j) == CancelRead(j) \/ CancelMark(j) \/ CancelWrite(j)

Next == \/ \E kind \in {"move", "refresh"}, n \in Sizes : Submit(kind, n)
        \/ \E j \in Jobs : Retry(j) \/ Validate(j) \/ Send(j)
        \/ Receive
        \/ \E j \in Jobs : Closure(j)
        \/ \E j \in Jobs : Cancel(j)
        \/ Restart

(* The Go scheduler runs what can run, senders blocked on a channel are    *)
(* served in order, and moving a session or refreshing a runtime returns.  *)
(* Nothing makes a client submit, cancel or retry.                         *)
Fairness == /\ WF_vars(Receive)
            /\ \A j \in Jobs : /\ WF_vars(Send(j))
                               /\ WF_vars(Validate(j))
                               /\ WF_vars(Closure(j))

Spec == Init /\ [][Next]_vars
FairSpec == Spec /\ Fairness

-----------------------------------------------------------------------------
AtWork(j) == work[j] \in {"received", "starting", "looping", "item"}

(* Every variable holds a value the code can give it, and each worker is   *)
(* either idle or inside one closure.                                      *)
TypeOK ==
    /\ created \in 0 .. MaxJobs
    /\ request \in [Jobs -> Requests \union {[kind |-> "move", size |-> 0,
                                              retryOf |-> NoJob]}]
    /\ decoded \subseteq Jobs
    /\ record \in [Jobs -> Statuses]
    /\ work \in [Jobs -> {"none", "validating", "sending", "queued", "received",
                          "starting", "looping", "item", "ended", "lost"}]
    /\ outcome \in [Jobs -> Statuses]
    /\ position \in [Jobs -> Nat]
    /\ failures \in [Jobs -> Nat]
    /\ jobQueue \in Seq(Jobs)
    /\ Len(jobQueue) <= QueueCapacity
    /\ idle + Cardinality({j \in Jobs : AtWork(j)}) = Workers
    /\ jobCancel \subseteq Jobs
    /\ canceller \in [Jobs -> {"none", "read", "marked"}]
    /\ answered \subseteq Jobs
    /\ restarts \in 0 .. MaxRestarts

(* A submitted batch is recorded as completed only when every item was     *)
(* tried and, unless it was empty, at least one succeeded: a cancel that   *)
(* races the loop cannot pass a partial batch off as a complete one.       *)
CompletedMeansDone ==
    \A j \in Jobs :
        Kept(j) /\ Direct(j) /\ record[j] = "completed" =>
            /\ position[j] = request[j].size
            /\ request[j].size > 0 => failures[j] < request[j].size

(* Once a cancel was answered and the closure is over, the record says     *)
(* cancelled, or else the closure had been through all its items.          *)
CancelStands ==
    \A j \in answered :
        Kept(j) /\ Direct(j) /\ work[j] = "ended" =>
            record[j] = "cancelled" \/ position[j] = request[j].size

(* When a closure is over, the record is the one it wrote or that of a     *)
(* cancel answered meanwhile; no stale clone brings back another status.   *)
OutcomeKept ==
    \A j \in Jobs :
        Kept(j) /\ work[j] = "ended" =>
            record[j] = outcome[j] \/ (record[j] = "cancelled" /\ j \in answered)

(* Slots are never lost: every handler blocked on the full channel and     *)
(* every queued closure gets its turn, unless the process ends first.      *)
Drained ==
    \A j \in Jobs : (~ Idle(j)) ~> Idle(j)

(* JobMaxAttempts and JobRetryDelaySeconds: a job that goes back to        *)
(* "queued" with attempts left is to run again, so within one process a    *)
(* record that says queued has a handler or a closure behind it.           *)
QueuedHasWork ==
    \A j \in Jobs :
        Kept(j) /\ record[j] = "queued" => work[j] # "ended" \/ j \in jobCancel

(* A retry that is recorded as completed has tried the items of the job it *)
(* retries.                                                                *)
RetryRepeats ==
    \A j \in Jobs :
        Kept(j) /\ ~ Direct(j) /\ record[j] = "completed" =>
            Reached(j) = request[j].size
=============================================================================
