-------------------------------- MODULE TaskRun --------------------------------
(***************************************************************************)
(* One task from its creation to its end: pkg/runtime/taskrunner (tasks.go,*)
(* approvals.go, state.go), the approvals it asks for (pkg/state/          *)
(* approvals.go) and what answering one sets off (pkg/gateway/approvals).  *)
(*                                                                         *)
(* Execute runs in a goroutine of its own, once for the request and once   *)
(* more for every approval answered yes; nothing keeps two of them apart.  *)
(* An execution works on a clone of the task and writes it back whole, so  *)
(* an action is one access to the Store or one method of SessionManager.   *)
(* The Store's own errors, the task's steps, evidence and recovery points  *)
(* are left out.                                                           *)
(***************************************************************************)
EXTENDS Naturals, Sequences

CONSTANT MaxAnswers  \* bound: requests to resolve an approval

ASSUME BoundAssumption == MaxAnswers \in Nat

(* Execution 1 is the one of the request, k + 1 the one that answer k sets *)
(* off.  Session 0 is the one named in the request, session e the one that *)
(* execution e creates.                                                    *)
Answers    == 1 .. MaxAnswers
Executions == 1 .. MaxAnswers + 1
NoSession  == MaxAnswers + 2
Sessions   == 0 .. MaxAnswers + 1

VARIABLES
    gated,      \* Agent.RequireConfirmationForDangerous
    task,       \* the task in the Store: Status and SessionID
    pc,         \* where each execution is
    copy,       \* its clone of the task
    session,    \* the session it runs in
    err,        \* what its runtime returned
    approvals,  \* the Store's approvals, in the order they were asked for
    depth,      \* Session.QueueDepth
    presence,   \* Session.Presence
    said,       \* sessions that hold the task's exchange
    answer,     \* where each resolve request is
    target,     \* the approval it is about
    verdict,    \* the "approved" flag of the request
    seen,       \* Approval.Status as it read it
    held,       \* the clone of the task that MarkRejected works on
    granted,    \* approvals that were approved at some time
    hasty,      \* an answer came while an execution or answer was at work
    crashed     \* the process has been restarted

store      == <<task, approvals>>
local      == <<copy, session, err>>
presences  == <<depth, presence, said>>
resolver   == <<answer, target, verdict, seen, held>>
history    == <<granted, hasty, crashed>>
vars == <<gated, store, pc, local, presences, resolver, history>>

Statuses == {"queued", "running", "waiting_approval", "completed", "failed"}
Record   == [status : Statuses, session : Sessions \union {NoSession}]
Blank    == [status |-> "queued", session |-> NoSession]
Approval == [kind : {"execution", "tool"}, status : {"pending", "approved", "rejected"}]

AtRest == {"none", "returned"}
Live(e) == pc[e] \notin AtRest
Busy(k) == answer[k] \notin {"none", "done"}

Goto(e, place) == pc' = [pc EXCEPT ![e] = place]

-----------------------------------------------------------------------------
(* Manager.Create has stored the task; its first execution is under way.   *)
Init ==
    /\ gated \in BOOLEAN
    /\ \E s \in {0, NoSession} : task = [status |-> "queued", session |-> s]
    /\ pc = [e \in Executions |-> IF e = 1 THEN "new" ELSE "none"]
    /\ copy = [e \in Executions |-> Blank]
    /\ session = [e \in Executions |-> NoSession]
    /\ err = [e \in Executions |-> "none"]
    /\ approvals = << >>
    /\ depth = [s \in Sessions |-> 0]
    /\ presence = [s \in Sessions |-> "idle"]
    /\ said = {}
    /\ answer = [k \in Answers |-> "none"]
    /\ target = [k \in Answers |-> 0]
    /\ verdict = [k \in Answers |-> FALSE]
    /\ seen = [k \in Answers |-> "none"]
    /\ held = [k \in Answers |-> Blank]
    /\ granted = {}
    /\ hasty = FALSE
    /\ crashed = FALSE

-----------------------------------------------------------------------------
(* SessionManager.                                                         *)

SetPresence(s, p) ==
    /\ presence' = [presence EXCEPT ![s] = p]
    /\ UNCHANGED <<depth, said>>

EnqueueTurn(s) ==
    /\ depth' = [depth EXCEPT ![s] = IF presence[s] = "idle" THEN 1 ELSE @ + 1]
    /\ presence' = [presence EXCEPT ![s] = "queued"]
    /\ UNCHANGED said

(* Slip: the reply is dropped.                                             *)
DropExchange(s) ==
    /\ presence' = [presence EXCEPT ![s] = "idle"]
    /\ depth' = [depth EXCEPT ![s] = IF @ > 0 THEN @ - 1 ELSE 0]
    /\ UNCHANGED said

AddExchange(s) ==
    /\ said' = said \union {s}
    /\ presence' = [presence EXCEPT ![s] = "idle"]
    /\ depth' = [depth EXCEPT ![s] = IF @ > 0 THEN @ - 1 ELSE 0]

-----------------------------------------------------------------------------
(* Execute.                                                                *)

Stays == UNCHANGED <<gated, approvals, resolver, history>>

(* Where e goes on with the local state it is left with, none of it once it *)
(* has returned.                                                            *)
Continue(e, place, c, s, r) == LET over == place = "returned" IN
    /\ Goto(e, place)
    /\ copy' = [copy EXCEPT ![e] = IF over THEN Blank ELSE c]
    /\ session' = [session EXCEPT ![e] = IF over THEN NoSession ELSE s]
    /\ err' = [err EXCEPT ![e] = IF over THEN "none" ELSE r]

GoOn(e, place) == Continue(e, place, copy[e], session[e], err[e])

(* A step of execution e that only writes its clone back, with a new status *)
(* (persistTask).                                                           *)
Persist(e, from, status, to) ==
    /\ pc[e] = from
    /\ task' = [copy[e] EXCEPT !.status = status]
    /\ Continue(e, to, task', session[e], err[e])
    /\ Stays /\ UNCHANGED presences

(* A step that only tells the session (updateSessionPresence).             *)
Tell(e, from, p, to) ==
    /\ pc[e] = from
    /\ SetPresence(session[e], p)
    /\ GoOn(e, to)
    /\ Stays /\ UNCHANGED task

(* Slip: a task that waits is not taken up again.                          *)
BeginUnlessWaiting(e) ==
    /\ pc[e] = "new"
    /\ IF task.status \in {"completed", "waiting_approval"}
       THEN Goto(e, "returned") /\ UNCHANGED copy
       ELSE Goto(e, "starting") /\ copy' = [copy EXCEPT ![e] = task]
    /\ Stays /\ UNCHANGED <<task, session, err, presences>>

Begin(e) ==
    /\ pc[e] = "new"
    /\ IF task.status = "completed"
       THEN Goto(e, "returned") /\ UNCHANGED copy
       ELSE Goto(e, "starting") /\ copy' = [copy EXCEPT ![e] = task]
    /\ Stays /\ UNCHANGED <<task, session, err, presences>>

MarkRunning(e) == Persist(e, "starting", "running", "binding")

(* Slip: the session that was created is not taken over.                   *)
BindKnown(e) ==
    /\ pc[e] = "binding"
    /\ session' = [session EXCEPT ![e] = copy[e].session]
    /\ Goto(e, "linking")
    /\ Stays /\ UNCHANGED <<task, copy, err, presences>>

(* ensureSession: the session of the task, or a new one.                   *)
BindSession(e) ==
    /\ pc[e] = "binding"
    /\ LET known == copy[e].session # NoSession
           s     == IF known THEN copy[e].session ELSE e IN
          /\ session' = [session EXCEPT ![e] = s]
          /\ copy' = [copy EXCEPT ![e].session = s]
          /\ Goto(e, IF known THEN "linking" ELSE "saving")
    /\ Stays /\ UNCHANGED <<task, err, presences>>

SaveSession(e) == Persist(e, "saving", copy[e].status, "linking")
SaveReady(e)   == Persist(e, "linking", copy[e].status, "enqueuing")

Enqueue(e) ==
    /\ pc[e] = "enqueuing"
    /\ EnqueueTurn(session[e])
    /\ Goto(e, "greeting")
    /\ Stays /\ UNCHANGED <<task, local>>

ShowTyping(e) == Tell(e, "greeting", "typing", "fetching")

(* RuntimeProvider.GetOrCreate; without a runtime the task fails and the   *)
(* session is told nothing.                                                *)
FetchRuntime(e) ==
    /\ pc[e] = "fetching"
    /\ \E place \in {"gate", "unavailable"} : Goto(e, place)
    /\ Stays /\ UNCHANGED <<task, local, presences>>

FailUnavailable(e) == Persist(e, "unavailable", "failed", "returned")

(* awaitApprovalsIfNeeded: findExecutionApproval gives the newest approval *)
(* of the execution, if one was asked for.                                 *)
AskedFor(kind) == {i \in 1 .. Len(approvals) : approvals[i].kind = kind}

ExecutionIs(status) ==
    \E i \in AskedFor("execution") :
        /\ approvals[i].status = status
        /\ \A j \in AskedFor("execution") : j <= i

(* Slip: a refusal is taken for an answer like any other.                  *)
AfterGateAnswered ==
    CASE ~gated                                               -> "executing"
      [] gated /\ (ExecutionIs("approved") \/ ExecutionIs("rejected")) -> "approved"
      [] gated /\ ExecutionIs("pending")                      -> "waiting"
      [] OTHER                                                -> "requesting"

AfterGate ==
    CASE ~gated                            -> "executing"
      [] gated /\ ExecutionIs("approved")  -> "approved"
      [] gated /\ ExecutionIs("rejected")  -> "refused"
      [] gated /\ ExecutionIs("pending")   -> "waiting"
      [] OTHER                             -> "requesting"

CheckApproval(e) ==
    /\ pc[e] = "gate"
    /\ Goto(e, AfterGate)
    /\ Stays /\ UNCHANGED <<task, local, presences>>

SaveApproved(e) == Persist(e, "approved", "running", "cleared")
ShowCleared(e)  == Tell(e, "cleared", "typing", "executing")

ShowRefused(e) == Tell(e, "refused", "idle", "failing")

(* ApprovalManager.Request.                                                *)
Ask(e, from, kind, to) ==
    /\ pc[e] = from
    /\ approvals' = Append(approvals, [kind |-> kind, status |-> "pending"])
    /\ Goto(e, to)
    /\ UNCHANGED <<gated, task, local, presences, resolver, history>>

RequestExecution(e) == Ask(e, "requesting", "execution", "waiting")

(* Slip: the task is not told that it waits.                               *)
SaveRunning(e) == Persist(e, "waiting", copy[e].status, "parking")

SaveWaiting(e) == Persist(e, "waiting", "waiting_approval", "parking")
Park(e)        == Tell(e, "parking", "waiting_approval", "returned")

-----------------------------------------------------------------------------
(* The runtime.                                                            *)

(* The agent runs to its end ...                                           *)
RuntimeReturns(e) ==
    /\ pc[e] = "executing"
    /\ \E outcome \in {"none", "error"} : err' = [err EXCEPT ![e] = outcome]
    /\ Goto(e, "refreshing")
    /\ Stays /\ UNCHANGED <<task, copy, session, presences>>

(* ... or it makes a call that needs approval (requireToolApproval).  The   *)
(* hook looks for an approval of the task with the signature of the tool's  *)
(* arguments; Request signs the whole payload, in which the arguments are   *)
(* one field, so it finds none and asks, whatever was approved before.      *)
LookupSignature  == "arguments"
RequestSignature == "payload"

SignedApprovals ==
    IF LookupSignature # RequestSignature THEN {}
    ELSE AskedFor("tool")

CallTool(e) ==
    /\ SignedApprovals = {}
    /\ err' = [err EXCEPT ![e] = "waiting"]
    /\ pc[e] = "executing"
    /\ approvals' = Append(approvals, [kind |-> "tool", status |-> "pending"])
    /\ Goto(e, "pausing")
    /\ UNCHANGED <<gated, task, copy, session, presences, resolver, history>>

SavePause(e) == Persist(e, "pausing", "waiting_approval", "showing")
ShowPause(e) == Tell(e, "showing", "waiting_approval", "refreshing")

(* After the runtime returns, the task is read afresh ...                  *)
Refresh(e) ==
    /\ pc[e] = "refreshing"
    /\ copy' = [copy EXCEPT ![e] = task]
    /\ \E place \in {"recording", "settling"} : Goto(e, place)
    /\ Stays /\ UNCHANGED <<task, session, err, presences>>

(* ... and written back if there were tool activities to record.           *)
RecordActivities(e) == Persist(e, "recording", copy[e].status, "settling")

Settle(e) ==
    /\ pc[e] = "settling"
    /\ \/ /\ err[e] = "waiting"
          /\ SetPresence(session[e], "waiting_approval") /\ GoOn(e, "returned")
       \/ /\ err[e] = "error"
          /\ SetPresence(session[e], "idle") /\ GoOn(e, "failing")
       \/ /\ err[e] = "none"
          /\ AddExchange(session[e]) /\ GoOn(e, "replied")
    /\ Stays /\ UNCHANGED task

ShowIdle(e) == Tell(e, "replied", "idle", "completing")
Complete(e) == Persist(e, "completing", "completed", "returned")
FailTask(e) == Persist(e, "failing", "failed", "returned")

-----------------------------------------------------------------------------
(* Answers: ApprovalManager.Resolve and HandleResolved.                    *)

Kept == UNCHANGED <<gated, local, crashed>>

ReadApproval(k) ==
    /\ answer[k] = "none" /\ \A j \in 1 .. k - 1 : answer[j] # "none"
    /\ \E i \in 1 .. Len(approvals), yes \in BOOLEAN :
          /\ target' = [target EXCEPT ![k] = i]
          /\ verdict' = [verdict EXCEPT ![k] = yes]
          /\ seen' = [seen EXCEPT ![k] = approvals[i].status]
    /\ answer' = [answer EXCEPT ![k] = "read"]
    /\ hasty' = (hasty \/ \E e \in Executions : Live(e) \/ \E j \in Answers : Busy(j))
    /\ Kept /\ UNCHANGED <<store, pc, presences, held, granted>>

(* The answer to a settled approval changes nothing, but is acted upon.    *)
Resolve(k) ==
    /\ answer[k] = "read"
    /\ IF seen[k] = "pending"
       THEN /\ approvals' = [approvals EXCEPT ![target[k]].status =
                                IF verdict[k] THEN "approved" ELSE "rejected"]
            /\ granted' = IF verdict[k] THEN granted \union {target[k]} ELSE granted
       ELSE UNCHANGED <<approvals, granted>>
    /\ answer' = [answer EXCEPT ![k] = "resolved"]
    /\ Kept /\ UNCHANGED <<task, pc, presences, target, verdict, seen, held, hasty>>

AnswerEnds(k) ==
    /\ answer' = [answer EXCEPT ![k] = "done"]
    /\ target' = [target EXCEPT ![k] = 0]
    /\ verdict' = [verdict EXCEPT ![k] = FALSE]
    /\ seen' = [seen EXCEPT ![k] = "none"]
    /\ held' = [held EXCEPT ![k] = Blank]

Resume(k) ==
    /\ answer[k] = "resolved" /\ verdict[k]
    /\ Goto(k + 1, "new")
    /\ AnswerEnds(k)
    /\ Kept /\ UNCHANGED <<store, presences, granted, hasty>>

(* MarkRejected: no status is too late for it.                             *)
ReadRejected(k) ==
    /\ answer[k] = "resolved" /\ ~verdict[k]
    /\ held' = [held EXCEPT ![k] = [task EXCEPT !.status = "failed"]]
    /\ answer' = [answer EXCEPT ![k] = "rejecting"]
    /\ Kept /\ UNCHANGED <<store, pc, presences, target, verdict, seen, granted,
                           hasty>>

SaveRejected(k) ==
    /\ answer[k] = "rejecting"
    /\ task' = held[k]
    /\ answer' = [answer EXCEPT ![k] = "telling"]
    /\ Kept /\ UNCHANGED <<approvals, pc, presences, target, verdict, seen, held,
                           granted, hasty>>

ShowRejected(k) ==
    /\ answer[k] = "telling"
    /\ IF held[k].session \in Sessions
       THEN SetPresence(held[k].session, "idle")
       ELSE UNCHANGED presences
    /\ AnswerEnds(k)
    /\ Kept /\ UNCHANGED <<store, pc, granted, hasty>>

-----------------------------------------------------------------------------
(* The process ends: the Store's file stays, whoever was at work is gone.  *)
Crash ==
    /\ ~crashed /\ crashed' = TRUE
    /\ pc' = [e \in Executions |-> IF pc[e] = "none" THEN "none" ELSE "returned"]
    /\ answer' = [k \in Answers |-> IF Busy(k) THEN "done" ELSE answer[k]]
    /\ copy' = [e \in Executions |-> Blank]
    /\ session' = [e \in Executions |-> NoSession]
    /\ err' = [e \in Executions |-> "none"]
    /\ target' = [k \in Answers |-> 0]
    /\ verdict' = [k \in Answers |-> FALSE]
    /\ seen' = [k \in Answers |-> "none"]
    /\ held' = [k \in Answers |-> Blank]
    /\ UNCHANGED <<gated, store, presences, granted, hasty>>

Execute(e) ==
    \/ Begin(e) \/ MarkRunning(e) \/ BindSession(e) \/ SaveSession(e)
    \/ SaveReady(e) \/ Enqueue(e) \/ ShowTyping(e)
    \/ FetchRuntime(e) \/ FailUnavailable(e)
    \/ CheckApproval(e) \/ SaveApproved(e) \/ ShowCleared(e) \/ ShowRefused(e)
    \/ RequestExecution(e) \/ SaveWaiting(e) \/ Park(e)
    \/ RuntimeReturns(e) \/ CallTool(e) \/ SavePause(e) \/ ShowPause(e)
    \/ Refresh(e) \/ RecordActivities(e) \/ Settle(e)
    \/ ShowIdle(e) \/ Complete(e) \/ FailTask(e)

HandleAnswer(k) ==
    \/ Resolve(k) \/ Resume(k)
    \/ ReadRejected(k) \/ SaveRejected(k) \/ ShowRejected(k)

Next ==
    \/ \E e \in Executions : Execute(e)
    \/ \E k \in Answers : ReadApproval(k) \/ HandleAnswer(k)
    \/ Crash

Spec == Init /\ [][Next]_vars

Fairness == /\ \A e \in Executions : WF_vars(Execute(e))
            /\ \A k \in Answers : WF_vars(HandleAnswer(k))

FairSpec == Spec /\ Fairness

-----------------------------------------------------------------------------
(* Every variable has its type; an execution past ensureSession has a      *)
(* session.                                                                *)
Unbound == {"none", "new", "starting", "binding", "returned"}
Bound   == {"saving", "linking", "enqueuing", "greeting", "fetching", "unavailable",
            "gate", "requesting", "waiting", "parking", "refused", "failing"}
Cleared == {"approved", "cleared"}
AtWork  == {"executing", "pausing", "showing", "refreshing", "recording",
            "settling", "replied", "completing"}

TypeOK ==
    /\ gated \in BOOLEAN
    /\ task \in Record
    /\ pc \in [Executions -> Unbound \union Bound \union Cleared \union AtWork]
    /\ copy \in [Executions -> Record]
    /\ session \in [Executions -> Sessions \union {NoSession}]
    /\ \A e \in Executions : pc[e] \notin Unbound => session[e] \in Sessions
    /\ err \in [Executions -> {"none", "error", "waiting"}]
    /\ approvals \in Seq(Approval)
    /\ depth \in [Sessions -> Nat]
    /\ presence \in [Sessions -> {"idle", "queued", "typing", "waiting_approval"}]
    /\ said \subseteq Sessions
    /\ answer \in [Answers -> {"none", "read", "resolved", "rejecting", "telling", "done"}]
    /\ target \in [Answers -> 0 .. Len(approvals)]
    /\ verdict \in [Answers -> BOOLEAN]
    /\ seen \in [Answers -> {"none", "pending", "approved", "rejected"}]
    /\ held \in [Answers -> Record]
    /\ granted \subseteq 1 .. Len(approvals)
    /\ hasty \in BOOLEAN /\ crashed \in BOOLEAN

(* Where confirmation is required, no execution hands the task to its       *)
(* runtime unless somebody has approved the execution itself: not on the    *)
(* strength of an approval for a tool call, and not after a restart.        *)
ApprovalGate ==
    gated => \A e \in Executions : pc[e] \in AtWork =>
                \E i \in granted : approvals[i].kind = "execution"

(* A task recorded as completed has its exchange in a session, whatever    *)
(* executions overlap and whoever writes an older clone back; as long as   *)
(* answers come only when nothing is at work, in the session it names.     *)
CompletedHasReply ==
    task.status = "completed" => /\ said # {}
                                 /\ ~hasty => task.session \in said

(* Under that condition and without a restart, the status is true: a        *)
(* task is running only while an execution is at work, and it waits only    *)
(* where an approval can still be answered, so that it is never stuck; and  *)
(* its session shows the same.  (Not so for a failed task: one that finds   *)
(* no runtime leaves its session typing.)                                   *)
AtWorkNow == (\E e \in Executions : Live(e)) \/ \E k \in Answers : Busy(k)

StatusTrue ==
    ~hasty /\ ~crashed /\ ~AtWorkNow =>
        /\ task.status \notin {"queued", "running"}
        /\ task.status = "waiting_approval" =>
              /\ \E i \in 1 .. Len(approvals) : approvals[i].status = "pending"
              /\ presence[task.session] = "waiting_approval"
        /\ task.status = "completed" => presence[task.session] = "idle"

(* Whoever approves the execution of a task in time sees it executed by the *)
(* resumption, unless its runtime is not to be had or the process ends.     *)
ApprovedRuns ==
    \A k \in Answers :
        (/\ answer[k] = "resolved" /\ verdict[k] /\ ~hasty
         /\ approvals[target[k]] = [kind |-> "execution", status |-> "approved"]
         /\ \A j \in AskedFor("execution") : j <= target[k]
         /\ task.status # "completed")
           ~> pc[k + 1] \in {"executing", "unavailable"} \/ hasty \/ crashed

(* "expected approved dangerous tool to proceed" (manager_test.go:381): in  *)
(* a task whose approved call the agent makes again, the call is not asked  *)
(* for once more.  It is: the signatures never agree.                       *)
ApprovedCallProceeds ==
    \A i, j \in 1 .. Len(approvals) :
        /\ i < j
        /\ approvals[i] = [kind |-> "tool", status |-> "approved"]
        => approvals[j].kind # "tool"
=============================================================================
