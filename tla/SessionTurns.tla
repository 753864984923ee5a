------------------------------ MODULE SessionTurns ------------------------------
(***************************************************************************)
(* The turns of one session and the approvals they wait for:               *)
(* pkg/runtime/sessionrunner/manager.go (Run, RunChannel, ResumeApproved,  *)
(* the approval hook, failRun), pkg/state/sessions.go (SessionManager),    *)
(* pkg/state/approvals.go (ApprovalManager) and pkg/gateway/approvals      *)
(* (the resolve handler and what it sets off).                             *)
(*                                                                         *)
(* Nothing serialises the turns of a session: each request runs in its own *)
(* goroutine, and so does the resumption of an approved call.  An action   *)
(* is one critical section: a method of SessionManager under its mutex, or *)
(* one access to the Store.  Approvals are read as clones and written back *)
(* whole.  A run asks for at most one approval, which bears its number.    *)
(* Turns are numbered in the order of EnqueueTurn, answers in the order in *)
(* which they read their approval.                                         *)
(***************************************************************************)
EXTENDS Naturals, Sequences, FiniteSets

CONSTANTS
    MaxTurns,     \* bound: messages sent to the session
    MaxAnswers,   \* bound: requests to resolve an approval
    MaxAtOnce,    \* bound: runs at work at the same time
    Tools,        \* tool calls (name and arguments) that need approval
    Desktop       \* those with the desktop capability, granted together

ASSUME BoundAssumption == /\ MaxTurns \in Nat
                          /\ MaxAnswers \in Nat
                          /\ MaxAtOnce \in Nat \ {0}
ASSUME ToolAssumption == Desktop \subseteq Tools

(* Run k + MaxTurns is the one that answer k resumes.                      *)
Turns   == 1 .. MaxTurns
Answers == 1 .. MaxAnswers
Resumes == MaxTurns + 1 .. MaxTurns + MaxAnswers
Runs    == 1 .. MaxTurns + MaxAnswers
NoRun   == 0

VARIABLES
    call,       \* the tool call the model makes in each turn
    pc,         \* where each run is
    turn,       \* the turn (its message) a run works on
    pending,    \* the clone of the approval a run is about to save
    via,        \* the approval under which a run has executed its call
    depth,      \* Session.QueueDepth
    presence,   \* Session.Presence
    typing,     \* Session.Typing
    said,       \* turns whose user message is in Session.Messages
    last,       \* last message: its turn when it is a user message
    open,       \* turns enqueued whose queue slot nothing has released
    asked,      \* the approvals, in the order of AppendApproval
    status,     \* Approval.Status, "expired" once the grant ran out
    resumable,  \* approvals whose Payload holds a resume_state
    answer,     \* where each resolve request is
    target,     \* the approval it is about
    verdict,    \* the "approved" flag of the request
    seen        \* the clone it has read: status and resume_state

runs     == <<pc, turn, pending, via>>
session  == <<depth, presence, typing, said, last, open>>
approval == <<asked, status, resumable>>
resolver == <<answer, target, verdict, seen>>
vars == <<call, runs, session, approval, resolver>>

Resting == {"none", "new", "enqueued", "paused", "returned", "abandoned"}
Working == {"preparing", "calling", "asking", "pausing", "unwinding", "saving",
            "recording", "waiting", "failing", "replying", "releasing",
            "completing", "clearing"}

Goto(r, l) == pc' = [pc EXCEPT ![r] = l]

-----------------------------------------------------------------------------
Init ==
    /\ call \in [Turns -> Tools]
    /\ pc = [r \in Runs |-> IF r \in Turns THEN "new" ELSE "none"]
    /\ turn = [r \in Runs |-> IF r \in Turns THEN r ELSE NoRun]
    /\ pending = [r \in Runs |-> NoRun]
    /\ via = [r \in Runs |-> NoRun]
    /\ depth = 0
    /\ presence = "idle"
    /\ typing = FALSE
    /\ said = {}
    /\ last = NoRun
    /\ open = {}
    /\ asked = <<>>
    /\ status = [r \in Runs |-> "none"]
    /\ resumable = {}
    /\ answer = [k \in Answers |-> "none"]
    /\ target = [k \in Answers |-> NoRun]
    /\ verdict = [k \in Answers |-> FALSE]
    /\ seen = [k \in Answers |-> [status |-> "none", resume |-> FALSE]]

-----------------------------------------------------------------------------
(* SessionManager.                                                         *)

(* Slip: without the test for zero.                                        *)
DecrementUnchecked(d) == d - 1

Decrement(d) == IF d > 0 THEN d - 1 ELSE 0

SetPresence(p, t) ==
    /\ presence' = p
    /\ typing' = t
    /\ UNCHANGED <<depth, said, last, open>>

(* Slip: any user message that comes last is taken for this one.           *)
EnsureAnyUserMessage(t) ==
    /\ IF depth > 0 /\ last # NoRun
       THEN UNCHANGED <<said, last>>
       ELSE said' = said \union {t} /\ last' = t
    /\ UNCHANGED <<depth, presence, typing, open>>

EnsurePendingUserMessage(t) ==
    /\ IF depth > 0 /\ last = t
       THEN UNCHANGED <<said, last>>
       ELSE said' = said \union {t} /\ last' = t
    /\ UNCHANGED <<depth, presence, typing, open>>

(* Slip: the reply leaves the queue slot of the turn taken.                *)
AddAssistantKeepingSlot(t) ==
    /\ last' = NoRun
    /\ presence' = "idle"
    /\ typing' = FALSE
    /\ open' = open \ {t}
    /\ UNCHANGED <<said, depth>>

(* A reply about turn t.                                                   *)
AddAssistantMessage(t) ==
    /\ last' = NoRun
    /\ presence' = "idle"
    /\ typing' = FALSE
    /\ depth' = Decrement(depth)
    /\ open' = open \ {t}
    /\ UNCHANGED said

AddExchange(t) ==
    /\ said' = said \union {t}
    /\ last' = NoRun
    /\ presence' = "idle"
    /\ typing' = FALSE
    /\ depth' = Decrement(depth)
    /\ open' = open \ {t}

-----------------------------------------------------------------------------
(* A run, from EnqueueTurn to the agent.                                   *)
EnqueueTurn(r) ==
    /\ pc[r] = "new"
    /\ \A t \in Turns : t < r => pc[t] # "new"
    /\ depth' = IF depth > 0 /\ presence = "idle" THEN 1 ELSE depth + 1
    /\ presence' = "queued"
    /\ open' = open \union {r}
    /\ Goto(r, "enqueued")
    /\ UNCHANGED <<call, turn, pending, via, typing, said, last, approval,
                   resolver>>

StartTyping(r) ==
    /\ pc[r] = "enqueued"
    /\ Cardinality({i \in Runs : pc[i] \in Working}) < MaxAtOnce
    /\ SetPresence("typing", TRUE)
    /\ Goto(r, "preparing")
    /\ UNCHANGED <<call, turn, pending, via, approval, resolver>>

(* Where a run goes when its turn has failed: only a new one has a message *)
(* to keep.                                                                *)
Failing(r) == IF r \in Turns THEN "failing" ELSE "replying"

(* Get the runtime and execute, up to the first tool call or to the end.   *)
(* When there is no runtime Run goes through failRun, but RunChannel just  *)
(* returns the error.                                                      *)
Execute(r) ==
    /\ pc[r] = "preparing"
    /\ r \in Resumes => ~ seen[r - MaxTurns].resume
    /\ \/ Goto(r, "calling")
       \/ Goto(r, "completing")
       \/ Goto(r, Failing(r))
       \/ r \in Turns /\ Goto(r, "abandoned")
    /\ UNCHANGED <<call, turn, pending, via, session, approval, resolver>>

(* With a resume_state, ResumeAfterApproval executes the pending call, and *)
(* does not ask the approval hook again.                                   *)
ResumeCall(r) ==
    /\ pc[r] = "preparing"
    /\ r \in Resumes /\ seen[r - MaxTurns].resume
    /\ \/ /\ via' = [via EXCEPT ![r] = target[r - MaxTurns]]
          /\ Goto(r, "completing") \/ Goto(r, "replying")
       \/ /\ Goto(r, "replying")
          /\ UNCHANGED via
    /\ UNCHANGED <<call, turn, pending, session, approval, resolver>>

-----------------------------------------------------------------------------
(* requireToolApproval; a call that is let through ends the run's story    *)
(* with an answer or an error.                                             *)
CallOf(r) == call[turn[r]]

SameCall(r) ==
    {a \in Runs : /\ status[a] \in {"pending", "approved", "rejected"}
                  /\ CallOf(a) = CallOf(r)}

(* Any valid desktop grant covers any desktop call.                        *)
Matching(r) ==
    {a \in Runs : /\ status[a] # "none"
                  /\ \/ a \in SameCall(r)
                     \/ /\ status[a] = "approved"
                        /\ CallOf(a) \in Desktop
                        /\ CallOf(r) \in Desktop}

Position(a) == CHOOSE i \in 1 .. Len(asked) : asked[i] = a

IsNewest(a, S) == a \in S /\ \A b \in S : Position(b) <= Position(a)

(* Slip: a request that is still pending lets the call through.            *)
CheckPendingPasses(r) ==
    /\ pc[r] = "calling"
    /\ \/ \E a \in Matching(r) :
            /\ IsNewest(a, Matching(r))
            /\ \/ /\ status[a] \in {"approved", "pending"}
                  /\ via' = [via EXCEPT ![r] = a]
                  /\ Goto(r, "completing") \/ Goto(r, Failing(r))
               \/ /\ status[a] = "rejected"
                  /\ Goto(r, Failing(r))
                  /\ UNCHANGED via
       \/ Matching(r) = {} /\ Goto(r, "asking") /\ UNCHANGED via
    /\ UNCHANGED <<call, turn, pending, session, approval, resolver>>

CheckApproval(r) ==
    /\ pc[r] = "calling"
    /\ \/ \E a \in Matching(r) :
            /\ IsNewest(a, Matching(r))
            /\ \/ /\ status[a] = "approved"
                  /\ via' = [via EXCEPT ![r] = a]
                  /\ Goto(r, "completing") \/ Goto(r, Failing(r))
               \/ /\ status[a] = "rejected"
                  /\ Goto(r, Failing(r))
                  /\ UNCHANGED via
               \/ /\ status[a] = "pending"
                  /\ Goto(r, "pausing")
                  /\ UNCHANGED via
       \/ Matching(r) = {} /\ Goto(r, "asking") /\ UNCHANGED via
    /\ UNCHANGED <<call, turn, pending, session, approval, resolver>>

RequestWithSignature(r) ==
    /\ pc[r] = "asking"
    /\ asked' = Append(asked, r)
    /\ status' = [status EXCEPT ![r] = "pending"]
    /\ Goto(r, "pausing")
    /\ UNCHANGED <<call, turn, pending, via, session, resumable, resolver>>

(* The grant lasts 15 minutes from the resolution; only a check can tell.  *)
Expire(a) ==
    /\ status[a] = "approved"
    /\ \E r \in Runs : pc[r] = "calling"
    /\ status' = [status EXCEPT ![a] = "expired"]
    /\ UNCHANGED <<call, runs, session, asked, resumable, resolver>>

-----------------------------------------------------------------------------
(* ErrTaskWaitingApproval travels back to Run.                             *)
Pause(r) ==
    /\ pc[r] = "pausing"
    /\ SetPresence("waiting_approval", FALSE)
    /\ Goto(r, "unwinding")
    /\ UNCHANGED <<call, turn, pending, via, approval, resolver>>

(* persistApprovalResumeState: read the newest pending approval of this    *)
(* call, then write the clone back with the resume_state.                  *)
FindPending(r) ==
    LET found == {a \in SameCall(r) : status[a] = "pending"} IN
    /\ pc[r] = "unwinding"
    /\ \/ \E a \in found :
            /\ IsNewest(a, found)
            /\ pending' = [pending EXCEPT ![r] = a]
            /\ Goto(r, "saving")
       \/ /\ found = {}
          /\ Goto(r, "recording")
          /\ UNCHANGED pending
    /\ UNCHANGED <<call, turn, via, session, approval, resolver>>

SaveResumeState(r) ==
    /\ pc[r] = "saving"
    /\ status' = [status EXCEPT ![pending[r]] = "pending"]
    /\ resumable' = resumable \union {pending[r]}
    /\ pending' = [pending EXCEPT ![r] = NoRun]
    /\ Goto(r, "recording")
    /\ UNCHANGED <<call, turn, via, session, asked, resolver>>

RecordMessage(r) ==
    /\ pc[r] = "recording"
    /\ EnsurePendingUserMessage(turn[r])
    /\ Goto(r, "waiting")
    /\ UNCHANGED <<call, turn, pending, via, approval, resolver>>

(* Slip: the typing mark is left on while the turn waits.                  *)
WaitTyping(r) ==
    /\ pc[r] = "waiting"
    /\ SetPresence("waiting_approval", TRUE)
    /\ Goto(r, "paused")
    /\ UNCHANGED <<call, turn, pending, via, approval, resolver>>

Wait(r) ==
    /\ pc[r] = "waiting"
    /\ SetPresence("waiting_approval", FALSE)
    /\ Goto(r, "paused")
    /\ UNCHANGED <<call, turn, pending, via, approval, resolver>>

-----------------------------------------------------------------------------
(* failRun: a new message is kept, the failure is its reply, and the turn  *)
(* is failed.  Reply and FailTurn both take from the queue depth.          *)
KeepMessage(r) ==
    /\ pc[r] = "failing"
    /\ EnsurePendingUserMessage(turn[r])
    /\ Goto(r, "replying")
    /\ UNCHANGED <<call, turn, pending, via, approval, resolver>>

ReplyFailure(r) ==
    /\ pc[r] = "replying"
    /\ AddAssistantMessage(turn[r])
    /\ Goto(r, "releasing")
    /\ UNCHANGED <<call, turn, pending, via, approval, resolver>>

FailTurn(r) ==
    /\ pc[r] = "releasing"
    /\ depth' = Decrement(depth)
    /\ presence' = "idle"
    /\ typing' = FALSE
    /\ Goto(r, "returned")
    /\ UNCHANGED <<call, turn, pending, via, said, last, open, approval,
                   resolver>>

(* completeRunWithResponse and finishChannelExecution.                     *)
Complete(r) ==
    /\ pc[r] = "completing"
    /\ IF r \in Turns THEN AddExchange(r) ELSE AddAssistantMessage(turn[r])
    /\ Goto(r, "clearing")
    /\ UNCHANGED <<call, turn, pending, via, approval, resolver>>

ClearPresence(r) ==
    /\ pc[r] = "clearing"
    /\ SetPresence("idle", FALSE)
    /\ Goto(r, "returned")
    /\ UNCHANGED <<call, turn, pending, via, approval, resolver>>

-----------------------------------------------------------------------------
(* POST /approvals/{id}/resolve, with either flag.                         *)
ReadApproval(k, a, approved) ==
    /\ answer[k] = "none"
    /\ \A i \in Answers : i < k => answer[i] # "none"
    /\ status[a] # "none"
    /\ target' = [target EXCEPT ![k] = a]
    /\ verdict' = [verdict EXCEPT ![k] = approved]
    /\ seen' = [seen EXCEPT ![k] = [status |-> status[a],
                                    resume |-> a \in resumable]]
    /\ answer' = [answer EXCEPT ![k] = IF status[a] = "pending" THEN "resolving"
                                                                ELSE "acting"]
    /\ UNCHANGED <<call, runs, session, approval>>

(* Resolve: the clone is pending, so it is written back resolved.          *)
Resolve(k) ==
    LET a == target[k] IN
    /\ answer[k] = "resolving"
    /\ status' = [status EXCEPT ![a] = IF verdict[k] THEN "approved" ELSE "rejected"]
    /\ resumable' = IF seen[k].resume THEN resumable \union {a}
                                      ELSE resumable \ {a}
    /\ answer' = [answer EXCEPT ![k] = "acting"]
    /\ UNCHANGED <<call, runs, session, asked, target, verdict, seen>>

(* HandleResolved acts on the flag of the request, also when Resolve found *)
(* the approval resolved: it starts a resumed run, or tells the session    *)
(* that the operation was not carried out.                                 *)
HandleApproved(k) ==
    /\ answer[k] = "acting"
    /\ verdict[k]
    /\ Goto(MaxTurns + k, "enqueued")
    /\ turn' = [turn EXCEPT ![MaxTurns + k] = turn[target[k]]]
    /\ answer' = [answer EXCEPT ![k] = "done"]
    /\ UNCHANGED <<call, pending, via, session, approval, target, verdict,
                   seen>>

HandleRejected(k) ==
    /\ answer[k] = "acting"
    /\ ~ verdict[k]
    /\ AddAssistantMessage(turn[target[k]])
    /\ answer' = [answer EXCEPT ![k] = "done"]
    /\ UNCHANGED <<call, runs, approval, target, verdict, seen>>

-----------------------------------------------------------------------------
Approving(r) == CheckApproval(r) \/ RequestWithSignature(r)
Unwinding(r) == \/ Pause(r) \/ FindPending(r) \/ SaveResumeState(r)
                \/ RecordMessage(r) \/ Wait(r)
Ending(r)    == \/ KeepMessage(r) \/ ReplyFailure(r) \/ FailTurn(r)
                \/ Complete(r) \/ ClearPresence(r)

Run(r) == \/ EnqueueTurn(r) \/ StartTyping(r)
          \/ Execute(r) \/ ResumeCall(r)
          \/ Approving(r) \/ Unwinding(r) \/ Ending(r)

Next == \/ \E r \in Runs : Run(r) \/ Expire(r)
        \/ \E k \in Answers, a \in Runs, approved \in BOOLEAN :
              ReadApproval(k, a, approved)
        \/ \E k \in Answers :
              Resolve(k) \/ HandleApproved(k) \/ HandleRejected(k)

Spec == Init /\ [][Next]_vars

(* Every goroutine that can run does; nobody has to answer.                *)
FairSpec == /\ Spec
            /\ \A r \in Runs : WF_vars(Run(r))
            /\ \A k \in Answers :
                  WF_vars(Resolve(k) \/ HandleApproved(k) \/ HandleRejected(k))

-----------------------------------------------------------------------------
(* Every variable holds a value the code can give it.                      *)
TypeOK ==
    /\ call \in [Turns -> Tools]
    /\ pc \in [Runs -> Resting \union Working]
    /\ turn \in [Runs -> Turns \union {NoRun}]
    /\ pending \in [Runs -> Runs \union {NoRun}]
    /\ via \in [Runs -> Runs \union {NoRun}]
    /\ depth \in Nat
    /\ presence \in {"idle", "queued", "typing", "waiting_approval"}
    /\ typing \in BOOLEAN
    /\ said \subseteq Turns
    /\ last \in Turns \union {NoRun}
    /\ open \subseteq Turns
    /\ asked \in Seq(Runs)
    /\ status \in [Runs -> {"none", "pending", "approved", "rejected", "expired"}]
    /\ resumable \subseteq Runs
    /\ answer \in [Answers -> {"none", "resolving", "acting", "done"}]
    /\ target \in [Answers -> Runs \union {NoRun}]
    /\ verdict \in [Answers -> BOOLEAN]

(* When a request returns, whether it was answered, failed or waits for an *)
(* approval, its message is part of the session (a channel request whose   *)
(* runtime could not be had is the exception).                             *)
MessageKept ==
    \A t \in Turns : pc[t] \in {"paused", "returned"} => t \in said

(* The queue depth never counts more than the turns that were enqueued and *)
(* not yet answered, failed or cancelled: no path forgets to release its   *)
(* slot, and no resumed run takes a second one.                            *)
DepthBound == depth <= Cardinality(open)

(* When nothing works on the session it does not show as typing, unless a  *)
(* channel request was abandoned half-way.                                 *)
TypingStops ==
    (\A r \in Runs : pc[r] \in Resting) =>
        ~ typing \/ \E t \in Turns : pc[t] = "abandoned"

(* A call that needs approval runs only under an approval of the same call *)
(* (or of another desktop call) that some user answered with yes.          *)
CallsAnswered ==
    \A r \in Runs : via[r] # NoRun =>
        /\ \E k \in Answers : /\ target[k] = via[r]
                              /\ verdict[k]
                              /\ answer[k] # "resolving"
        /\ \/ CallOf(via[r]) = CallOf(r)
           \/ CallOf(via[r]) \in Desktop /\ CallOf(r) \in Desktop

Resolved(a) == status[a] \in {"approved", "rejected", "expired"}

(* TestApprovalManagerResolveUpdatesPendingApprovalAndIsIdempotent: an     *)
(* approval that was resolved keeps its resolution.                        *)
ResolutionStands ==
    [][\A a \in Runs : Resolved(a) =>
          \/ status'[a] = status[a]
          \/ status[a] = "approved" /\ status'[a] = "expired"]_vars

(* The same test: a second answer does not override the first, so a call   *)
(* runs only when the answer that found its approval pending was yes.      *)
FirstAnswerCounts ==
    \A r \in Runs : via[r] # NoRun =>
        \E k \in Answers : /\ target[k] = via[r]
                           /\ verdict[k]
                           /\ seen[k].status = "pending"
=============================================================================
