------------------------------ MODULE WorkflowRun ------------------------------
(***************************************************************************)
(* One execution of a workflow graph: pkg/capability/workflows,            *)
(* executor.go (ExecuteGraphContext, executeNode and what they call) and   *)
(* the node states of graph.go.                                            *)
(*                                                                         *)
(* executeNode calls itself for the nodes that follow and, inside a loop,  *)
(* for the body; the model keeps the call stack.  A frame is one call, its *)
(* pc says where the call is, todo holds the nodes it has still to call.   *)
(* They are called in any order: the order is that of the graph's list of  *)
(* edges, which the model leaves open.  Values are abstracted to what      *)
(* decides the control flow: the Boolean "result" of a body, the number of *)
(* items of a loop.  The context may be cancelled between any two steps.   *)
(***************************************************************************)
EXTENDS Naturals, Sequences

CONSTANTS
    Graphs,              \* the workflow graphs that may be executed
    MaxNodeExecutions,   \* WorkflowExecutor.maxNodeExecutions
    MaxLoopIterations    \* WorkflowExecutor.maxLoopIterations

Root == 0    \* the frame of ExecuteGraphContext itself; it is no node

NodeTypes == {"action", "condition", "loop", "parallel", "join"}
EdgeKinds == {"default", "branch", "each", "true", "false", "expression",
              "failure"}

(* What Graph.Validate lets through: edges between known nodes, at least   *)
(* one start node.  A cycle is legal, and a goto may name a node that the  *)
(* graph does not have: Root stands for it.                                *)
StartNodes(g) == {n \in g.nodes : \A e \in g.edges : e.target # n}

ValidGraph(g) ==
    /\ Root \notin g.nodes
    /\ g.type \in [g.nodes -> NodeTypes]
    /\ g.edges \subseteq [source : g.nodes, target : g.nodes, kind : EdgeKinds]
    /\ StartNodes(g) # {}
    /\ g.maxAttempts \in [g.nodes -> Nat \ {0}]
    /\ g.onError \in [g.nodes -> {"fail", "skip", "goto"}]
    /\ g.gotoNode \in [g.nodes -> g.nodes \union {Root}]
    /\ g.items \in [g.nodes -> Nat]
    /\ g.timed \subseteq g.nodes

ASSUME GraphAssumption == \A g \in Graphs : ValidGraph(g)
ASSUME LimitAssumption == /\ MaxNodeExecutions \in Nat \ {0}
                          /\ MaxLoopIterations \in Nat \ {0}

VARIABLES
    graph,        \* the graph being executed
    status,       \* NodeStates[n].Status, "none" without an entry
    attempts,     \* NodeStates[n].Attempts
    active,       \* workflowExecutionRun.active
    executions,   \* workflowExecutionRun.executions
    stack,        \* the calls of executeNode under way
    failure,      \* the error on its way up the stack
    execStatus,   \* ExecutionContext.Status
    returned,     \* what ExecuteGraphContext returned as its error
    cancelled,    \* the context of the execution is done
    expired,      \* loops whose own timeout has passed
    served        \* history: the pairs <<body node, item>> a loop has run

vars == <<graph, status, attempts, active, executions, stack, failure,
          execStatus, returned, cancelled, expired, served>>

Nodes == graph.nodes
Settled == {"completed", "skipped"}
NodeStatuses == {"none", "running", "retrying", "failed"} \union Settled

Top == stack[Len(stack)]
Below == SubSeq(stack, 1, Len(stack) - 1)
Replace(f) == stack' = Append(Below, f)

Frame(n) == [node |-> n, pc |-> "attempt", todo |-> {}, item |-> 0,
             before |-> {}]

Running == stack # << >> /\ failure = "none"

(* The context a call was given: that of the execution, or that of the     *)
(* innermost timed loop whose body the call belongs to.                    *)
ContextDone(k) ==
    \/ cancelled
    \/ \E j \in 1 .. k : /\ stack[j].pc \in {"iterate", "loop"}
                         /\ stack[j].node \in expired

Known == {n \in Nodes : status[n] # "none"}

Parents(n) == {e.source : e \in {d \in graph.edges : d.target = n}}

(* Slip: a skipped parent does not count as done.                          *)
JoinParentsCompleted(n) == \A p \in Parents(n) : status[p] = "completed"

(* Slip: the first parent to settle is enough.                             *)
JoinAnyParent(n) == \E p \in Parents(n) : status[p] \in Settled

JoinParentsReady(n) == \A p \in Parents(n) : status[p] \in Settled

-----------------------------------------------------------------------------
Init ==
    /\ graph \in Graphs
    /\ status = [n \in graph.nodes |-> "none"]
    /\ attempts = [n \in graph.nodes |-> 0]
    /\ active = {}
    /\ executions = 0
    /\ stack = << [Frame(Root) EXCEPT !.pc = "next",
                                      !.todo = StartNodes(graph)] >>
    /\ failure = "none"
    /\ execStatus = "pending"
    /\ returned = "none"
    /\ cancelled = FALSE
    /\ expired = {}
    /\ served = [n \in graph.nodes |-> {}]

-----------------------------------------------------------------------------
(* The checks at the head of executeNode, for the call of n by the top     *)
(* frame.  A node that is settled, and a join whose parents are not, cost  *)
(* nothing and report no error.                                            *)
Calls(n) == /\ Running
            /\ Top.pc \in {"next", "loop"}
            /\ n \in Top.todo

Called(n) == [Top EXCEPT !.todo = @ \ {n}]

CallInterrupted(n) ==
    /\ Calls(n)
    /\ ContextDone(Len(stack))
    /\ failure' = "interrupt"
    /\ UNCHANGED <<graph, status, attempts, active, executions, stack,
                   execStatus, returned, cancelled, expired, served>>

NothingToDo(n) == \/ status[n] \in Settled
                  \/ graph.type[n] = "join" /\ ~JoinParentsReady(n)

CallReturnsAtOnce(n) ==
    /\ Calls(n)
    /\ ~ContextDone(Len(stack))
    /\ NothingToDo(n)
    /\ Replace(Called(n))
    /\ UNCHANGED <<graph, status, attempts, active, executions, failure,
                   execStatus, returned, cancelled, expired, served>>

CallFails(n) ==
    /\ Calls(n)
    /\ ~ContextDone(Len(stack))
    /\ ~NothingToDo(n)
    /\ \/ n \in active
          /\ UNCHANGED executions
       \/ n \notin active
          /\ executions >= MaxNodeExecutions
          /\ executions' = executions + 1
    /\ failure' = "error"
    /\ UNCHANGED <<graph, status, attempts, active, stack, execStatus,
                   returned, cancelled, expired, served>>

(* The record of a call starts empty, with a mark at item 0 when the node  *)
(* has a state from an earlier call.                                       *)
Resumed(n) == IF status[n] = "none" THEN {} ELSE {<<n, 0>>}

(* Slip: the check against a node that is already on the stack is lost.    *)
EnterAgain(n) ==
    /\ Calls(n)
    /\ ~ContextDone(Len(stack))
    /\ ~NothingToDo(n)
    /\ executions < MaxNodeExecutions
    /\ executions' = executions + 1
    /\ active' = active \union {n}
    /\ stack' = Below \o << Called(n), Frame(n) >>
    /\ served' = [served EXCEPT ![n] = Resumed(n)]
    /\ UNCHANGED <<graph, status, attempts, failure, execStatus, returned,
                   cancelled, expired>>

Enter(n) ==
    /\ Calls(n)
    /\ ~ContextDone(Len(stack))
    /\ ~NothingToDo(n)
    /\ n \notin active
    /\ executions < MaxNodeExecutions
    /\ executions' = executions + 1
    /\ active' = active \union {n}
    /\ stack' = Below \o << Called(n), Frame(n) >>
    /\ served' = [served EXCEPT ![n] = Resumed(n)]
    /\ UNCHANGED <<graph, status, attempts, failure, execStatus, returned,
                   cancelled, expired>>

(* The head of the retry loop: MarkNodeStarted, then the body.  A body     *)
(* node of a loop counts as run for the item under way.                    *)
Caller == stack[Len(stack) - 1]

StartAttempt ==
    /\ Running
    /\ Top.pc = "attempt"
    /\ IF ContextDone(Len(stack))
       THEN /\ stack' = Below
            /\ active' = active \ {Top.node}
            /\ failure' = "interrupt"
            /\ UNCHANGED <<status, attempts, execStatus, expired, served>>
       ELSE /\ status' = [status EXCEPT ![Top.node] = "running"]
            /\ attempts' = [attempts EXCEPT ![Top.node] = IF @ = 0 THEN 1 ELSE @]
            /\ execStatus' = "running"
            /\ expired' = expired \ {Top.node}
            /\ IF graph.type[Top.node] = "loop"
               THEN Replace([Top EXCEPT !.pc = "iterate", !.item = 0,
                                        !.before = Nodes])
               ELSE Replace([Top EXCEPT !.pc = "body"])
            /\ served' = IF Caller.pc = "loop"
                         THEN [served EXCEPT ![Caller.node] =
                                  @ \union {<<Top.node, Caller.item>>}]
                         ELSE served
            /\ UNCHANGED <<active, failure>>
    /\ UNCHANGED <<graph, executions, returned, cancelled>>

-----------------------------------------------------------------------------
(* Bodies.  shouldFollowEdge: the unconditional kinds are followed, those  *)
(* of a condition by the body's "result" (absent, hence false, for a       *)
(* skipped, a parallel or a join node), an edge with an expression of its  *)
(* own either way, and a failure edge never.                               *)
Follow(n, result, chosen) ==
    {e.target : e \in {d \in graph.edges :
        /\ d.source = n
        /\ \/ d.kind \in {"default", "branch", "each"}
           \/ d.kind = "true" /\ result
           \/ d.kind = "false" /\ ~result
           \/ d.kind = "expression" /\ d.target \in chosen}}

HasExpression(n) == \E e \in graph.edges : e.source = n /\ e.kind = "expression"

Chooses(n) == IF HasExpression(n) THEN SUBSET Nodes ELSE {{}}

Results(n) == IF graph.type[n] \in {"action", "condition"}
              THEN BOOLEAN ELSE {FALSE}

BodySucceeds ==
    /\ Running
    /\ Top.pc = "body"
    /\ status' = [status EXCEPT ![Top.node] = "completed"]
    /\ \/ /\ \E result \in Results(Top.node), chosen \in Chooses(Top.node) :
                Replace([Top EXCEPT !.pc = "next",
                                    !.todo = Follow(Top.node, result, chosen)])
          /\ UNCHANGED failure
       \/ /\ HasExpression(Top.node)    \* which cannot be evaluated
          /\ Replace([Top EXCEPT !.pc = "next"])
          /\ failure' = "error"
    /\ UNCHANGED <<graph, attempts, active, executions, execStatus, returned,
                   cancelled, expired, served>>

(* The runner's error may be a context error of its own, which the         *)
(* executor cannot tell from a cancellation.                               *)
BodyErrors(n) == IF graph.type[n] = "action" THEN {"error", "interrupt"}
                 ELSE IF graph.type[n] = "condition" THEN {"error"} ELSE {}

BodyFails ==
    /\ Running
    /\ Top.pc = "body"
    /\ failure' \in BodyErrors(Top.node)
    /\ UNCHANGED <<graph, status, attempts, active, executions, stack,
                   execStatus, returned, cancelled, expired, served>>

(* A panic of the runner is recovered at the top: nothing is unwound.      *)
BodyPanics ==
    /\ Running
    /\ Top.pc = "body"
    /\ graph.type[Top.node] = "action"
    /\ stack' = << >>
    /\ active' = {}
    /\ execStatus' = "failed"
    /\ returned' = "error"
    /\ UNCHANGED <<graph, status, attempts, executions, failure, cancelled,
                   expired, served>>

-----------------------------------------------------------------------------
(* executeLoopNode.  Without an "each" or "branch" edge every edge leads   *)
(* to the body.                                                            *)
Targets(n, kinds) ==
    {e.target : e \in {d \in graph.edges : d.source = n /\ d.kind \in kinds}}

HasBodyEdge(n) == Targets(n, {"each", "branch"}) # {}

Body(n) == IF HasBodyEdge(n) THEN Targets(n, {"each", "branch"})
           ELSE Targets(n, EdgeKinds)

Continuation(n) == IF HasBodyEdge(n) THEN Targets(n, EdgeKinds \ {"each", "branch"})
                   ELSE {}

AtLoopHead == Running /\ Top.pc = "iterate"

(* A value that is no list fails at the same place, and is covered by one  *)
(* with too many items: both fail every attempt alike.                     *)
TooManyItems(n) == graph.items[n] > MaxLoopIterations

LoopFails ==
    /\ AtLoopHead
    /\ \/ TooManyItems(Top.node) /\ failure' = "error"
       \/ /\ Top.item < graph.items[Top.node]
          /\ ContextDone(Len(stack))
          /\ failure' = "interrupt"
    /\ UNCHANGED <<graph, status, attempts, active, executions, stack,
                   execStatus, returned, cancelled, expired, served>>

(* The next item: remember which node states exist, then run the body.     *)
LoopIterates ==
    /\ AtLoopHead
    /\ ~TooManyItems(Top.node)
    /\ Top.item < graph.items[Top.node]
    /\ ~ContextDone(Len(stack))
    /\ Replace([Top EXCEPT !.pc = "loop", !.item = @ + 1, !.before = Known,
                           !.todo = Body(Top.node)])
    /\ UNCHANGED <<graph, status, attempts, active, executions, failure,
                   execStatus, returned, cancelled, expired, served>>

(* Slip: the node states of the iteration are kept.                        *)
KeepIteration ==
    /\ Running
    /\ Top.pc = "loop"
    /\ Top.todo = {}
    /\ Replace([Top EXCEPT !.pc = "iterate"])
    /\ UNCHANGED <<graph, status, attempts, active, executions, failure,
                   execStatus, returned, cancelled, expired, served>>

(* The iteration is over: its new node states are forgotten.               *)
LoopForgets ==
    /\ Running
    /\ Top.pc = "loop"
    /\ Top.todo = {}
    /\ status' = [n \in Nodes |-> IF n \in Top.before THEN status[n] ELSE "none"]
    /\ attempts' = [n \in Nodes |-> IF n \in Top.before THEN attempts[n] ELSE 0]
    /\ Replace([Top EXCEPT !.pc = "iterate"])
    /\ UNCHANGED <<graph, active, executions, failure, execStatus, returned,
                   cancelled, expired, served>>

LoopCompletes ==
    /\ AtLoopHead
    /\ ~TooManyItems(Top.node)
    /\ Top.item = graph.items[Top.node]
    /\ status' = [status EXCEPT ![Top.node] = "completed"]
    /\ Replace([Top EXCEPT !.pc = "next", !.todo = Continuation(Top.node)])
    /\ UNCHANGED <<graph, attempts, active, executions, failure, execStatus,
                   returned, cancelled, expired, served>>

-----------------------------------------------------------------------------
(* Returns: a call without anything left to call, and the execution when   *)
(* its own frame is done.                                                  *)
NodeReturns ==
    /\ Running
    /\ Top.pc = "next" /\ Top.todo = {} /\ Top.node # Root
    /\ stack' = Below
    /\ active' = active \ {Top.node}
    /\ UNCHANGED <<graph, status, attempts, executions, failure, execStatus,
                   returned, cancelled, expired, served>>

ExecutionReturns ==
    /\ Running
    /\ Top.pc = "next" /\ Top.todo = {} /\ Top.node = Root
    /\ stack' = << >>
    /\ execStatus' = IF execStatus = "failed" THEN "failed" ELSE "completed"
    /\ returned' = "nil"
    /\ UNCHANGED <<graph, status, attempts, active, executions, failure,
                   cancelled, expired, served>>

-----------------------------------------------------------------------------
(* An error on its way up.  A call that has finished its body passes it    *)
(* on; the body's own call sees first whether its context is done, then    *)
(* tries again, and at last asks handleNodeError.                          *)
Failing == stack # << >> /\ failure # "none"

AtBody == Top.pc \in {"body", "iterate", "loop"}

PassOn ==
    /\ Failing
    /\ Top.node # Root
    /\ \/ Top.pc = "next"
       \/ AtBody /\ ContextDone(Len(stack) - 1)
    /\ failure' = IF Top.pc = "next" THEN failure ELSE "interrupt"
    /\ stack' = Below
    /\ active' = active \ {Top.node}
    /\ UNCHANGED <<graph, status, attempts, executions, execStatus, returned,
                   cancelled, expired, served>>

Handles == Failing /\ AtBody /\ ~ContextDone(Len(stack) - 1)

(* Slip: the attempt is not counted.                                       *)
RetryUncounted ==
    /\ Handles
    /\ attempts[Top.node] < graph.maxAttempts[Top.node]
    /\ failure' = "none"
    /\ status' = [status EXCEPT ![Top.node] = "retrying"]
    /\ Replace([Top EXCEPT !.pc = "attempt", !.todo = {}])
    /\ UNCHANGED <<graph, attempts, active, executions, execStatus, returned,
                   cancelled, expired, served>>

Retry ==
    /\ Handles
    /\ attempts[Top.node] < graph.maxAttempts[Top.node]
    /\ failure' = "none"
    /\ status' = [status EXCEPT ![Top.node] = "retrying"]
    /\ attempts' = [attempts EXCEPT ![Top.node] = @ + 1]
    /\ Replace([Top EXCEPT !.pc = "attempt", !.todo = {}])
    /\ UNCHANGED <<graph, active, executions, execStatus, returned, cancelled,
                   expired, served>>

GivesUp == Handles /\ attempts[Top.node] >= graph.maxAttempts[Top.node]

(* on_error "skip" goes on with the edges an empty result follows, "goto"  *)
(* with one node only.  An expression that cannot be evaluated, or a node  *)
(* that is not found, makes the skipped node report an error after all.    *)
Skip ==
    /\ GivesUp
    /\ graph.onError[Top.node] \in {"skip", "goto"}
    /\ status' = [status EXCEPT ![Top.node] = "skipped"]
    /\ \/ /\ graph.onError[Top.node] = "skip"
          /\ \E chosen \in Chooses(Top.node) :
                Replace([Top EXCEPT !.pc = "next",
                                    !.todo = Follow(Top.node, FALSE, chosen)])
          /\ failure' = "none"
       \/ /\ \/ graph.onError[Top.node] = "skip" /\ HasExpression(Top.node)
             \/ graph.onError[Top.node] = "goto" /\ graph.gotoNode[Top.node] = Root
          /\ Replace([Top EXCEPT !.pc = "next"])
          /\ failure' = "error"
       \/ /\ graph.onError[Top.node] = "goto"
          /\ graph.gotoNode[Top.node] \in Nodes
          /\ Replace([Top EXCEPT !.pc = "next",
                                 !.todo = {graph.gotoNode[Top.node]}])
          /\ failure' = "none"
    /\ UNCHANGED <<graph, attempts, active, executions, execStatus, returned,
                   cancelled, expired, served>>

(* Slip: the failed node leaves the status of the execution alone and its  *)
(* error is dropped.                                                       *)
SwallowFailure ==
    /\ GivesUp
    /\ graph.onError[Top.node] = "fail"
    /\ status' = [status EXCEPT ![Top.node] = "failed"]
    /\ failure' = "none"
    /\ stack' = Below
    /\ active' = active \ {Top.node}
    /\ UNCHANGED <<graph, attempts, executions, execStatus, returned,
                   cancelled, expired, served>>

Fail ==
    /\ GivesUp
    /\ graph.onError[Top.node] = "fail"
    /\ status' = [status EXCEPT ![Top.node] = "failed"]
    /\ execStatus' = "failed"
    /\ stack' = Below
    /\ active' = active \ {Top.node}
    /\ UNCHANGED <<graph, attempts, executions, failure, returned, cancelled,
                   expired, served>>

(* Slip: the kind of the error is stored as the status.                    *)
StoreErrorKind ==
    /\ Failing
    /\ Top.node = Root
    /\ stack' = << >>
    /\ failure' = "none"
    /\ execStatus' = failure
    /\ returned' = "error"
    /\ UNCHANGED <<graph, status, attempts, active, executions, cancelled,
                   expired, served>>

ExecutionFails ==
    /\ Failing
    /\ Top.node = Root
    /\ stack' = << >>
    /\ failure' = "none"
    /\ execStatus' = IF failure = "interrupt" THEN "cancelled" ELSE "failed"
    /\ returned' = "error"
    /\ UNCHANGED <<graph, status, attempts, active, executions, cancelled,
                   expired, served>>

-----------------------------------------------------------------------------
(* The caller gives up, or the timeout of a loop passes.                   *)
Cancel ==
    /\ stack # << >>
    /\ ~cancelled
    /\ cancelled' = TRUE
    /\ UNCHANGED <<graph, status, attempts, active, executions, stack, failure,
                   execStatus, returned, expired, served>>

Expire ==
    /\ \E j \in 1 .. Len(stack) :
          /\ stack[j].pc \in {"iterate", "loop"}
          /\ stack[j].node \in graph.timed \ expired
          /\ expired' = expired \union {stack[j].node}
    /\ UNCHANGED <<graph, status, attempts, active, executions, stack, failure,
                   execStatus, returned, cancelled, served>>

Call == \E n \in Nodes : \/ CallInterrupted(n) \/ CallReturnsAtOnce(n)
                         \/ CallFails(n) \/ Enter(n)

Execute == \/ Call \/ StartAttempt
           \/ BodySucceeds \/ BodyFails \/ BodyPanics
           \/ LoopFails \/ LoopIterates \/ LoopForgets \/ LoopCompletes
           \/ NodeReturns \/ ExecutionReturns
           \/ PassOn \/ Retry \/ Skip \/ Fail \/ ExecutionFails

Finished == stack = << >> /\ UNCHANGED vars

Next == Execute \/ Cancel \/ Expire \/ Finished

(* The goroutine that executes the graph runs, and an action returns.      *)
Spec == Init /\ [][Next]_vars
FairSpec == Spec /\ WF_vars(Execute)

-----------------------------------------------------------------------------
FrameType(g) ==
    [node : g.nodes \union {Root},
     pc : {"attempt", "body", "iterate", "loop", "next"},
     todo : SUBSET g.nodes,
     item : Nat,
     before : SUBSET g.nodes]

(* Every variable holds a value the code can give it.                      *)
TypeOK ==
    /\ graph \in Graphs
    /\ status \in [Nodes -> NodeStatuses]
    /\ attempts \in [Nodes -> Nat]
    /\ active \subseteq Nodes
    /\ executions \in Nat
    /\ stack \in Seq(FrameType(graph))
    /\ failure \in {"none", "error", "interrupt"}
    /\ execStatus \in {"pending", "running", "completed", "failed",
                       "cancelled"}
    /\ returned \in {"none", "nil", "error"}
    /\ cancelled \in BOOLEAN
    /\ expired \subseteq Nodes
    /\ served \in [Nodes -> SUBSET (Nodes \X Nat)]

(* No node is on the call stack twice, whatever cycles and gotos the graph *)
(* has: the stack above the execution's own frame holds the active nodes,  *)
(* one frame each, so the recursion of executeNode is bounded by the graph *)
(* and not by the length of the execution.                                 *)
NeverReentered ==
    /\ \A j, k \in 1 .. Len(stack) :
          stack[j].node = stack[k].node => j = k
    /\ \A j \in 2 .. Len(stack) : stack[j].node \in active

(* A join that ran has all its parents settled for as long as its state is *)
(* kept: no retry of an enclosing loop, no forgotten iteration and no goto *)
(* leaves a join standing on a parent that is no longer done.              *)
JoinStandsOnParents ==
    \A n \in Nodes : graph.type[n] = "join" /\ status[n] = "completed" =>
        \A p \in Parents(n) : status[p] \in Settled

(* A loop that absorbed a failure by trying again or by being skipped.     *)
Absorbs(l) == graph.type[l] = "loop" /\ (attempts[l] > 1 \/ status[l] = "skipped")

Absorbed == \E l \in Nodes : Absorbs(l)

(* When an execution completes, a join whose parents are all settled has   *)
(* run: the parent that settles last calls it.  (Parents that are loops,   *)
(* that left by a goto, or whose edge to the join is conditional call      *)
(* nobody and are excepted.  So is an execution in which a loop absorbed a *)
(* failure: tried again, its body passes over a parent that settled before *)
(* the failure and had not called the join yet.)                           *)
CallsItsJoin(p, n) ==
    /\ graph.type[p] # "loop"
    /\ graph.onError[p] # "goto"
    /\ \E e \in graph.edges : /\ e.source = p /\ e.target = n
                              /\ e.kind \in {"default", "branch"}

LastParentRunsJoin ==
    returned = "nil" =>
        \A n \in Nodes :
            /\ graph.type[n] = "join"
            /\ \A p \in Parents(n) : status[p] \in Settled /\ CallsItsJoin(p, n)
            /\ Parents(n) # {}
            => status[n] \in Settled \/ Absorbed

(* A body node that only the loop can reach.                               *)
OnlyThrough(l, n) ==
    /\ n \in Body(l)
    /\ graph.type[n] # "join"
    /\ Parents(n) = {l}
    /\ \A m \in Nodes : graph.onError[m] = "goto" => graph.gotoNode[m] # n

ServedAll(l) ==
    \A n \in Nodes : OnlyThrough(l, n) =>
        \A i \in 1 .. graph.items[l] : <<n, i>> \in served[l]

(* A loop that is called afresh and completes at its first attempt has run *)
(* its body nodes for every item: what one iteration leaves behind never   *)
(* makes the next one pass over a node.  (A loop that failed and is called *)
(* again by a loop around it keeps its count of attempts, and the states   *)
(* of its body: the mark at item 0 excepts it.)                            *)
LoopServesEveryItem ==
    \A l \in Nodes :
        /\ graph.type[l] = "loop"
        /\ status[l] = "completed"
        /\ attempts[l] = 1
        /\ <<l, 0>> \notin served[l]
        => ServedAll(l)

(* The palette's promise for every loop ("Iterate over an array value and  *)
(* execute downstream nodes per item"), its retries included.              *)
LoopServesEveryItemOnRetry ==
    \A l \in Nodes :
        graph.type[l] = "loop" /\ status[l] = "completed" => ServedAll(l)

(* The palette's promise for a join ("Join multiple branches back into one *)
(* path"): an execution that completes has run every join that a branch    *)
(* reached.                                                                *)
JoinedIsRun ==
    returned = "nil" =>
        \A n \in Nodes :
            /\ graph.type[n] = "join"
            /\ \E p \in Parents(n) : status[p] = "completed" /\ CallsItsJoin(p, n)
            => status[n] \in Settled

(* An execution that reports completion has no failed node, unless a loop  *)
(* around it absorbed the failure.                                         *)
CompletedHasNoFailure ==
    execStatus = "completed" /\ returned = "nil" =>
        \A n \in Nodes : status[n] = "failed" => Absorbed

(* Every execution ends, on every graph: retries, gotos, nested loops and  *)
(* cycles included.                                                        *)
ExecutionEnds == <>(returned # "none")

=============================================================================
