--------------------------- MODULE WorkflowRunProofs ---------------------------
(***************************************************************************)
(* Proofs about WorkflowRun, for every set of valid graphs and every       *)
(* limit: type correctness, that executeNode never enters a node that is   *)
(* on the call stack already, and that a join never stands on a parent     *)
(* that is not settled.                                                    *)
(*                                                                         *)
(* NeverReentered needs to know that the lowest frame is that of the       *)
(* execution itself and is never taken for a node (RootFrame).  Every      *)
(* action replaces the top frame by one of the same node, pops it, pushes  *)
(* one, empties the stack or leaves it alone: one lemma for each, and for  *)
(* the joins, in the last section, the same lemmas over again.             *)
(***************************************************************************)
EXTENDS WorkflowRun, SequenceTheorems, TLAPS

RootFrame ==
    stack # << >> => stack[1].node = Root /\ stack[1].pc = "next"

StackOK ==
    /\ graph \in Graphs
    /\ active \subseteq Nodes
    /\ stack \in Seq(FrameType(graph))
    /\ NeverReentered
    /\ RootFrame

(* The part of TypeOK that does not speak of the stack.                    *)
RestOK ==
    /\ status \in [Nodes -> NodeStatuses]
    /\ attempts \in [Nodes -> Nat]
    /\ executions \in Nat
    /\ failure \in {"none", "error", "interrupt"}
    /\ execStatus \in {"pending", "running", "completed", "failed", "cancelled"}
    /\ returned \in {"none", "nil", "error"}
    /\ cancelled \in BOOLEAN
    /\ expired \subseteq Nodes
    /\ served \in [Nodes -> SUBSET (Nodes \X Nat)]

IInv == StackOK /\ RestOK

-----------------------------------------------------------------------------
(* What the sequence operators of the stack yield.                         *)
LEMMA SameFrames ==
    ASSUME UNCHANGED graph
    PROVE  FrameType(graph)' = FrameType(graph) /\ Nodes' = Nodes
BY DEF FrameType, Nodes

LEMMA StackFacts ==
    ASSUME StackOK, stack # << >>
    PROVE  /\ Len(stack) \in Nat /\ Len(stack) >= 1
           /\ Top \in FrameType(graph)
           /\ Below \in Seq(FrameType(graph)) /\ Len(Below) = Len(stack) - 1
           /\ \A j \in 1 .. Len(stack) - 1 : Below[j] = stack[j]
           /\ \A j \in 1 .. Len(stack) : stack[j] \in FrameType(graph)
<1>1. stack \in Seq(FrameType(graph))
  BY DEF StackOK
<1>2. Len(stack) \in Nat /\ Len(stack) >= 1
  BY <1>1, EmptySeq
<1>3. \A j \in 1 .. Len(stack) : stack[j] \in FrameType(graph)
  BY <1>1, ElementOfSeq
<1>4. /\ Below \in Seq(FrameType(graph)) /\ Len(Below) = Len(stack) - 1
      /\ \A j \in 1 .. Len(stack) - 1 : Below[j] = stack[j]
  <2> DEFINE k == Len(stack) - 1
  <2>1. k \in Int /\ k >= 0 /\ \A j \in 1 .. k : stack[j] \in FrameType(graph)
    BY <1>2, <1>3
  <2>2. /\ SubSeq(stack, 1, k) \in Seq(FrameType(graph))
        /\ Len(SubSeq(stack, 1, k)) = IF 1 <= k THEN k - 1 + 1 ELSE 0
        /\ \A i \in 1 .. k - 1 + 1 : SubSeq(stack, 1, k)[i] = stack[1 + i - 1]
    <3> HIDE DEF k
    <3> QED
      BY <2>1, SubSeqProperties
  <2>3. Below = SubSeq(stack, 1, k)
    BY DEF Below
  <2>4. Len(Below) = k
    <3> HIDE DEF k
    <3> QED
      BY <2>1, <2>2, <2>3
  <2>5. ASSUME NEW j \in 1 .. k PROVE Below[j] = stack[j]
    <3> HIDE DEF k
    <3>1. j \in 1 .. k - 1 + 1 /\ 1 + j - 1 = j
      BY <2>1
    <3> QED
      BY <2>2, <2>3, <3>1
  <2> QED
    BY <2>2, <2>3, <2>4, <2>5
<1> QED
  BY <1>2, <1>3, <1>4 DEF Top

(* The lowest frame is the execution's, the others are active nodes'.      *)
LEMMA NodeFrames ==
    ASSUME StackOK, stack # << >>
    PROVE  /\ Top.node = Root <=> Len(stack) = 1
           /\ Top.node # Root => Top.node \in Nodes /\ Top.node \in active
           /\ Top.pc # "next" => Top.node # Root
           /\ Root \notin Nodes
<1>1. Root \notin Nodes
  BY GraphAssumption DEF StackOK, ValidGraph, Nodes
<1>2. /\ Len(stack) \in Nat /\ Len(stack) >= 1
      /\ stack[1].node = Root /\ stack[1].pc = "next"
      /\ \A j \in 2 .. Len(stack) : stack[j].node \in active
      /\ active \subseteq Nodes
  BY StackFacts DEF StackOK, RootFrame, NeverReentered
<1>3. CASE Len(stack) = 1
  BY <1>1, <1>2, <1>3 DEF Top
<1>4. CASE Len(stack) # 1
  <2>1. Len(stack) \in 2 .. Len(stack)
    <3>1. Len(stack) \in Nat /\ Len(stack) >= 1
      BY <1>2
    <3>2. ASSUME NEW k \in Nat, k >= 1, k # 1 PROVE k \in 2 .. k
      BY <3>2
    <3> QED
      BY <1>4, <3>1, <3>2
  <2>2. Top.node \in active /\ active \subseteq Nodes
    BY <1>2, <2>1 DEF Top
  <2> QED
    BY <1>1, <1>2, <1>4, <2>2
<1> QED
  BY <1>3, <1>4

(* The top frame goes on, with the same node.                              *)
LEMMA ReplaceKeeps ==
    ASSUME StackOK, stack # << >>, NEW f \in FrameType(graph),
           f.node = Top.node, Len(stack) = 1 => f.pc = "next",
           Replace(f), UNCHANGED <<graph, active>>
    PROVE  StackOK'
<1>1. /\ Len(stack) \in Nat /\ Len(stack) >= 1
      /\ Below \in Seq(FrameType(graph)) /\ Len(Below) = Len(stack) - 1
      /\ \A j \in 1 .. Len(stack) - 1 : Below[j] = stack[j]
  BY StackFacts
<1>2. stack' = Append(Below, f)
  BY DEF Replace
<1>3. /\ stack' \in Seq(FrameType(graph)) /\ Len(stack') = Len(stack)
      /\ \A j \in 1 .. Len(stack) - 1 : stack'[j] = stack[j]
      /\ stack'[Len(stack)] = f
  BY <1>1, <1>2
<1>4. \A j \in 1 .. Len(stack) : stack'[j].node = stack[j].node
  BY <1>1, <1>3 DEF Top
<1>5. NeverReentered'
  BY <1>3, <1>4 DEF StackOK, NeverReentered
<1>6. RootFrame'
  BY <1>1, <1>3, <1>4 DEF StackOK, RootFrame
<1> QED
  BY <1>3, <1>5, <1>6, SameFrames DEF StackOK

(* A call returns.                                                         *)
LEMMA PopKeeps ==
    ASSUME StackOK, stack # << >>, Top.node # Root,
           stack' = Below, active' = active \ {Top.node}, UNCHANGED graph
    PROVE  StackOK'
<1>1. /\ Len(stack) \in Nat /\ Len(stack) >= 2
      /\ Below \in Seq(FrameType(graph)) /\ Len(Below) = Len(stack) - 1
      /\ \A j \in 1 .. Len(stack) - 1 : Below[j] = stack[j]
  BY StackFacts, NodeFrames
<1>2. /\ Len(stack') = Len(stack) - 1
      /\ \A j \in 1 .. Len(stack) - 1 : stack'[j].node = stack[j].node
  BY <1>1
<1>3. \A j \in 1 .. Len(stack) - 1 : stack[j].node # Top.node
  BY <1>1 DEF StackOK, NeverReentered, Top
<1>4. NeverReentered'
  BY <1>1, <1>2, <1>3 DEF StackOK, NeverReentered
<1>5. RootFrame'
  BY <1>1 DEF StackOK, RootFrame
<1> QED
  BY <1>1, <1>4, <1>5, SameFrames DEF StackOK

(* The stack is dropped, or left as it is.                                 *)
LEMMA EmptyKeeps ==
    ASSUME StackOK, stack' = << >>, active' \subseteq active, UNCHANGED graph
    PROVE  StackOK'
<1>1. stack' \in Seq(FrameType(graph)) /\ Len(stack') = 0
  OBVIOUS
<1> QED
  BY <1>1, SameFrames DEF StackOK, NeverReentered, RootFrame

LEMMA SameKeeps ==
    ASSUME StackOK, UNCHANGED <<graph, active, stack>>
    PROVE  StackOK'
BY SameFrames DEF StackOK, NeverReentered, RootFrame

(* The stack after a node has been entered.                                *)
LEMMA EnteredStack ==
    ASSUME StackOK, NEW n \in Nodes, Enter(n)
    PROVE  /\ stack' \in Seq(FrameType(graph)) /\ Len(stack') = Len(stack) + 1
           /\ Len(stack) \in Nat /\ Len(stack) >= 1
           /\ \A j \in 1 .. Len(stack) - 1 : stack'[j] = stack[j]
           /\ stack'[Len(stack)] = Called(n)
           /\ stack'[Len(stack) + 1] = Frame(n)
           /\ Called(n).node = Top.node /\ Called(n).pc = Top.pc
           /\ Called(n).before = Top.before
           /\ Frame(n).node = n /\ Frame(n).pc = "attempt"
<1>1. stack # << >>
  BY DEF Enter, Calls, Running
<1>2. /\ Len(stack) \in Nat /\ Len(stack) >= 1
      /\ Below \in Seq(FrameType(graph)) /\ Len(Below) = Len(stack) - 1
      /\ \A j \in 1 .. Len(stack) - 1 : Below[j] = stack[j]
      /\ Top \in FrameType(graph)
  BY <1>1, StackFacts
<1>3. /\ Called(n) \in FrameType(graph) /\ Called(n).node = Top.node
      /\ Called(n).pc = Top.pc /\ Called(n).before = Top.before
  BY <1>2 DEF Called, FrameType
<1>4. Frame(n) \in FrameType(graph) /\ Frame(n).node = n /\ Frame(n).pc = "attempt"
  BY DEF Frame, FrameType, Nodes
<1> DEFINE c == Called(n)
           f == Frame(n)
<1>5. stack' = Below \o <<c, f>>
  BY DEF Enter
<1> HIDE DEF c, f
<1>6. /\ stack' \in Seq(FrameType(graph)) /\ Len(stack') = Len(stack) + 1
      /\ \A j \in 1 .. Len(stack) - 1 : stack'[j] = stack[j]
      /\ stack'[Len(stack)] = c
      /\ stack'[Len(stack) + 1] = f
  <2>1. c \in FrameType(graph) /\ f \in FrameType(graph)
    BY <1>3, <1>4 DEF c, f
  <2>2. <<c, f>> \in Seq(FrameType(graph)) /\ Len(<<c, f>>) = 2
    BY <2>1
  <2>3. /\ stack' \in Seq(FrameType(graph)) /\ Len(stack') = Len(Below) + 2
        /\ \A j \in 1 .. Len(Below) + 2 :
              stack'[j] = IF j <= Len(Below) THEN Below[j] ELSE <<c, f>>[j - Len(Below)]
    BY <1>2, <1>5, <2>2, ConcatProperties
  <2> QED
    BY <1>2, <2>3
<1> QED
  BY <1>2, <1>3, <1>4, <1>6 DEF c, f

(* A node is entered that was not active.                                  *)
LEMMA EnterKeeps ==
    ASSUME StackOK, NEW n \in Nodes, Enter(n)
    PROVE  StackOK'
<1>1. stack # << >> /\ n \notin active /\ active' = active \union {n}
  BY DEF Enter, Calls, Running
<1> DEFINE c == Called(n)
           f == Frame(n)
<1>2. Len(stack) \in Nat /\ Len(stack) >= 1
  BY <1>1, StackFacts
<1>3. c.node = Top.node /\ c.pc = Top.pc
  BY EnteredStack
<1>4. f.node = n
  BY EnteredStack
<1>6. /\ stack' \in Seq(FrameType(graph)) /\ Len(stack') = Len(stack) + 1
      /\ \A j \in 1 .. Len(stack) - 1 : stack'[j] = stack[j]
      /\ stack'[Len(stack)] = c
      /\ stack'[Len(stack) + 1] = f
  BY EnteredStack
<1> HIDE DEF c, f
<1>7. /\ \A j \in 1 .. Len(stack) : stack'[j].node = stack[j].node
      /\ stack'[Len(stack) + 1].node = n
  BY <1>2, <1>3, <1>4, <1>6 DEF Top
<1>8. \A j \in 1 .. Len(stack) : stack[j].node # n
  <2>1. stack[1].node = Root /\ Root \notin Nodes
    BY <1>1, NodeFrames DEF StackOK, RootFrame
  <2>2. \A j \in 2 .. Len(stack) : stack[j].node \in active
    BY DEF StackOK, NeverReentered
  <2> QED
    BY <1>1, <1>2, <2>1, <2>2
<1>9. NeverReentered'
  <2>1. \A j, k \in 1 .. Len(stack') : stack'[j].node = stack'[k].node => j = k
    <3>1. \A j, k \in 1 .. Len(stack) : stack[j].node = stack[k].node => j = k
      BY DEF StackOK, NeverReentered
    <3> QED
      BY <1>2, <1>6, <1>7, <1>8, <3>1
  <2>2. \A j \in 2 .. Len(stack') : stack'[j].node \in active'
    <3>1. \A j \in 2 .. Len(stack) : stack[j].node \in active
      BY DEF StackOK, NeverReentered
    <3>2. n \in active' /\ active \subseteq active'
      BY <1>1
    <3>3. \A j \in 2 .. Len(stack') :
             j \in 2 .. Len(stack) \/ j = Len(stack) + 1
      BY <1>2, <1>6
    <3> QED
      BY <1>2, <1>7, <3>1, <3>2, <3>3
  <2> QED
    BY <2>1, <2>2 DEF NeverReentered
<1>10. RootFrame'
  BY <1>1, <1>2, <1>3, <1>6, <1>7 DEF StackOK, RootFrame, Top
<1> QED
  BY <1>1, <1>6, <1>9, <1>10, SameFrames DEF StackOK, Enter

-----------------------------------------------------------------------------
(* Where a node may lead: to nodes of the graph.                           *)
LEMMA TargetsAreNodes ==
    ASSUME StackOK
    PROVE  /\ StartNodes(graph) \subseteq Nodes
           /\ \A n, result, chosen : Follow(n, result, chosen) \subseteq Nodes
           /\ \A n : Body(n) \subseteq Nodes /\ Continuation(n) \subseteq Nodes
<1>1. ValidGraph(graph)
  BY GraphAssumption DEF StackOK
<1>2. \A e \in graph.edges : e.target \in Nodes
  BY <1>1 DEF ValidGraph, Nodes
<1>3. StartNodes(graph) \subseteq Nodes
  BY DEF StartNodes, Nodes
<1>4. \A n, kinds : Targets(n, kinds) \subseteq Nodes
  BY <1>2 DEF Targets
<1>5. \A n, result, chosen : Follow(n, result, chosen) \subseteq Nodes
  BY <1>2 DEF Follow
<1> QED
  BY <1>2, <1>3, <1>4, <1>5 DEF Body, Continuation

(* A frame of the same node whose list of calls is a set of nodes.         *)
LEMMA FrameGoesOn ==
    ASSUME StackOK, stack # << >>,
           NEW pc \in {"attempt", "body", "iterate", "loop", "next"},
           NEW todo \in SUBSET Nodes, NEW item \in Nat, NEW before \in SUBSET Nodes
    PROVE  /\ [Top EXCEPT !.pc = pc, !.todo = todo] \in FrameType(graph)
           /\ [Top EXCEPT !.pc = pc, !.todo = todo].node = Top.node
           /\ [Top EXCEPT !.pc = pc] \in FrameType(graph)
           /\ [Top EXCEPT !.pc = pc].node = Top.node
           /\ [Top EXCEPT !.pc = pc, !.item = item, !.before = before] \in FrameType(graph)
           /\ [Top EXCEPT !.pc = pc, !.item = item, !.before = before].node = Top.node
           /\ [Top EXCEPT !.pc = pc, !.item = item, !.before = before, !.todo = todo]
                 \in FrameType(graph)
           /\ [Top EXCEPT !.pc = pc, !.item = item, !.before = before, !.todo = todo].node
                 = Top.node
<1>1. Top \in FrameType(graph)
  BY StackFacts
<1> QED
  BY <1>1 DEF FrameType, Nodes

LEMMA InitInv == Init => IInv
<1> SUFFICES ASSUME Init PROVE IInv
  OBVIOUS
<1>1. RestOK
  BY DEF Init, RestOK, Nodes, NodeStatuses
<1> DEFINE f == [Frame(Root) EXCEPT !.pc = "next", !.todo = StartNodes(graph)]
<1>2. f \in FrameType(graph) /\ f.node = Root /\ f.pc = "next"
  BY DEF Frame, FrameType, StartNodes
<1>3. stack = <<f>> /\ graph \in Graphs /\ active = {}
  BY DEF Init
<1> HIDE DEF f
<1>4. stack \in Seq(FrameType(graph)) /\ Len(stack) = 1 /\ stack[1] = f
  BY <1>2, <1>3
<1>5. StackOK
  BY <1>2, <1>3, <1>4 DEF StackOK, NeverReentered, RootFrame
<1> QED
  BY <1>1, <1>5 DEF IInv

-----------------------------------------------------------------------------
LEMMA StepInv == IInv /\ [Next]_vars => IInv'
<1> SUFFICES ASSUME IInv, [Next]_vars PROVE IInv'
  OBVIOUS
<1>0. StackOK /\ RestOK
  BY DEF IInv
<1>a. ASSUME stack # << >>
      PROVE  /\ Len(stack) \in Nat /\ Len(stack) >= 1
             /\ Top \in FrameType(graph)
             /\ Top.node = Root <=> Len(stack) = 1
             /\ Top.node # Root => Top.node \in Nodes
             /\ Top.pc # "next" => Top.node # Root
             /\ Top.item \in Nat /\ Top.before \subseteq Nodes /\ Top.todo \subseteq Nodes
  BY <1>0, <1>a, StackFacts, NodeFrames DEF FrameType, Nodes
<1>1. ASSUME NEW n \in Nodes, CallInterrupted(n) PROVE IInv'
  <2>1. StackOK'
    BY <1>0, <1>1, SameKeeps DEF CallInterrupted
  <2>2. RestOK'
    BY <1>0, <1>1 DEF RestOK, Nodes, CallInterrupted
  <2> QED
    BY <2>1, <2>2 DEF IInv
<1>2. ASSUME NEW n \in Nodes, CallFails(n) PROVE IInv'
  <2>1. StackOK'
    BY <1>0, <1>2, SameKeeps DEF CallFails
  <2>2. RestOK'
    BY <1>0, <1>2 DEF RestOK, Nodes, CallFails
  <2> QED
    BY <2>1, <2>2 DEF IInv
<1>3. ASSUME NEW n \in Nodes, CallReturnsAtOnce(n) PROVE IInv'
  <2>1. stack # << >> /\ Replace(Called(n)) /\ UNCHANGED <<graph, active>>
        /\ Top.pc \in {"next", "loop"}
    BY <1>3 DEF CallReturnsAtOnce, Calls, Running
  <2>2. Called(n) \in FrameType(graph) /\ Called(n).node = Top.node /\ Called(n).pc = Top.pc
    BY <1>a, <2>1 DEF Called, FrameType
  <2>3. Len(stack) = 1 => Called(n).pc = "next"
    BY <1>a, <2>1, <2>2
  <2>7. StackOK'
    BY <1>0, <2>1, <2>2, <2>3, ReplaceKeeps
  <2>8. RestOK'
    BY <1>0, <1>3 DEF RestOK, Nodes, NodeStatuses, Settled, CallReturnsAtOnce
  <2> QED
    BY <2>7, <2>8 DEF IInv
<1>4. ASSUME NEW n \in Nodes, Enter(n) PROVE IInv'
  <2>7. StackOK'
    BY <1>0, <1>4, EnterKeeps
  <2>8. RestOK'
    <3>1. Resumed(n) \in SUBSET (Nodes \X Nat)
      BY DEF Resumed
    <3>2. /\ served' = [served EXCEPT ![n] = Resumed(n)]
          /\ UNCHANGED <<graph, status, attempts, failure, execStatus,
                         returned, cancelled, expired>>
          /\ executions' = executions + 1
      BY <1>4 DEF Enter
    <3> QED
      BY <1>0, <3>1, <3>2 DEF RestOK, Nodes, NodeStatuses, Settled
  <2> QED
    BY <2>7, <2>8 DEF IInv
<1>5. CASE StartAttempt
  <2>1. stack # << >> /\ Top.pc = "attempt" /\ Top.node \in Nodes /\ Top.node # Root
        /\ UNCHANGED <<graph, executions, returned, cancelled>>
    BY <1>a, <1>5 DEF StartAttempt, Running
  <2>2. CASE ContextDone(Len(stack))
    <3>1. /\ stack' = Below /\ active' = active \ {Top.node}
          /\ failure' = "interrupt"
          /\ UNCHANGED <<status, attempts, execStatus, expired, served>>
      BY <1>5, <2>2 DEF StartAttempt
    <3>2. StackOK'
      BY <1>0, <2>1, <3>1, PopKeeps
    <3>3. RestOK'
      BY <1>0, <2>1, <3>1 DEF RestOK, Nodes
    <3> QED
      BY <3>2, <3>3 DEF IInv
  <2>3. CASE ~ContextDone(Len(stack))
    <3>1. /\ status' = [status EXCEPT ![Top.node] = "running"]
          /\ attempts' = [attempts EXCEPT ![Top.node] = IF @ = 0 THEN 1 ELSE @]
          /\ execStatus' = "running"
          /\ expired' = expired \ {Top.node}
          /\ UNCHANGED <<active, failure>>
      BY <1>5, <2>3 DEF StartAttempt
    <3>2. \/ Replace([Top EXCEPT !.pc = "iterate", !.item = 0, !.before = Nodes])
          \/ Replace([Top EXCEPT !.pc = "body"])
      BY <1>5, <2>3 DEF StartAttempt
    <3>3. StackOK'
      <4>1. Len(stack) # 1
        BY <1>a, <2>1
      <4>2. CASE Replace([Top EXCEPT !.pc = "iterate", !.item = 0, !.before = Nodes])
        <5> DEFINE f == [Top EXCEPT !.pc = "iterate", !.item = 0, !.before = Nodes]
        <5>1. f \in FrameType(graph) /\ f.node = Top.node
          <6>1. Top \in FrameType(graph)
            BY <1>0, <2>1, StackFacts
          <6> QED
            BY <6>1 DEF FrameType, Nodes
        <5> HIDE DEF f
        <5>2. Replace(f)
          BY <4>2 DEF f
        <5> QED
          BY <1>0, <2>1, <3>1, <4>1, <5>1, <5>2, ReplaceKeeps
      <4>3. CASE Replace([Top EXCEPT !.pc = "body"])
        BY <1>0, <2>1, <3>1, <4>1, <4>3, FrameGoesOn, ReplaceKeeps
      <4> QED
        BY <3>2, <4>2, <4>3
    <3>4. served' \in [Nodes -> SUBSET (Nodes \X Nat)]
      <4>1. Caller.item \in Nat
        <5>1. Len(stack) - 1 \in 1 .. Len(stack)
          <6>1. Len(stack) \in Nat /\ Len(stack) >= 1 /\ ~(Len(stack) = 1)
            BY <1>a, <2>1
          <6>2. ASSUME NEW k \in Nat, k >= 1, ~(k = 1) PROVE k - 1 \in 1 .. k
            BY <6>2
          <6> QED
            BY <6>1, <6>2
        <5>2. Caller \in FrameType(graph)
          BY <1>0, <2>1, <5>1, StackFacts DEF Caller
        <5> QED
          BY <5>2 DEF FrameType
      <4>2. \/ served' = served
            \/ served' = [served EXCEPT ![Caller.node] =
                              @ \union {<<Top.node, Caller.item>>}]
        BY <1>5, <2>3 DEF StartAttempt
      <4>3. served \in [Nodes -> SUBSET (Nodes \X Nat)]
        BY <1>0 DEF RestOK
      <4>4. <<Top.node, Caller.item>> \in Nodes \X Nat
        BY <2>1, <4>1
      <4> QED
        BY <4>2, <4>3, <4>4
    <3>5. RestOK'
      BY <1>0, <2>1, <3>1, <3>4 DEF RestOK, Nodes, NodeStatuses
    <3> QED
      BY <3>3, <3>5 DEF IInv
  <2> QED
    BY <2>2, <2>3
<1>6. CASE BodySucceeds
  <2>1. stack # << >> /\ UNCHANGED <<graph, active>>
    BY <1>6 DEF BodySucceeds, Running
  <2>2. ASSUME \E result \in Results(Top.node), chosen \in Chooses(Top.node) :
                Replace([Top EXCEPT !.pc = "next",
                                    !.todo = Follow(Top.node, result, chosen)])
        PROVE  StackOK'
    <3>1. PICK result, chosen :
             Replace([Top EXCEPT !.pc = "next",
                                 !.todo = Follow(Top.node, result, chosen)])
      BY <2>2
    <3>2. Follow(Top.node, result, chosen) \subseteq Nodes
      BY <1>0, TargetsAreNodes
    <3>3. [Top EXCEPT !.pc = "next", !.todo = Follow(Top.node, result, chosen)].pc = "next"
      BY <1>a, <2>1 DEF FrameType
    <3> QED
      BY <1>0, <2>1, <3>1, <3>2, <3>3, FrameGoesOn, ReplaceKeeps
  <2>3. ASSUME Replace([Top EXCEPT !.pc = "next"]) PROVE StackOK'
    <3>1. [Top EXCEPT !.pc = "next"].pc = "next"
      BY <1>a, <2>1 DEF FrameType
    <3> QED
      BY <1>0, <2>1, <2>3, <3>1, FrameGoesOn, ReplaceKeeps
  <2>7. StackOK'
    BY <1>6, <2>2, <2>3 DEF BodySucceeds
  <2>8. RestOK'
    BY <1>0, <1>6 DEF RestOK, Nodes, NodeStatuses, Settled, BodySucceeds
  <2> QED
    BY <2>7, <2>8 DEF IInv
<1>7. CASE BodyFails
  <2>1. StackOK'
    BY <1>0, <1>7, SameKeeps DEF BodyFails
  <2>2. failure' \in {"none", "error", "interrupt"}
    BY <1>7 DEF BodyFails, BodyErrors
  <2>3. RestOK'
    BY <1>0, <1>7, <2>2 DEF RestOK, Nodes, BodyFails
  <2> QED
    BY <2>1, <2>3 DEF IInv
<1>8. CASE BodyPanics
  <2>7. StackOK'
    BY <1>0, <1>8, EmptyKeeps DEF BodyPanics
  <2>8. RestOK'
    BY <1>0, <1>8 DEF RestOK, Nodes, NodeStatuses, Settled, BodyPanics
  <2> QED
    BY <2>7, <2>8 DEF IInv
<1>9. CASE LoopFails
  <2>1. StackOK'
    BY <1>0, <1>9, SameKeeps DEF LoopFails
  <2>2. RestOK'
    BY <1>0, <1>9 DEF RestOK, Nodes, LoopFails
  <2> QED
    BY <2>1, <2>2 DEF IInv
<1>10. CASE LoopIterates
  <2>1. stack # << >> /\ Top.pc = "iterate" /\ UNCHANGED <<graph, active>>
        /\ Replace([Top EXCEPT !.pc = "loop", !.item = @ + 1, !.before = Known,
                               !.todo = Body(Top.node)])
    BY <1>10 DEF LoopIterates, AtLoopHead, Running
  <2>2. Known \subseteq Nodes /\ Body(Top.node) \subseteq Nodes
    BY <1>0, TargetsAreNodes DEF Known
  <2>3. Top.item + 1 \in Nat /\ Len(stack) # 1
    BY <1>a, <2>1
  <2> DEFINE f == [Top EXCEPT !.pc = "loop", !.item = @ + 1, !.before = Known,
                              !.todo = Body(Top.node)]
  <2>4. f \in FrameType(graph) /\ f.node = Top.node
    BY ZenonT(60), <1>0, <2>1, <2>2, <2>3, FrameGoesOn
  <2>5. Replace(f)
    BY <2>1
  <2> HIDE DEF f
  <2>7. StackOK'
    BY <1>0, <2>1, <2>3, <2>4, <2>5, ReplaceKeeps
  <2>8. RestOK'
    BY <1>0, <1>10 DEF RestOK, Nodes, NodeStatuses, Settled, LoopIterates
  <2> QED
    BY <2>7, <2>8 DEF IInv
<1>11. CASE LoopForgets
  <2>1. stack # << >> /\ Top.pc = "loop" /\ UNCHANGED <<graph, active>>
        /\ Replace([Top EXCEPT !.pc = "iterate"])
    BY <1>11 DEF LoopForgets, Running
  <2>2. Len(stack) # 1
    BY <1>a, <2>1
  <2>7. StackOK'
    BY <1>0, <2>1, <2>2, FrameGoesOn, ReplaceKeeps
  <2>8. RestOK'
    BY <1>0, <1>11 DEF RestOK, Nodes, NodeStatuses, Settled, LoopForgets
  <2> QED
    BY <2>7, <2>8 DEF IInv
<1>12. CASE LoopCompletes
  <2>1. stack # << >> /\ Top.pc = "iterate" /\ UNCHANGED <<graph, active>>
        /\ Replace([Top EXCEPT !.pc = "next", !.todo = Continuation(Top.node)])
    BY <1>12 DEF LoopCompletes, AtLoopHead, Running
  <2>2. Continuation(Top.node) \subseteq Nodes /\ Len(stack) # 1
    BY <1>0, <1>a, <2>1, TargetsAreNodes
  <2>7. StackOK'
    BY <1>0, <2>1, <2>2, FrameGoesOn, ReplaceKeeps
  <2>8. RestOK'
    BY <1>0, <1>12 DEF RestOK, Nodes, NodeStatuses, Settled, LoopCompletes
  <2> QED
    BY <2>7, <2>8 DEF IInv
<1>13. CASE NodeReturns
  <2>7. StackOK'
    BY <1>0, <1>13, PopKeeps DEF NodeReturns, Running
  <2>8. RestOK'
    BY <1>0, <1>13 DEF RestOK, Nodes, NodeStatuses, Settled, NodeReturns
  <2> QED
    BY <2>7, <2>8 DEF IInv
<1>14. CASE ExecutionReturns
  <2>7. StackOK'
    BY <1>0, <1>14, EmptyKeeps DEF ExecutionReturns
  <2>8. RestOK'
    BY <1>0, <1>14 DEF RestOK, Nodes, NodeStatuses, Settled, ExecutionReturns
  <2> QED
    BY <2>7, <2>8 DEF IInv
<1>15. CASE PassOn
  <2>7. StackOK'
    BY <1>0, <1>15, PopKeeps DEF PassOn, Failing
  <2>8. RestOK'
    BY <1>0, <1>15 DEF RestOK, Nodes, NodeStatuses, Settled, PassOn
  <2> QED
    BY <2>7, <2>8 DEF IInv
<1>16. CASE Retry
  <2>1. stack # << >> /\ Top.pc # "next" /\ UNCHANGED <<graph, active>>
        /\ Replace([Top EXCEPT !.pc = "attempt", !.todo = {}])
    BY <1>16 DEF Retry, Handles, Failing, AtBody
  <2>2. Len(stack) # 1
    BY <1>a, <2>1
  <2>7. StackOK'
    BY <1>0, <2>1, <2>2, FrameGoesOn, ReplaceKeeps
  <2>3. attempts' \in [Nodes -> Nat]
    <3>1. attempts \in [Nodes -> Nat]
      BY <1>0 DEF RestOK
    <3>2. Top.node \in Nodes
      BY <1>a, <2>1
    <3>3. attempts[Top.node] + 1 \in Nat
      BY <3>1, <3>2
    <3> QED
      BY <1>16, <3>1, <3>3 DEF Retry
  <2>8. RestOK'
    BY <1>0, <1>16, <2>3 DEF RestOK, Nodes, NodeStatuses, Settled, Retry
  <2> QED
    BY <2>7, <2>8 DEF IInv
<1>17. CASE Skip
  <2>1. stack # << >> /\ Top.pc # "next" /\ UNCHANGED <<graph, active>>
    BY <1>17 DEF Skip, GivesUp, Handles, Failing, AtBody
  <2>2. Top.node \in Nodes /\ Len(stack) # 1
    BY <1>a, <2>1
  <2>3. ASSUME NEW todo \in SUBSET Nodes,
               Replace([Top EXCEPT !.pc = "next", !.todo = todo])
        PROVE  StackOK'
    BY <1>0, <2>1, <2>2, <2>3, FrameGoesOn, ReplaceKeeps
  <2>4. ASSUME Replace([Top EXCEPT !.pc = "next"]) PROVE StackOK'
    BY <1>0, <2>1, <2>2, <2>4, FrameGoesOn, ReplaceKeeps
  <2>5. \A chosen : Follow(Top.node, FALSE, chosen) \in SUBSET Nodes
    BY <1>0, <2>2, TargetsAreNodes
  <2>6. ASSUME graph.gotoNode[Top.node] \in Nodes,
               Replace([Top EXCEPT !.pc = "next", !.todo = {graph.gotoNode[Top.node]}])
        PROVE  StackOK'
    <3>1. PICK todo \in SUBSET Nodes : todo = {graph.gotoNode[Top.node]}
      BY <2>6
    <3> QED
      BY <2>3, <2>6, <3>1
  <2>7. StackOK'
    BY <1>17, <2>3, <2>4, <2>5, <2>6 DEF Skip
  <2>8. RestOK'
    BY <1>0, <1>17 DEF RestOK, Nodes, NodeStatuses, Settled, Skip
  <2> QED
    BY <2>7, <2>8 DEF IInv
<1>18. CASE Fail
  <2>1. stack # << >> /\ Top.pc # "next"
    BY <1>18 DEF Fail, GivesUp, Handles, Failing, AtBody
  <2>2. Top.node # Root
    BY <1>a, <2>1
  <2>7. StackOK'
    BY <1>0, <1>18, <2>1, <2>2, PopKeeps DEF Fail
  <2>8. RestOK'
    BY <1>0, <1>18 DEF RestOK, Nodes, NodeStatuses, Settled, Fail
  <2> QED
    BY <2>7, <2>8 DEF IInv
<1>19. CASE ExecutionFails
  <2>7. StackOK'
    BY <1>0, <1>19, EmptyKeeps DEF ExecutionFails
  <2>8. RestOK'
    BY <1>0, <1>19 DEF RestOK, Nodes, NodeStatuses, Settled, ExecutionFails
  <2> QED
    BY <2>7, <2>8 DEF IInv
<1>20. CASE Cancel
  <2>1. StackOK'
    BY <1>0, <1>20, SameKeeps DEF Cancel
  <2>2. RestOK'
    BY <1>0, <1>20 DEF RestOK, Nodes, Cancel
  <2> QED
    BY <2>1, <2>2 DEF IInv
<1>21. CASE Expire
  <2>1. StackOK'
    BY <1>0, <1>21, SameKeeps DEF Expire
  <2>2. PICK j \in 1 .. Len(stack) :
            /\ stack[j].node \in graph.timed \ expired
            /\ expired' = expired \union {stack[j].node}
    BY <1>21 DEF Expire
  <2>3. graph.timed \subseteq Nodes
    BY <1>0, GraphAssumption DEF StackOK, ValidGraph, Nodes
  <2>4. RestOK'
    BY <1>0, <1>21, <2>2, <2>3 DEF RestOK, Nodes, Expire
  <2> QED
    BY <2>1, <2>4 DEF IInv
<1>22. CASE UNCHANGED vars
  <2>1. StackOK'
    BY <1>0, <1>22, SameKeeps DEF vars
  <2>2. RestOK'
    BY <1>0, <1>22 DEF RestOK, Nodes, vars
  <2> QED
    BY <2>1, <2>2 DEF IInv
<1> QED
  BY <1>1, <1>2, <1>3, <1>4, <1>5, <1>6, <1>7, <1>8, <1>9, <1>10, <1>11, <1>12, <1>13, <1>14, <1>15, <1>16, <1>17, <1>18, <1>19, <1>20, <1>21, <1>22
  DEF Next, Execute, Call, Finished

THEOREM Invariance == Spec => []IInv
<1>1. Init => IInv
  BY InitInv
<1>2. IInv /\ [Next]_vars => IInv'
  BY StepInv
<1> QED
  BY <1>1, <1>2, PTL DEF Spec

-----------------------------------------------------------------------------
(* executeNode never runs below itself for the same node, on any graph     *)
(* that Graph.Validate accepts: the check of run.active and its deferred   *)
(* deletion bound the recursion whatever cycles, gotos, retries and loops  *)
(* the graph has.                                                          *)
THEOREM RecursionBounded == Spec => []NeverReentered
<1>1. IInv => NeverReentered
  BY DEF IInv, StackOK
<1> QED
  BY <1>1, Invariance, PTL

(* Every variable of an execution keeps its type.                          *)
THEOREM ExecutionTypes == Spec => []TypeOK
<1>1. IInv => TypeOK
  BY DEF IInv, StackOK, RestOK, TypeOK
<1> QED
  BY <1>1, Invariance, PTL

-----------------------------------------------------------------------------
(* Joins.  JoinStandsOnParents speaks of joins that are completed; what is *)
(* preserved is that every join with a node state stands on settled        *)
(* parents.  The only step that takes a settled state away is LoopForgets, *)
(* so the invariant follows the sets of states that the loops on the stack *)
(* will keep.                                                              *)

(* A join whose parents are all settled, and sets of nodes that hold no    *)
(* join without its parents.                                               *)
Standing(n) == \A p \in Parents(n) : status[p] \in Settled

Closed(S) ==
    \A n \in Nodes : graph.type[n] = "join" /\ n \in S => Parents(n) \subseteq S

(* What is known of a call on the stack.  It has a node state from its     *)
(* first attempt on and is not settled before its body is over; a join was *)
(* ready when it was called; a loop keeps the states of the calls below.   *)
FrameOK(j) ==
    /\ j < Len(stack) => stack[j].pc \in {"next", "loop"}
    /\ stack[j].pc # "attempt" => status[stack[j].node] # "none"
    /\ stack[j].pc # "next" => status[stack[j].node] \notin Settled
    /\ graph.type[stack[j].node] = "join" => Standing(stack[j].node)
    /\ stack[j].pc = "loop" => /\ \A i \in 2 .. j : stack[i].node \in stack[j].before
                               /\ Closed(stack[j].before)

KnownJoinsStand ==
    \A n \in Nodes : graph.type[n] = "join" /\ status[n] # "none" => Standing(n)

FramesOK == \A j \in 2 .. Len(stack) : FrameOK(j)

JoinInv == KnownJoinsStand /\ FramesOK

JoinsOK == IInv /\ JoinInv

LEMMA InitJoin == Init => JoinInv
<1> SUFFICES ASSUME Init PROVE JoinInv
  OBVIOUS
<1>1. \A n \in Nodes : status[n] = "none"
  BY DEF Init, Nodes
<1>2. Len(stack) = 1
  BY DEF Init
<1> QED
  BY <1>1, <1>2 DEF JoinInv, KnownJoinsStand, FramesOK

(* The last index of a stack with a call on it, and those below.           *)
LEMMA LastIndex ==
    ASSUME NEW k \in Nat, k >= 1
    PROVE  /\ k # 1 <=> k >= 2
           /\ k # 1 => k \in 2 .. k /\ k \in 1 .. k
           /\ \A j \in 2 .. k : j \in 2 .. k - 1 \/ j = k
           /\ \A j \in 2 .. k - 1 : /\ j \in 2 .. k /\ j \in 1 .. k /\ j # k /\ j < k
                                    /\ j \in 1 .. k - 1
                                    /\ \A i \in 2 .. j : i \in 1 .. k - 1
OBVIOUS

(* The stack after the top frame has been replaced.                        *)
LEMMA ReplacedStack ==
    ASSUME StackOK, stack # << >>, NEW f, Replace(f)
    PROVE  /\ Len(stack') = Len(stack) /\ Len(stack) \in Nat /\ Len(stack) >= 1
           /\ \A j \in 1 .. Len(stack) - 1 : stack'[j] = stack[j]
           /\ stack'[Len(stack)] = f
<1>1. /\ Len(stack) \in Nat /\ Len(stack) >= 1
      /\ Below \in Seq(FrameType(graph)) /\ Len(Below) = Len(stack) - 1
      /\ \A j \in 1 .. Len(stack) - 1 : Below[j] = stack[j]
  BY StackFacts
<1>2. stack' = Append(Below, f)
  BY DEF Replace
<1> QED
  BY <1>1, <1>2

(* A change of the top node's state before its body is over takes nothing  *)
(* from a join, and the top node is a join only if it may run.             *)
LEMMA TopStatusKeeps ==
    ASSUME JoinsOK, stack # << >>, Top.node \in Nodes, NEW s,
           status' = [status EXCEPT ![Top.node] = s], Top.pc # "next",
           UNCHANGED graph
    PROVE  /\ KnownJoinsStand'
           /\ \A n \in Nodes : Standing(n) => Standing(n)'
           /\ \A j \in 2 .. Len(stack) - 1 : status'[stack[j].node] = status[stack[j].node]
           /\ status'[Top.node] = s
<1>0. /\ Len(stack) \in Nat /\ Len(stack) >= 1 /\ StackOK
      /\ status \in [Nodes -> NodeStatuses]
  BY StackFacts DEF JoinsOK, IInv, RestOK
<1>1. Top.node # Root
  BY <1>0, NodeFrames
<1>2. Len(stack) \in 2 .. Len(stack)
  <2>1. Len(stack) # 1
    BY <1>0, <1>1, NodeFrames
  <2> QED
    BY <1>0, <2>1, LastIndex
<1>3. FrameOK(Len(stack))
  BY <1>2 DEF JoinsOK, JoinInv, FramesOK
<1>4. status[Top.node] \notin Settled
  BY <1>3 DEF FrameOK, Top
<1>5. \A n \in Nodes : status'[n] = IF n = Top.node THEN s ELSE status[n]
  BY <1>0
<1>6. \A n : Parents(n) \subseteq Nodes /\ Parents(n)' = Parents(n)
  <2>1. \A e \in graph.edges : e.source \in Nodes
    BY <1>0, GraphAssumption DEF StackOK, ValidGraph, Nodes
  <2> QED
    BY <2>1 DEF Parents
<1>7. ASSUME NEW n \in Nodes, Standing(n) PROVE Standing(n)'
  BY <1>4, <1>5, <1>6, <1>7 DEF Standing
<1>8. KnownJoinsStand'
  <2> SUFFICES ASSUME NEW n \in Nodes, graph.type[n] = "join", status'[n] # "none"
               PROVE  Standing(n)
    BY <1>7 DEF KnownJoinsStand, Nodes
  <2>1. CASE n = Top.node
    BY <1>3, <2>1 DEF FrameOK, Top
  <2>2. CASE n # Top.node
    BY <1>5, <2>2 DEF JoinsOK, JoinInv, KnownJoinsStand
  <2> QED
    BY <2>1, <2>2
<1>9. \A j \in 2 .. Len(stack) - 1 : status'[stack[j].node] = status[stack[j].node]
  <2>1. ASSUME NEW j \in 2 .. Len(stack) - 1
        PROVE  stack[j].node \in Nodes /\ stack[j].node # Top.node
    <3>1. j \in 2 .. Len(stack) /\ j \in 1 .. Len(stack) /\ Len(stack) \in 1 .. Len(stack)
          /\ j # Len(stack)
      BY <1>0, <2>1
    <3> QED
      BY <1>0, <3>1 DEF StackOK, NeverReentered, Top
  <2> QED
    BY <1>5, <2>1
<1> QED
  BY <1>5, <1>7, <1>8, <1>9

(* A frame that is not the top one, when the states of its node and of the *)
(* settled parents stay.                                                   *)
LEMMA LowerFrameKeeps ==
    ASSUME JoinsOK, NEW j \in 2 .. Len(stack) - 1,
           \A i \in 2 .. j : stack'[i] = stack[i],
           Len(stack') \in Nat,
           status'[stack[j].node] = status[stack[j].node],
           \A n \in Nodes : Standing(n) => Standing(n)',
           UNCHANGED graph
    PROVE  FrameOK(j)'
<1>0. Len(stack) \in Nat /\ StackOK
  BY DEF JoinsOK, IInv, StackOK
<1>1. j \in 2 .. Len(stack) /\ j < Len(stack) /\ stack'[j] = stack[j]
  BY <1>0
<1>2. FrameOK(j)
  BY <1>1 DEF JoinsOK, JoinInv, FramesOK
<1>3. stack[j].node \in Nodes
  BY <1>0, <1>1 DEF StackOK, NeverReentered
<1>4. \A S : Closed(S) => Closed(S)'
  BY DEF Closed, Nodes, Parents
<1> QED
  BY <1>1, <1>2, <1>3, <1>4 DEF FrameOK

(* The top frame goes on with the states as they were.                     *)
LEMMA GoOnJoins ==
    ASSUME JoinsOK, stack # << >>, NEW f, Replace(f), f.node = Top.node,
           UNCHANGED graph,
           \/ status' = status
           \/ \E s : status' = [status EXCEPT ![Top.node] = s] /\ Top.pc # "next",
           Top.node # Root =>
              /\ f.pc # "attempt" => status'[Top.node] # "none"
              /\ f.pc # "next" => status'[Top.node] \notin Settled
              /\ f.pc = "loop" => /\ \A i \in 2 .. Len(stack) : stack[i].node \in f.before
                                  /\ Closed(f.before)
    PROVE  JoinInv'
<1>0. StackOK /\ Len(stack) \in Nat /\ Len(stack) >= 1
  BY StackFacts DEF JoinsOK, IInv
<1>1. /\ Len(stack') = Len(stack)
      /\ \A j \in 1 .. Len(stack) - 1 : stack'[j] = stack[j]
      /\ stack'[Len(stack)] = f
  BY <1>0, ReplacedStack
<1>2. Top.pc # "next" => Top.node \in Nodes
  BY <1>0, NodeFrames
<1>3. \A n : Parents(n)' = Parents(n)
  BY DEF Parents
<1>4. /\ KnownJoinsStand'
      /\ \A n \in Nodes : Standing(n) => Standing(n)'
      /\ \A j \in 2 .. Len(stack) - 1 : status'[stack[j].node] = status[stack[j].node]
  <2>1. CASE status' = status
    BY <1>3, <2>1 DEF JoinsOK, JoinInv, KnownJoinsStand, Standing, Nodes
  <2>2. CASE \E s : status' = [status EXCEPT ![Top.node] = s] /\ Top.pc # "next"
    BY <1>2, <2>2, TopStatusKeeps
  <2> QED
    BY <2>1, <2>2
<1>5. ASSUME NEW j \in 2 .. Len(stack) - 1 PROVE FrameOK(j)'
  <2>1. \A i \in 2 .. j : i \in 1 .. Len(stack) - 1
    BY <1>0, <1>5
  <2> QED
    BY <1>0, <1>1, <1>4, <2>1, LowerFrameKeeps
<1>6. ASSUME NEW k \in Nat, k = Len(stack), k >= 2 PROVE FrameOK(k)'
  <2>1. k \in 2 .. k /\ k # 1
    BY <1>6
  <2>2. FrameOK(k) /\ Top.node \in Nodes /\ Top.node # Root
    BY <1>0, <1>6, <2>1, NodeFrames DEF JoinsOK, JoinInv, FramesOK
  <2>3. ASSUME NEW n \in Nodes, n = Top.node, graph.type[n] = "join" PROVE Standing(n)'
    BY <1>4, <1>6, <2>2, <2>3 DEF FrameOK, Top
  <2>4. ASSUME NEW S PROVE Closed(S)' <=> Closed(S)
    BY <1>3 DEF Closed, Nodes
  <2>5. ASSUME NEW i \in 2 .. k PROVE stack'[i].node = stack[i].node
    <3>1. i \in 1 .. k - 1 \/ i = k
      BY <1>6, <2>5
    <3> QED
      BY <1>1, <1>6, <3>1 DEF Top
  <2>6. PICK n \in Nodes : n = Top.node
    BY <2>2
  <2>7. stack'[k] = f /\ f.node = n /\ Len(stack') = k
    BY <1>1, <1>6, <2>6
  <2>8. graph'.type[n] = "join" => Standing(n)'
    BY <2>3, <2>6
  <2>9. f.pc = "loop" => Closed(f.before)'
    BY <2>2, <2>4
  <2>10. f.pc = "loop" => \A i \in 2 .. k : stack'[i].node \in f.before
    BY <1>6, <2>2, <2>5
  <2> QED
    BY <1>6, <2>2, <2>6, <2>7, <2>8, <2>9, <2>10 DEF FrameOK
<1>7. ASSUME NEW j \in 2 .. Len(stack') PROVE FrameOK(j)'
  <2>1. j \in Nat /\ (j \in 2 .. Len(stack) - 1 \/ (j = Len(stack) /\ j >= 2))
    BY <1>0, <1>1, <1>7
  <2> QED
    BY <1>5, <1>6, <2>1
<1> QED
  BY <1>4, <1>7 DEF JoinInv, FramesOK

(* A call returns, perhaps with a last change of its node's state.         *)
LEMMA PopJoins ==
    ASSUME JoinsOK, stack # << >>, Top.node # Root, stack' = Below,
           UNCHANGED graph,
           \/ status' = status
           \/ \E s : status' = [status EXCEPT ![Top.node] = s] /\ Top.pc # "next"
    PROVE  JoinInv'
<1>0. /\ StackOK /\ Len(stack) \in Nat /\ Len(stack) >= 2
      /\ Len(Below) = Len(stack) - 1
      /\ \A j \in 1 .. Len(stack) - 1 : Below[j] = stack[j]
      /\ Top.node \in Nodes
  BY StackFacts, NodeFrames DEF JoinsOK, IInv
<1>3. \A n : Parents(n)' = Parents(n)
  BY DEF Parents
<1>4. /\ KnownJoinsStand'
      /\ \A n \in Nodes : Standing(n) => Standing(n)'
      /\ \A j \in 2 .. Len(stack) - 1 : status'[stack[j].node] = status[stack[j].node]
  <2>1. CASE status' = status
    BY <1>3, <2>1 DEF JoinsOK, JoinInv, KnownJoinsStand, Standing, Nodes
  <2>2. CASE \E s : status' = [status EXCEPT ![Top.node] = s] /\ Top.pc # "next"
    BY <1>0, <2>2, TopStatusKeeps
  <2> QED
    BY <2>1, <2>2
<1>5. ASSUME NEW j \in 2 .. Len(stack') PROVE FrameOK(j)'
  <2>1. /\ j \in 2 .. Len(stack) - 1 /\ Len(stack') \in Nat
        /\ \A i \in 2 .. j : i \in 1 .. Len(stack) - 1
    BY <1>0, <1>5
  <2> QED
    BY <1>0, <1>4, <2>1, LowerFrameKeeps
<1> QED
  BY <1>4, <1>5 DEF JoinInv, FramesOK

(* The stack is dropped, or left alone, with the states as they were.      *)
LEMMA SameStatesJoins ==
    ASSUME JoinsOK, UNCHANGED <<graph, status>>, stack' = << >> \/ stack' = stack
    PROVE  JoinInv'
<1>1. \A n : Parents(n)' = Parents(n)
  BY DEF Parents
<1>2. KnownJoinsStand'
  BY <1>1 DEF JoinsOK, JoinInv, KnownJoinsStand, Standing, Nodes
<1>3. CASE stack' = << >>
  BY <1>2, <1>3 DEF JoinInv, FramesOK
<1>4. CASE stack' = stack
  BY <1>1, <1>2, <1>4 DEF JoinsOK, JoinInv, FramesOK, FrameOK, Standing, Closed, Nodes
<1> QED
  BY <1>3, <1>4

(* A node is entered: its caller is at a place from which calls are made,  *)
(* and if it is a join, its parents are ready.                             *)
LEMMA EnterJoins ==
    ASSUME JoinsOK, NEW n \in Nodes, Enter(n)
    PROVE  JoinInv'
<1>0. /\ StackOK /\ UNCHANGED <<graph, status>> /\ stack # << >>
      /\ Top.pc \in {"next", "loop"} /\ ~NothingToDo(n)
  BY DEF JoinsOK, IInv, Enter, Calls, Running
<1>1. PICK k \in Nat : k = Len(stack) /\ k >= 1
  BY <1>0, EnteredStack
<1>2. /\ Len(stack') = k + 1
      /\ \A j \in 1 .. k - 1 : stack'[j] = stack[j]
      /\ stack'[k].node = stack[k].node /\ stack'[k].pc = stack[k].pc
      /\ stack'[k].before = stack[k].before
      /\ stack'[k + 1].node = n /\ stack'[k + 1].pc = "attempt"
  BY <1>0, <1>1, EnteredStack DEF Top
<1>3. \A m : Parents(m)' = Parents(m)
  BY <1>0 DEF Parents
<1>4. ASSUME NEW m PROVE Standing(m)' <=> Standing(m)
  BY <1>0, <1>3 DEF Standing
<1>5. ASSUME NEW S PROVE Closed(S)' <=> Closed(S)
  BY <1>0, <1>3 DEF Closed, Nodes
<1>6. KnownJoinsStand'
  BY <1>0, <1>4 DEF JoinsOK, JoinInv, KnownJoinsStand, Nodes
<1>7. ASSUME NEW j \in 2 .. k PROVE FrameOK(j)'
  <2>1. FrameOK(j)
    BY <1>1 DEF JoinsOK, JoinInv, FramesOK
  <2>2. \A i \in 2 .. j : i \in 1 .. k - 1 \/ i = k
    BY <1>1
  <2>3. \A i \in 2 .. j : stack'[i].node = stack[i].node
    BY <1>2, <2>2
  <2>4. stack'[j].pc = stack[j].pc /\ stack'[j].before = stack[j].before
        /\ stack'[j].node = stack[j].node
    <3>1. j \in 1 .. k - 1 \/ j = k
      BY <1>1
    <3> QED
      BY <1>2, <3>1
  <2>5. stack[j].pc \in {"next", "loop"}
    <3>1. j < k \/ j = k
      BY <1>1
    <3> QED
      BY <1>0, <1>1, <2>1, <3>1 DEF FrameOK, Top
  <2>6. PICK m : m = stack[j].node
    OBVIOUS
  <2>7. PICK S : S = stack[j].before
    OBVIOUS
  <2>8. graph.type[m] = "join" => Standing(m)'
    BY <1>4, <2>1, <2>6 DEF FrameOK
  <2>9. stack[j].pc = "loop" => (\A i \in 2 .. j : stack[i].node \in S) /\ Closed(S)'
    BY <1>5, <2>1, <2>7 DEF FrameOK
  <2> QED
    BY <1>0, <2>1, <2>3, <2>4, <2>5, <2>6, <2>7, <2>8, <2>9 DEF FrameOK
<1>8. ASSUME NEW j \in Nat, j = k + 1 PROVE FrameOK(j)'
  <2>1. status'[n] \notin Settled /\ (graph'.type[n] = "join" => Standing(n)')
    BY <1>0, <1>4 DEF NothingToDo, JoinParentsReady, Standing
  <2>2. stack'[j].node = n /\ stack'[j].pc = "attempt" /\ Len(stack') = j
    BY <1>2, <1>8
  <2> QED
    BY <1>8, <2>1, <2>2 DEF FrameOK
<1>9. ASSUME NEW j \in 2 .. Len(stack') PROVE FrameOK(j)'
  <2>1. j \in Nat /\ (j \in 2 .. k \/ j = k + 1)
    BY <1>1, <1>2, <1>9
  <2> QED
    BY <1>7, <1>8, <2>1
<1> QED
  BY <1>6, <1>9 DEF JoinInv, FramesOK

(* An iteration is forgotten: whatever stands, stands within what is kept. *)
LEMMA ForgetJoins ==
    ASSUME JoinsOK, LoopForgets
    PROVE  JoinInv'
<1>0. /\ StackOK /\ UNCHANGED graph /\ stack # << >> /\ Top.pc = "loop"
      /\ Replace([Top EXCEPT !.pc = "iterate"])
      /\ \A n \in Nodes : status'[n] = IF n \in Top.before THEN status[n] ELSE "none"
  BY DEF JoinsOK, IInv, LoopForgets, Running
<1>1. PICK k \in Nat : k = Len(stack) /\ k >= 1
  BY <1>0, ReplacedStack
<1>2. Top \in FrameType(graph) /\ k # 1
  BY <1>0, <1>1, StackFacts, NodeFrames
<1>3. k \in 2 .. k
  BY <1>1, <1>2
<1>4. /\ \A i \in 2 .. k : stack[i].node \in Top.before
      /\ Closed(Top.before) /\ FrameOK(k)
  BY <1>0, <1>1, <1>3 DEF JoinsOK, JoinInv, FramesOK, FrameOK, Top
<1>5. \A n : Parents(n) \subseteq Nodes /\ Parents(n)' = Parents(n)
  <2>1. \A e \in graph.edges : e.source \in Nodes
    BY <1>0, GraphAssumption DEF StackOK, ValidGraph, Nodes
  <2> QED
    BY <1>0, <2>1 DEF Parents
<1>6. ASSUME NEW n \in Nodes, graph.type[n] = "join", n \in Top.before, Standing(n)
      PROVE  Standing(n)'
  BY <1>0, <1>4, <1>5, <1>6 DEF Standing, Closed
<1>7. KnownJoinsStand'
  BY <1>0, <1>6 DEF JoinsOK, JoinInv, KnownJoinsStand, Nodes
<1>8. /\ Len(stack') = k
      /\ \A j \in 1 .. k - 1 : stack'[j] = stack[j]
      /\ stack'[k].node = stack[k].node /\ stack'[k].pc = "iterate"
  BY <1>0, <1>1, <1>2, ReplacedStack DEF Top, FrameType
<1>9. ASSUME NEW S PROVE Closed(S)' <=> Closed(S)
  BY <1>0, <1>5 DEF Closed, Nodes
<1>10. ASSUME NEW j \in 2 .. k PROVE FrameOK(j)'
  <2>1. FrameOK(j)
    BY <1>1 DEF JoinsOK, JoinInv, FramesOK
  <2>2. \A i \in 2 .. j : i \in 1 .. k - 1 \/ i = k
    BY <1>1
  <2>3. \A i \in 2 .. j : stack'[i].node = stack[i].node
    BY <1>8, <2>2
  <2>4. stack[j].node \in Nodes /\ stack[j].node \in Top.before
    BY <1>0, <1>1, <1>4 DEF StackOK, NeverReentered
  <2>5. PICK m \in Nodes : m = stack[j].node /\ m \in Top.before
    BY <2>4
  <2>6. PICK S : S = stack[j].before
    OBVIOUS
  <2>7. status'[m] = status[m]
    BY <1>0, <2>5
  <2>8. graph.type[m] = "join" => Standing(m)'
    BY <1>6, <2>1, <2>5 DEF FrameOK
  <2>9. stack[j].pc = "loop" => (\A i \in 2 .. j : stack[i].node \in S) /\ Closed(S)'
    BY <1>9, <2>1, <2>6 DEF FrameOK
  <2>10. stack'[j].node = m
    BY <2>3, <2>5
  <2>11. CASE j = k
    <3>1. stack[k].pc = "loop"
      BY <1>0, <1>1 DEF Top
    <3> QED
      BY <1>0, <1>1, <1>8, <2>1, <2>5, <2>7, <2>8, <2>10, <2>11, <3>1 DEF FrameOK
  <2>12. CASE j # k
    <3>1. stack'[j] = stack[j] /\ j < k
      BY <1>1, <1>8, <2>12
    <3> QED
      BY <1>0, <1>1, <1>8, <2>1, <2>3, <2>5, <2>6, <2>7, <2>8, <2>9, <3>1 DEF FrameOK
  <2> QED
    BY <2>11, <2>12
<1> QED
  BY <1>7, <1>8, <1>10 DEF JoinInv, FramesOK

(* What the invariant says of the top frame of a node.                     *)
LEMMA TopFrame ==
    ASSUME JoinsOK, stack # << >>, Top.node # Root
    PROVE  /\ Top.node \in Nodes
           /\ Top.pc # "attempt" => status[Top.node] # "none"
           /\ Top.pc # "next" => status[Top.node] \notin Settled
           /\ Top.pc = "loop" => /\ \A i \in 2 .. Len(stack) : stack[i].node \in Top.before
                                 /\ Closed(Top.before)
<1>1. PICK k \in Nat : k = Len(stack) /\ k >= 1
  BY StackFacts DEF JoinsOK, IInv
<1>2. k # 1 /\ Top.node \in Nodes
  BY <1>1, NodeFrames DEF JoinsOK, IInv
<1>3. k \in 2 .. k
  BY <1>1, <1>2
<1>4. FrameOK(k)
  BY <1>1, <1>3 DEF JoinsOK, JoinInv, FramesOK
<1> QED
  BY <1>1, <1>2, <1>4 DEF FrameOK, Top

(* At the head of a loop every call on the stack has a node state, and the *)
(* known nodes hold no join without its parents.                           *)
LEMMA KnownAtLoopHead ==
    ASSUME JoinsOK, stack # << >>, Top.pc = "iterate"
    PROVE  /\ \A i \in 2 .. Len(stack) : stack[i].node \in Known
           /\ Closed(Known)
<1>1. StackOK /\ Len(stack) \in Nat
  BY DEF JoinsOK, IInv, StackOK
<1>2. ASSUME NEW i \in 2 .. Len(stack) PROVE stack[i].node \in Known
  <2>1. FrameOK(i) /\ stack[i].node \in Nodes
    BY <1>1 DEF JoinsOK, JoinInv, FramesOK, StackOK, NeverReentered
  <2>2. i < Len(stack) \/ i = Len(stack)
    BY <1>1
  <2>3. stack[i].pc # "attempt"
    BY <2>1, <2>2 DEF FrameOK, Top
  <2> QED
    BY <2>1, <2>3 DEF FrameOK, Known
<1>3. ASSUME NEW n \in Nodes, graph.type[n] = "join", n \in Known
      PROVE  Parents(n) \subseteq Known
  <2>1. \A e \in graph.edges : e.source \in Nodes
    BY <1>1, GraphAssumption DEF StackOK, ValidGraph, Nodes
  <2>2. Parents(n) \subseteq Nodes
    BY <2>1 DEF Parents
  <2>3. Standing(n)
    BY <1>3 DEF JoinsOK, JoinInv, KnownJoinsStand, Known
  <2> QED
    BY <2>2, <2>3 DEF Standing, Known, Settled
<1> QED
  BY <1>2, <1>3 DEF Closed

(* The body of a node is over, its own state set to a settled one.         *)
LEMMA BodyOverJoins ==
    ASSUME JoinsOK, stack # << >>, Top.node # Root, Top.pc # "next",
           UNCHANGED graph, NEW s, s # "none",
           status' = [status EXCEPT ![Top.node] = s],
           \/ Replace([Top EXCEPT !.pc = "next"])
           \/ \E todo : Replace([Top EXCEPT !.pc = "next", !.todo = todo])
    PROVE  JoinInv'
<1>1. Top \in FrameType(graph) /\ status'[Top.node] = s
  BY StackFacts, TopFrame DEF JoinsOK, IInv, RestOK
<1>2. PICK f : Replace(f) /\ f.node = Top.node /\ f.pc = "next"
  <2>1. ASSUME NEW todo
        PROVE  [Top EXCEPT !.pc = "next", !.todo = todo].node = Top.node
               /\ [Top EXCEPT !.pc = "next", !.todo = todo].pc = "next"
    BY <1>1 DEF FrameType
  <2>2. [Top EXCEPT !.pc = "next"].node = Top.node /\ [Top EXCEPT !.pc = "next"].pc = "next"
    BY <1>1 DEF FrameType
  <2> QED
    BY <2>1, <2>2
<1> QED
  BY <1>1, <1>2, GoOnJoins

LEMMA StepJoin == JoinsOK /\ [Next]_vars => JoinInv'
<1> SUFFICES ASSUME JoinsOK, [Next]_vars PROVE JoinInv'
  OBVIOUS
<1>0. StackOK /\ status \in [Nodes -> NodeStatuses]
  BY DEF JoinsOK, IInv, RestOK
<1>a. ASSUME stack # << >>
      PROVE  Top \in FrameType(graph) /\ (Top.pc # "next" => Top.node # Root)
  BY <1>0, <1>a, StackFacts, NodeFrames
<1>1. ASSUME NEW n \in Nodes, CallInterrupted(n) PROVE JoinInv'
  BY <1>1, SameStatesJoins DEF CallInterrupted
<1>2. ASSUME NEW n \in Nodes, CallFails(n) PROVE JoinInv'
  BY <1>2, SameStatesJoins DEF CallFails
<1>3. ASSUME NEW n \in Nodes, CallReturnsAtOnce(n) PROVE JoinInv'
  <2>1. stack # << >> /\ Replace(Called(n)) /\ UNCHANGED <<graph, status>>
    BY <1>3 DEF CallReturnsAtOnce, Calls, Running
  <2>2. PICK f : f = Called(n)
    OBVIOUS
  <2>3. f.node = Top.node /\ f.pc = Top.pc /\ f.before = Top.before
    BY <1>a, <2>1, <2>2 DEF Called, FrameType
  <2>4. Replace(f)
    BY <2>1, <2>2
  <2>5. Top.node # Root =>
           /\ f.pc # "attempt" => status'[Top.node] # "none"
           /\ f.pc # "next" => status'[Top.node] \notin Settled
           /\ f.pc = "loop" => /\ \A i \in 2 .. Len(stack) : stack[i].node \in f.before
                               /\ Closed(f.before)
    BY <2>1, <2>3, TopFrame
  <2> QED
    BY <2>1, <2>3, <2>4, <2>5, GoOnJoins
<1>4. ASSUME NEW n \in Nodes, Enter(n) PROVE JoinInv'
  BY <1>4, EnterJoins
<1>5. CASE StartAttempt
  <2>1. stack # << >> /\ Top.pc = "attempt" /\ Top.node # Root /\ UNCHANGED graph
    BY <1>a, <1>5 DEF StartAttempt, Running
  <2>2. CASE ContextDone(Len(stack))
    <3>1. stack' = Below /\ status' = status
      BY <1>5, <2>2 DEF StartAttempt
    <3> QED
      BY <2>1, <3>1, PopJoins
  <2>3. CASE ~ContextDone(Len(stack))
    <3>1. /\ status' = [status EXCEPT ![Top.node] = "running"]
          /\ \/ Replace([Top EXCEPT !.pc = "iterate", !.item = 0, !.before = Nodes])
             \/ Replace([Top EXCEPT !.pc = "body"])
      BY <1>5, <2>3 DEF StartAttempt
    <3>2. PICK f : Replace(f) /\ f.node = Top.node /\ f.pc \in {"iterate", "body"}
      <4>1. /\ [Top EXCEPT !.pc = "iterate", !.item = 0, !.before = Nodes].node = Top.node
            /\ [Top EXCEPT !.pc = "iterate", !.item = 0, !.before = Nodes].pc = "iterate"
            /\ [Top EXCEPT !.pc = "body"].node = Top.node
            /\ [Top EXCEPT !.pc = "body"].pc = "body"
        BY <1>a, <2>1 DEF FrameType
      <4> QED
        BY <3>1, <4>1
    <3>3. status'[Top.node] = "running"
      BY <1>0, <2>1, <3>1, TopFrame
    <3>4. status'[Top.node] # "none" /\ status'[Top.node] \notin Settled
      BY <3>3 DEF Settled
    <3>5. Top.pc # "next" /\ f.pc # "loop"
      BY <2>1, <3>2
    <3> QED
      BY <2>1, <3>1, <3>2, <3>4, <3>5, GoOnJoins
  <2> QED
    BY <2>2, <2>3
<1>6. CASE BodySucceeds
  <2>1. /\ stack # << >> /\ Top.pc # "next" /\ Top.node # Root /\ UNCHANGED graph
        /\ status' = [status EXCEPT ![Top.node] = "completed"]
        /\ \/ Replace([Top EXCEPT !.pc = "next"])
           \/ \E todo : Replace([Top EXCEPT !.pc = "next", !.todo = todo])
    BY <1>a, <1>6 DEF BodySucceeds, Running
  <2> QED
    BY <2>1, BodyOverJoins
<1>7. CASE BodyFails
  BY <1>7, SameStatesJoins DEF BodyFails
<1>8. CASE BodyPanics
  BY <1>8, SameStatesJoins DEF BodyPanics
<1>9. CASE LoopFails
  BY <1>9, SameStatesJoins DEF LoopFails
<1>10. CASE LoopIterates
  <2>1. /\ stack # << >> /\ Top.pc = "iterate" /\ UNCHANGED <<graph, status>>
        /\ Replace([Top EXCEPT !.pc = "loop", !.item = @ + 1, !.before = Known,
                               !.todo = Body(Top.node)])
    BY <1>10 DEF LoopIterates, AtLoopHead, Running
  <2>2. PICK f : f = [Top EXCEPT !.pc = "loop", !.item = @ + 1, !.before = Known,
                                 !.todo = Body(Top.node)]
    OBVIOUS
  <2>3. f.node = Top.node /\ f.pc = "loop" /\ f.before = Known
    BY <1>a, <2>1, <2>2 DEF FrameType
  <2>4. Replace(f)
    BY <2>1, <2>2
  <2>5. status'[Top.node] # "none" /\ status'[Top.node] \notin Settled
    BY <1>a, <2>1, TopFrame
  <2>6. (\A i \in 2 .. Len(stack) : stack[i].node \in f.before) /\ Closed(f.before)
    BY <2>1, <2>3, KnownAtLoopHead
  <2> QED
    BY <2>1, <2>3, <2>4, <2>5, <2>6, GoOnJoins
<1>11. CASE LoopForgets
  BY <1>11, ForgetJoins
<1>12. CASE LoopCompletes
  <2>1. /\ stack # << >> /\ Top.pc # "next" /\ Top.node # Root /\ UNCHANGED graph
        /\ status' = [status EXCEPT ![Top.node] = "completed"]
        /\ \E todo : Replace([Top EXCEPT !.pc = "next", !.todo = todo])
    BY <1>a, <1>12 DEF LoopCompletes, AtLoopHead, Running
  <2> QED
    BY <2>1, BodyOverJoins
<1>13. CASE NodeReturns
  BY <1>13, PopJoins DEF NodeReturns, Running
<1>14. CASE ExecutionReturns
  BY <1>14, SameStatesJoins DEF ExecutionReturns
<1>15. CASE PassOn
  BY <1>15, PopJoins DEF PassOn, Failing
<1>16. CASE Retry
  <2>1. /\ stack # << >> /\ Top.pc # "next" /\ Top.node # Root /\ UNCHANGED graph
        /\ status' = [status EXCEPT ![Top.node] = "retrying"]
        /\ Replace([Top EXCEPT !.pc = "attempt", !.todo = {}])
    BY <1>a, <1>16 DEF Retry, Handles, Failing, AtBody
  <2>2. PICK f : Replace(f) /\ f.node = Top.node /\ f.pc = "attempt"
    <3>1. /\ [Top EXCEPT !.pc = "attempt", !.todo = {}].node = Top.node
          /\ [Top EXCEPT !.pc = "attempt", !.todo = {}].pc = "attempt"
      BY <1>a, <2>1 DEF FrameType
    <3> QED
      BY <2>1, <3>1
  <2>3. status'[Top.node] = "retrying"
    BY <1>0, <2>1, TopFrame
  <2>4. status'[Top.node] \notin Settled
    BY <2>3 DEF Settled
  <2> QED
    BY <2>1, <2>2, <2>4, GoOnJoins
<1>17. CASE Skip
  <2>1. /\ stack # << >> /\ Top.pc # "next" /\ Top.node # Root /\ UNCHANGED graph
        /\ status' = [status EXCEPT ![Top.node] = "skipped"]
        /\ \/ Replace([Top EXCEPT !.pc = "next"])
           \/ \E todo : Replace([Top EXCEPT !.pc = "next", !.todo = todo])
    BY <1>a, <1>17 DEF Skip, GivesUp, Handles, Failing, AtBody
  <2> QED
    BY <2>1, BodyOverJoins
<1>18. CASE Fail
  <2>1. /\ stack # << >> /\ Top.pc # "next" /\ Top.node # Root /\ UNCHANGED graph
        /\ status' = [status EXCEPT ![Top.node] = "failed"] /\ stack' = Below
    BY <1>a, <1>18 DEF Fail, GivesUp, Handles, Failing, AtBody
  <2> QED
    BY <2>1, PopJoins
<1>19. CASE ExecutionFails
  BY <1>19, SameStatesJoins DEF ExecutionFails
<1>20. CASE Cancel
  BY <1>20, SameStatesJoins DEF Cancel
<1>21. CASE Expire
  BY <1>21, SameStatesJoins DEF Expire
<1>22. CASE UNCHANGED vars
  BY <1>22, SameStatesJoins DEF vars
<1> QED
  BY <1>1, <1>2, <1>3, <1>4, <1>5, <1>6, <1>7, <1>8, <1>9, <1>10, <1>11, <1>12, <1>13, <1>14, <1>15, <1>16, <1>17, <1>18, <1>19, <1>20, <1>21, <1>22
  DEF Next, Execute, Call, Finished

(* The invariant of the joins: with that of the stack it is preserved.     *)
THEOREM JoinInvariance == Spec => []JoinsOK
<1>1. Init => JoinsOK
  BY InitInv, InitJoin DEF JoinsOK
<1>2. JoinsOK /\ [Next]_vars => JoinsOK'
  BY StepInv, StepJoin DEF JoinsOK
<1> QED
  BY <1>1, <1>2, PTL DEF Spec

(* A join that has completed keeps all its parents settled as long as its  *)
(* state is kept: executeNode looks at the parents once, when the join is  *)
(* called, and neither a retry, a goto nor the states a loop forgets after *)
(* an iteration takes one of them back and leaves the join.                *)
THEOREM JoinsStand == Spec => []JoinStandsOnParents
<1>1. JoinsOK => JoinStandsOnParents
  BY DEF JoinsOK, JoinInv, KnownJoinsStand, Standing, JoinStandsOnParents
<1> QED
  BY <1>1, JoinInvariance, PTL

=============================================================================
