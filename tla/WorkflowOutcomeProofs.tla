------------------------- MODULE WorkflowOutcomeProofs -------------------------
(***************************************************************************)
(* Proofs about what an execution of WorkflowRun has done when it is over, *)
(* for every set of valid graphs and every limit: a completion hides no    *)
(* failed node, the last parent of a join runs it, and a loop serves every *)
(* item.  The first two share one invariant, OutcomeInv: as long as no     *)
(* loop has absorbed a failure and no error is on its way up, every node   *)
(* state is settled or belongs to a call on the stack, and a join that is  *)
(* due has run, runs, or is still to be called.  LoopForgets takes states  *)
(* away, so the invariant says the same of what each loop will keep.       *)
(***************************************************************************)
EXTENDS WorkflowRunProofs

(* An error has left the call in which it arose.                           *)
Unwinding == stack # << >> /\ failure # "none" /\ Top.pc \in {"next", "loop"}

OnStack(k) == {stack[i].node : i \in 2 .. k}

(* One of the lowest k calls is still to call the node.                    *)
Pending(n, k) == \E i \in 1 .. k : stack[i].pc = "next" /\ n \in stack[i].todo

AbsorbedIn(S) == \E l \in S : Absorbs(l)

JoinDue(n, S) ==
    /\ graph.type[n] = "join"
    /\ Parents(n) # {}
    /\ \A p \in Parents(n) : p \in S /\ status[p] \in Settled /\ CallsItsJoin(p, n)

(* The states of S, with the lowest k calls under way.                     *)
Tidy(S, k) ==
    /\ \A n \in S : status[n] \in Settled \/ n \in OnStack(k)
    /\ \A n \in Nodes : JoinDue(n, S) =>
          \/ n \in S /\ status[n] \in Settled
          \/ n \in OnStack(k)
          \/ Pending(n, k)

Orderly(S, k) == AbsorbedIn(S) \/ Tidy(S, k)

StatesOK ==
    /\ stack # << >> => returned = "none"
    /\ \A n \in Nodes : status[n] = "none" <=> attempts[n] = 0

LoopFrame(j) ==
    /\ stack[j].pc \in {"iterate", "loop"} => graph.type[stack[j].node] = "loop"
    /\ stack[j].pc = "body" => graph.type[stack[j].node] # "loop"
    /\ stack[j].pc = "next" => status[stack[j].node] \in Settled
    /\ stack[j].pc = "loop" =>
          /\ stack[j].before \subseteq Known
          /\ \A i \in 2 .. j : stack[i].pc = "loop" => stack[i].before \subseteq stack[j].before
          /\ Orderly(stack[j].before, j)

LoopFrames == \A j \in 2 .. Len(stack) : LoopFrame(j)

OutcomeInv ==
    /\ StatesOK
    /\ LoopFrames
    /\ Unwinding \/ returned = "error" \/ Orderly(Known, Len(stack))

OutcomeOK == JoinsOK /\ OutcomeInv

LEMMA InitOutcome == Init => OutcomeInv
<1> SUFFICES ASSUME Init PROVE OutcomeInv
  OBVIOUS
<1>1. \A n \in Nodes : status[n] = "none" /\ attempts[n] = 0
  BY DEF Init, Nodes
<1>2. Len(stack) = 1 /\ returned = "none"
  BY DEF Init
<1>3. Known = {}
  BY <1>1 DEF Known
<1>4. Orderly(Known, 1)
  BY <1>3 DEF Orderly, Tidy, JoinDue
<1> QED
  BY <1>1, <1>2, <1>4 DEF OutcomeInv, StatesOK, LoopFrames

-----------------------------------------------------------------------------
(* What a step may do to the node states without disturbing the frames     *)
(* below the top one: change the state of the top node before its body is  *)
(* over, or forget what the loop at the top does not keep.                 *)
KeepsStates ==
    /\ \/ \A n \in Nodes : n # Top.node => status'[n] = status[n] /\ attempts'[n] = attempts[n]
       \/ /\ Top.pc = "loop"
          /\ \A n \in Top.before : status'[n] = status[n] /\ attempts'[n] = attempts[n]
    /\ \/ status'[Top.node] = status[Top.node] /\ attempts'[Top.node] = attempts[Top.node]
       \/ /\ Top.pc # "next" /\ status'[Top.node] # "none"
          /\ attempts'[Top.node] \in Nat /\ attempts'[Top.node] >= attempts[Top.node]

LEMMA KeepsOrderly ==
    ASSUME NEW j \in Nat, NEW S, S \subseteq Nodes, Orderly(S, j), UNCHANGED graph,
           \A i \in 1 .. j : /\ stack'[i].node = stack[i].node
                             /\ stack'[i].pc = stack[i].pc
                             /\ stack[i].pc = "next" => stack'[i].todo = stack[i].todo,
           \A n \in S : Absorbs(n) => attempts'[n] > 1 \/ status'[n] = "skipped",
           \A n \in S : status[n] \in Settled \/ n \in OnStack(j) => status'[n] = status[n]
    PROVE  Orderly(S, j)'
<1>1. CASE AbsorbedIn(S)
  BY <1>1 DEF AbsorbedIn, Absorbs, Orderly
<1>2. CASE Tidy(S, j)
  <2>1. OnStack(j)' = OnStack(j)
    BY DEF OnStack
  <2>2. \A n : Pending(n, j)' <=> Pending(n, j)
    BY DEF Pending
  <2>3. \A n \in S : status'[n] = status[n]
    BY <1>2 DEF Tidy
  <2>4. \A n : Parents(n)' = Parents(n)
    BY DEF Parents
  <2>5. \A n : JoinDue(n, S)' <=> JoinDue(n, S)
    BY <2>3, <2>4 DEF JoinDue, CallsItsJoin
  <2>6. Tidy(S, j)'
    BY <1>2, <2>1, <2>2, <2>3, <2>5 DEF Tidy, Nodes
  <2> QED
    BY <2>6 DEF Orderly
<1> QED
  BY <1>1, <1>2 DEF Orderly

(* The frames below the top one.                                           *)
LEMMA LowerFrames ==
    ASSUME OutcomeOK, UNCHANGED graph, KeepsStates,
           NEW k \in Nat, k = Len(stack), k >= 1,
           \A i \in 1 .. k - 1 : stack'[i] = stack[i],
           NEW j \in 2 .. k - 1
    PROVE  LoopFrame(j)'
<1>0. StackOK /\ RestOK /\ stack # << >>
  BY DEF OutcomeOK, JoinsOK, IInv, RestOK
<1>1. /\ j \in 2 .. k /\ j < k /\ k \in 2 .. k /\ k # 1 /\ j \in Nat /\ j >= 2
      /\ \A i \in 1 .. j : i \in 1 .. k - 1 /\ i \in 1 .. k
      /\ \A i \in 2 .. j : i \in 2 .. k /\ i \in 1 .. k /\ i # k
  OBVIOUS
<1>2. LoopFrame(j) /\ LoopFrame(k) /\ FrameOK(j) /\ FrameOK(k)
  BY <1>1 DEF OutcomeOK, OutcomeInv, LoopFrames, JoinsOK, JoinInv, FramesOK
<1>3. Top.node \in Nodes /\ Top = stack[k]
  BY <1>0, <1>1, NodeFrames DEF Top
<1>4. ASSUME NEW i \in 2 .. j PROVE stack[i].node \in Nodes /\ stack[i].node # Top.node
  BY <1>0, <1>1, <1>3 DEF StackOK, NeverReentered
<1>5. PICK S : S = stack[j].before
  OBVIOUS
<1>6. PICK m \in Nodes : m = stack[j].node /\ m # Top.node
  BY <1>1, <1>4
<1>7. \A i \in 1 .. j : stack'[i] = stack[i]
  BY <1>1
<1>8. ASSUME NEW i \in 2 .. j PROVE status'[stack[i].node] = status[stack[i].node]
  BY <1>1, <1>2, <1>3, <1>4 DEF KeepsStates, FrameOK
<1>9. status'[m] = status[m]
  BY <1>1, <1>6, <1>8
<1>10. ASSUME stack[j].pc = "loop"
       PROVE  S \subseteq Known' /\ Orderly(S, j)'
  <2>1. S \subseteq Known /\ Orderly(S, j) /\ Known \subseteq Nodes
    BY <1>2, <1>5, <1>10 DEF LoopFrame, Known
  <2>2. Top.pc = "loop" => S \subseteq Top.before
    BY <1>1, <1>2, <1>3, <1>5, <1>10 DEF LoopFrame
  <2>3. \A n \in S : n # Top.node => status'[n] = status[n] /\ attempts'[n] = attempts[n]
    BY <2>1, <2>2 DEF KeepsStates
  <2>4. Top.pc # "next" => status[Top.node] \notin Settled
    BY <1>2, <1>3 DEF FrameOK
  <2>5. ASSUME NEW n \in S, Absorbs(n) PROVE attempts'[n] > 1 \/ status'[n] = "skipped"
    <3>1. CASE n = Top.node
      <4>1. attempts[n] \in Nat
        BY <1>0, <1>3, <3>1 DEF RestOK
      <4>2. CASE status'[n] = status[n] /\ attempts'[n] = attempts[n]
        BY <2>5, <4>2 DEF Absorbs
      <4>3. CASE Top.pc # "next" /\ attempts'[n] \in Nat /\ attempts'[n] >= attempts[n]
        <5>1. attempts[n] > 1
          BY <2>4, <2>5, <3>1, <4>3 DEF Absorbs, Settled
        <5> QED
          BY <4>1, <4>3, <5>1
      <4> QED
        BY <3>1, <4>2, <4>3 DEF KeepsStates
    <3>2. CASE n # Top.node
      BY <2>3, <2>5, <3>2 DEF Absorbs
    <3> QED
      BY <3>1, <3>2
  <2>6. ASSUME NEW n \in S, status[n] \in Settled \/ n \in OnStack(j)
        PROVE  status'[n] = status[n]
    <3>1. n \in OnStack(j) => n # Top.node
      BY <1>4 DEF OnStack
    <3> QED
      BY <2>3, <2>4, <2>6, <3>1 DEF KeepsStates
  <2>7. Orderly(S, j)'
    BY <1>1, <1>7, <2>1, <2>5, <2>6, KeepsOrderly
  <2>8. \A n \in S : status'[n] # "none"
    BY <2>1, <2>3 DEF KeepsStates, Known
  <2> QED
    BY <2>1, <2>7, <2>8 DEF Known, Nodes
<1>11. \A i \in 2 .. j : stack'[i] = stack[i]
  BY <1>1, <1>7
<1>12. stack'[j] = stack[j]
  BY <1>1, <1>7
<1>13. stack[j].pc = "loop" =>
         \A i \in 2 .. j : stack[i].pc = "loop" => stack[i].before \subseteq S
  BY <1>2, <1>5 DEF LoopFrame
<1> QED
  BY <1>2, <1>5, <1>6, <1>9, <1>10, <1>11, <1>12, <1>13 DEF LoopFrame

(* The top frame goes on as f.                                             *)
LEMMA GoOnFrames ==
    ASSUME OutcomeOK, UNCHANGED graph, KeepsStates,
           NEW k \in Nat, k = Len(stack), k >= 1,
           NEW f, Replace(f), f.node = Top.node,
           k # 1 =>
             /\ f.pc \in {"iterate", "loop"} => graph.type[Top.node] = "loop"
             /\ f.pc = "body" => graph.type[Top.node] # "loop"
             /\ f.pc = "next" => status'[Top.node] \in Settled
             /\ f.pc = "loop" =>
                  /\ f.before \subseteq Known'
                  /\ \A i \in 2 .. k - 1 : stack[i].pc = "loop" => stack[i].before \subseteq f.before
                  /\ Orderly(f.before, k)'
    PROVE  LoopFrames'
<1>0. StackOK /\ stack # << >>
  BY DEF OutcomeOK, JoinsOK, IInv
<1>1. /\ Len(stack') = k /\ stack'[k] = f
      /\ \A j \in 1 .. k - 1 : stack'[j] = stack[j]
  BY <1>0, ReplacedStack
<1>2. ASSUME NEW j \in 2 .. k - 1 PROVE LoopFrame(j)'
  BY <1>1, <1>2, LowerFrames
<1>3. ASSUME k # 1 PROVE LoopFrame(k)'
  <2>1. Top.node \in Nodes
    BY <1>0, <1>3, NodeFrames
  <2>2. PICK m \in Nodes : m = Top.node
    BY <2>1
  <2>3. stack'[k].node = m /\ stack'[k].pc = f.pc /\ stack'[k].before = f.before
    BY <1>1, <2>2
  <2>4. \A i \in 2 .. k : (i \in 2 .. k - 1 /\ i \in 1 .. k - 1) \/ i = k
    OBVIOUS
  <2>5. f.pc = "loop" => \A i \in 2 .. k : stack'[i].pc = "loop" => stack'[i].before \subseteq f.before
    BY <1>1, <1>3, <2>4
  <2> QED
    BY <1>3, <2>2, <2>3, <2>5 DEF LoopFrame
<1>4. \A j \in 2 .. k : j \in 2 .. k - 1 \/ (j = k /\ k # 1)
  OBVIOUS
<1> QED
  BY <1>1, <1>2, <1>3, <1>4 DEF LoopFrames

(* A call returns.                                                         *)
LEMMA PopFrames ==
    ASSUME OutcomeOK, UNCHANGED graph, KeepsStates, Top.node # Root,
           stack # << >>, stack' = Below
    PROVE  LoopFrames'
<1>1. PICK k \in Nat : k = Len(stack) /\ k >= 1
  BY StackFacts DEF OutcomeOK, JoinsOK, IInv
<1>2. /\ Len(stack') = k - 1
      /\ \A j \in 1 .. k - 1 : stack'[j] = stack[j]
  BY <1>1, StackFacts DEF OutcomeOK, JoinsOK, IInv
<1>3. ASSUME NEW j \in 2 .. k - 1 PROVE LoopFrame(j)'
  BY <1>1, <1>2, <1>3, LowerFrames
<1> QED
  BY <1>2, <1>3 DEF LoopFrames

(* A node is entered.                                                      *)
LEMMA EnterFrames ==
    ASSUME OutcomeOK, NEW n \in Nodes, Enter(n)
    PROVE  LoopFrames'
<1>0. /\ StackOK /\ stack # << >> /\ UNCHANGED <<graph, status, attempts>>
      /\ Top.pc \in {"next", "loop"}
  BY DEF OutcomeOK, JoinsOK, IInv, Enter, Calls, Running
<1>1. PICK k \in Nat : k = Len(stack) /\ k >= 1
  BY <1>0, StackFacts
<1>2. /\ Len(stack') = k + 1
      /\ \A j \in 1 .. k - 1 : stack'[j] = stack[j]
      /\ stack'[k].node = stack[k].node /\ stack'[k].pc = stack[k].pc
      /\ stack'[k].before = stack[k].before
      /\ stack'[k + 1].pc = "attempt"
  BY <1>0, <1>1, EnteredStack DEF Top
<1>3. ASSUME NEW j \in 2 .. k - 1 PROVE LoopFrame(j)'
  <2>1. KeepsStates
    BY <1>0 DEF KeepsStates
  <2> QED
    BY <1>0, <1>1, <1>2, <1>3, <2>1, LowerFrames
<1>4. ASSUME k # 1 PROVE LoopFrame(k)'
  <2>1. k \in 2 .. k /\ \A i \in 1 .. k : i \in 1 .. k - 1 \/ i = k
    BY <1>1, <1>4
  <2>2. LoopFrame(k)
    BY <1>1, <2>1 DEF OutcomeOK, OutcomeInv, LoopFrames
  <2>3. PICK S : S = stack[k].before
    OBVIOUS
  <2>4. \A i \in 1 .. k : /\ stack'[i].node = stack[i].node
                          /\ stack'[i].pc = stack[i].pc
                          /\ stack'[i].before = stack[i].before
                          /\ stack[i].pc = "next" => i # k \/ Top.pc = "next"
    BY <1>1, <1>2, <2>1 DEF Top
  <2>5. ASSUME stack[k].pc = "loop" PROVE Orderly(S, k)'
    <3>1. S \subseteq Nodes /\ Orderly(S, k)
      BY <2>2, <2>3, <2>5 DEF LoopFrame, Known
    <3>2. \A i \in 1 .. k : stack[i].pc = "next" => stack'[i].todo = stack[i].todo
      BY <1>2, <2>1, <2>5
    <3>3. \A m \in S : Absorbs(m) => attempts'[m] > 1 \/ status'[m] = "skipped"
      BY <1>0 DEF Absorbs
    <3> QED
      BY <1>0, <2>4, <3>1, <3>2, <3>3, KeepsOrderly
  <2>6. Known' = Known
    BY <1>0 DEF Known, Nodes
  <2>7. \A i \in 2 .. k : i \in 1 .. k
    OBVIOUS
  <2>8. PICK m : m = stack[k].node
    OBVIOUS
  <2>9. stack'[k].node = m /\ stack'[k].before = S /\ stack'[k].pc = stack[k].pc
    BY <1>2, <2>3, <2>8
  <2>10. /\ stack[k].pc \in {"iterate", "loop"} => graph'.type[m] = "loop"
         /\ stack[k].pc = "body" => graph'.type[m] # "loop"
         /\ stack[k].pc = "next" => status'[m] \in Settled
         /\ stack[k].pc = "loop" =>
              /\ S \subseteq Known'
              /\ \A i \in 2 .. k : stack'[i].pc = "loop" => stack'[i].before \subseteq S
    BY <1>0, <2>2, <2>3, <2>4, <2>6, <2>7, <2>8 DEF LoopFrame
  <2> QED
    BY <2>5, <2>9, <2>10 DEF LoopFrame
<1>5. LoopFrame(k + 1)'
  BY <1>2 DEF LoopFrame
<1>6. \A j \in 2 .. k + 1 : j \in 2 .. k - 1 \/ (j = k /\ k # 1) \/ j = k + 1
  BY <1>1
<1> QED
  BY <1>2, <1>3, <1>4, <1>5, <1>6 DEF LoopFrames

(* The stack is dropped, or left alone with the states as they were.       *)
LEMMA SameFramesStay ==
    ASSUME OutcomeOK, UNCHANGED <<graph, status, attempts, stack>>
    PROVE  /\ LoopFrames'
           /\ Orderly(Known, Len(stack)) => Orderly(Known, Len(stack))'
<1>1. \A S, k : Orderly(S, k)' <=> Orderly(S, k)
  BY DEF Orderly, AbsorbedIn, Absorbs, Tidy, JoinDue, CallsItsJoin, Parents, OnStack, Pending, Nodes
<1>2. Known' = Known
  BY DEF Known, Nodes
<1>3. ASSUME NEW j \in 2 .. Len(stack) PROVE LoopFrame(j)'
  <2>1. LoopFrame(j)
    BY DEF OutcomeOK, OutcomeInv, LoopFrames
  <2>2. PICK S : S = stack[j].before
    OBVIOUS
  <2>3. Orderly(S, j) => Orderly(S, j)'
    BY <1>1
  <2> QED
    BY <1>2, <2>1, <2>2, <2>3 DEF LoopFrame
<1>4. PICK S, k : S = Known /\ k = Len(stack)
  OBVIOUS
<1>5. Orderly(S, k) => Orderly(S, k)'
  BY <1>1
<1> QED
  BY <1>2, <1>3, <1>4, <1>5 DEF LoopFrames

-----------------------------------------------------------------------------
(* The last conjunct of the invariant, step by step.                       *)
LEMMA PopUnwinds ==
    ASSUME JoinsOK, stack # << >>, Top.node # Root, stack' = Below, failure' # "none"
    PROVE  Unwinding'
<1>0. StackOK
  BY DEF JoinsOK, IInv
<1>1. PICK k \in Nat : k = Len(stack) /\ k >= 1
  BY <1>0, StackFacts
<1>2. k # 1
  BY <1>0, <1>1, NodeFrames
<1>3. /\ Len(stack') = k - 1 /\ k - 1 >= 1 /\ k - 1 \in Nat
      /\ stack'[k - 1] = stack[k - 1]
  BY <1>0, <1>1, <1>2, StackFacts
<1>4. stack[k - 1].pc \in {"next", "loop"}
  <2>1. CASE k - 1 = 1
    BY <1>0, <2>1 DEF StackOK, RootFrame
  <2>2. CASE k - 1 # 1
    <3>1. k - 1 \in 2 .. k /\ k - 1 < k
      BY <1>3, <2>2
    <3>2. FrameOK(k - 1)
      BY <1>1, <3>1 DEF JoinsOK, JoinInv, FramesOK
    <3> QED
      BY <1>1, <3>1, <3>2 DEF FrameOK
  <2> QED
    BY <2>1, <2>2
<1>5. stack' # << >>
  BY <1>3
<1> QED
  BY <1>3, <1>4, <1>5 DEF Unwinding, Top

(* What is known of the call at the top, in one place.                     *)
LEMMA OutcomeTop ==
    ASSUME OutcomeOK, stack # << >>
    PROVE  /\ Len(stack) \in Nat /\ Len(stack) >= 1
           /\ Top \in FrameType(graph)
           /\ Top.node = Root <=> Len(stack) = 1
           /\ Top.pc # "next" => Top.node # Root
           /\ Top.node # Root =>
                /\ Top.node \in Nodes
                /\ Top.pc # "attempt" => Top.node \in Known
                /\ Top.pc # "next" => status[Top.node] \notin Settled
                /\ Top.pc = "next" => status[Top.node] \in Settled
                /\ Top.pc \in {"iterate", "loop"} => graph.type[Top.node] = "loop"
                /\ Top.pc = "body" => graph.type[Top.node] # "loop"
                /\ Top.node \in OnStack(Len(stack))
<1>0. StackOK
  BY DEF OutcomeOK, JoinsOK, IInv
<1>1. PICK k \in Nat : k = Len(stack) /\ k >= 1
  BY <1>0, StackFacts
<1>2. ASSUME Top.node # Root PROVE LoopFrame(k) /\ k \in 2 .. k
  <2>1. k # 1
    BY <1>0, <1>1, <1>2, NodeFrames
  <2>2. k \in 2 .. k
    BY <1>1, <2>1
  <2> QED
    BY <1>1, <2>2 DEF OutcomeOK, OutcomeInv, LoopFrames
<1> QED
  BY <1>0, <1>1, <1>2, StackFacts, NodeFrames, TopFrame DEF OutcomeOK, LoopFrame, Top, Known, OnStack

(* A state is known of every loop that absorbed a failure.                 *)
LEMMA AbsorbersAreKnown ==
    ASSUME OutcomeOK, NEW l \in Nodes, Absorbs(l)
    PROVE  l \in Known
<1>1. status[l] = "none" <=> attempts[l] = 0
  BY DEF OutcomeOK, OutcomeInv, StatesOK
<1> QED
  BY <1>1 DEF Absorbs, Known

(* The top frame goes on in its body, or starts it: nothing is settled.    *)
LEMMA OpenOrderly ==
    ASSUME OutcomeOK, stack # << >>, Top.pc # "next", UNCHANGED graph,
           NEW k \in Nat, k = Len(stack), Orderly(Known, k),
           NEW s \in {"running", "retrying"}, status' = [status EXCEPT ![Top.node] = s],
           NEW a \in Nat, attempts' = [attempts EXCEPT ![Top.node] = a],
           a >= attempts[Top.node],
           NEW f, Replace(f), f.node = Top.node, f.pc # "next"
    PROVE  Orderly(Known, Len(stack))'
<1>0. /\ StackOK /\ status \in [Nodes -> NodeStatuses] /\ attempts \in [Nodes -> Nat]
      /\ Top.node \in Nodes /\ Top.node \in OnStack(k) /\ k >= 1
      /\ status[Top.node] \notin Settled
  BY OutcomeTop DEF OutcomeOK, JoinsOK, IInv, RestOK
<1>1. /\ Len(stack') = k /\ stack'[k] = f
      /\ \A j \in 1 .. k - 1 : stack'[j] = stack[j]
  BY <1>0, ReplacedStack
<1>2. PICK m \in Nodes : m = Top.node
  BY <1>0
<1>3. /\ \A n \in Nodes : status'[n] = IF n = m THEN s ELSE status[n]
      /\ \A n \in Nodes : attempts'[n] = IF n = m THEN a ELSE attempts[n]
      /\ s # "none" /\ s \notin Settled
  BY <1>0, <1>2 DEF Settled
<1>4. PICK S : S = Known
  OBVIOUS
<1>5. PICK R : R = S \union {m}
  OBVIOUS
<1>6. Known' = R /\ S \subseteq Nodes
  BY <1>3, <1>4, <1>5 DEF Known, Nodes
<1>7. \A i \in 1 .. k : i \in 1 .. k - 1 \/ i = k
  OBVIOUS
<1>8. CASE AbsorbedIn(S)
  <2>1. PICK l \in S : Absorbs(l)
    BY <1>8 DEF AbsorbedIn
  <2>2. attempts'[l] > 1 \/ status'[l] = "skipped"
    <3>1. CASE l = m
      <4>1. attempts[m] > 1
        BY <1>0, <1>2, <2>1, <3>1 DEF Absorbs, Settled
      <4> QED
        BY <1>0, <1>2, <1>3, <3>1, <4>1
    <3>2. CASE l # m
      BY <1>3, <1>6, <2>1, <3>2 DEF Absorbs
    <3> QED
      BY <3>1, <3>2
  <2>3. AbsorbedIn(R)'
    BY <1>5, <2>1, <2>2 DEF AbsorbedIn, Absorbs
  <2> QED
    BY <1>1, <1>6, <2>3 DEF Orderly
<1>9. CASE Tidy(S, k)
  <2>1. OnStack(k)' = OnStack(k)
    <3>1. \A i \in 2 .. k : stack'[i].node = stack[i].node
      BY <1>1, <1>7 DEF Top
    <3> QED
      BY <3>1 DEF OnStack
  <2>2. \A n : Pending(n, k) => Pending(n, k)'
    BY <1>1, <1>7 DEF Pending, Top
  <2>3. \A n : Parents(n)' = Parents(n)
    BY DEF Parents
  <2>4. \A n : JoinDue(n, R)' => JoinDue(n, S)
    BY <1>3, <1>5, <1>6, <2>3 DEF JoinDue, CallsItsJoin
  <2>5. \A n \in R : status'[n] \in Settled \/ n \in OnStack(k)
    BY <1>0, <1>2, <1>3, <1>5, <1>6, <1>9 DEF Tidy
  <2>6. ASSUME NEW n \in Nodes, JoinDue(n, R)'
        PROVE  (n \in R /\ status'[n] \in Settled) \/ n \in OnStack(k) \/ Pending(n, k)'
    BY <1>0, <1>2, <1>3, <1>5, <1>9, <2>2, <2>4, <2>6 DEF Tidy
  <2>7. Tidy(R, k)'
    BY <2>1, <2>5, <2>6 DEF Tidy, Nodes
  <2> QED
    BY <1>1, <1>6, <2>7 DEF Orderly
<1> QED
  BY <1>4, <1>8, <1>9 DEF Orderly

(* The body of the top node is over: it calls the joins that are due.      *)
LEMMA SettledOrderly ==
    ASSUME OutcomeOK, stack # << >>, Top.pc \notin {"next", "attempt"},
           UNCHANGED <<graph, attempts>>,
           NEW k \in Nat, k = Len(stack), Orderly(Known, k),
           NEW s \in Settled, status' = [status EXCEPT ![Top.node] = s],
           NEW T \in SUBSET Nodes, Replace([Top EXCEPT !.pc = "next", !.todo = T]),
           \A n : Top.node \in Parents(n) /\ CallsItsJoin(Top.node, n) => n \in T
    PROVE  Orderly(Known, Len(stack))'
<1>0. /\ StackOK /\ status \in [Nodes -> NodeStatuses]
      /\ Top.node \in Nodes /\ Top.node \in Known /\ k >= 1
      /\ status[Top.node] \notin Settled /\ Top \in FrameType(graph)
  BY OutcomeTop DEF OutcomeOK, JoinsOK, IInv, RestOK
<1>a. PICK f : f = [Top EXCEPT !.pc = "next", !.todo = T]
  OBVIOUS
<1>b. f.pc = "next" /\ f.todo = T /\ f.node = Top.node /\ Replace(f)
  BY <1>0, <1>a DEF FrameType
<1>1. /\ Len(stack') = k /\ stack'[k] = f
      /\ \A j \in 1 .. k - 1 : stack'[j] = stack[j]
  BY <1>0, <1>b, ReplacedStack
<1>2. PICK m \in Nodes : m = Top.node
  BY <1>0
<1>3. \A n \in Nodes : status'[n] = IF n = m THEN s ELSE status[n]
  BY <1>0, <1>2
<1>4. PICK S : S = Known
  OBVIOUS
<1>6. Known' = S /\ S \subseteq Nodes /\ m \in S
  BY <1>0, <1>2, <1>3, <1>4 DEF Known, Nodes, Settled
<1>7. \A i \in 1 .. k : i \in 1 .. k - 1 \/ i = k
  OBVIOUS
<1>8. CASE AbsorbedIn(S)
  <2>1. PICK l \in S : Absorbs(l)
    BY <1>8 DEF AbsorbedIn
  <2>2. attempts'[l] > 1 \/ status'[l] = "skipped"
    BY <1>0, <1>2, <1>3, <1>6, <2>1 DEF Absorbs, Settled
  <2>3. AbsorbedIn(S)'
    BY <2>1, <2>2 DEF AbsorbedIn, Absorbs
  <2> QED
    BY <1>1, <1>6, <2>3 DEF Orderly
<1>9. CASE Tidy(S, k)
  <2>1. OnStack(k)' = OnStack(k)
    <3>1. \A i \in 2 .. k : stack'[i].node = stack[i].node
      BY <1>1, <1>7, <1>b DEF Top
    <3> QED
      BY <3>1 DEF OnStack
  <2>2. \A n : Pending(n, k) => Pending(n, k)'
    BY <1>1, <1>7 DEF Pending, Top
  <2>3. \A n \in T : Pending(n, k)'
    <3>1. k \in 1 .. k
      BY <1>0
    <3> QED
      BY <1>1, <1>b, <3>1 DEF Pending
  <2>4. \A n : Parents(n)' = Parents(n)
    BY DEF Parents
  <2>5. ASSUME NEW n, JoinDue(n, S)' PROVE JoinDue(n, S) \/ n \in T
    <3>1. CASE m \in Parents(n)
      BY <1>2, <2>4, <2>5, <3>1 DEF JoinDue, CallsItsJoin
    <3>2. CASE m \notin Parents(n)
      BY <1>3, <1>6, <2>4, <2>5, <3>2 DEF JoinDue, CallsItsJoin
    <3> QED
      BY <3>1, <3>2
  <2>6. \A n \in S : status'[n] \in Settled \/ n \in OnStack(k)
    BY <1>3, <1>6, <1>9 DEF Tidy
  <2>7. ASSUME NEW n \in Nodes, JoinDue(n, S)'
        PROVE  (n \in S /\ status'[n] \in Settled) \/ n \in OnStack(k) \/ Pending(n, k)'
    BY <1>3, <1>6, <1>9, <2>2, <2>3, <2>5, <2>7 DEF Tidy
  <2>8. Tidy(S, k)'
    BY <2>1, <2>6, <2>7 DEF Tidy, Nodes
  <2> QED
    BY <1>1, <1>6, <2>8 DEF Orderly
<1> QED
  BY <1>4, <1>8, <1>9 DEF Orderly

(* The states stay: a call may return when its node is settled, and a join *)
(* be called or, being settled, be passed over.                            *)
LEMMA SameStatesOrderly ==
    ASSUME UNCHANGED <<graph, status, attempts>>,
           NEW k, Orderly(Known, k), NEW r, Len(stack') = r,
           \A n \in OnStack(k) : n \in OnStack(r)' \/ status[n] \in Settled,
           \A n \in Nodes : Pending(n, k) => \/ Pending(n, r)'
                                             \/ n \in OnStack(r)'
                                             \/ status[n] \in Settled
                                             \/ graph.type[n] = "join" /\ ~JoinParentsReady(n)
    PROVE  Orderly(Known, Len(stack))'
<1>1. PICK S : S = Known
  OBVIOUS
<1>2. Known' = S
  BY <1>1 DEF Known, Nodes
<1>3. CASE AbsorbedIn(S)
  <2>1. AbsorbedIn(S)'
    BY <1>3 DEF AbsorbedIn, Absorbs
  <2> QED
    BY <1>2, <2>1 DEF Orderly
<1>4. CASE Tidy(S, k)
  <2>1. \A n : JoinDue(n, S)' => JoinDue(n, S)
    BY DEF JoinDue, CallsItsJoin, Parents
  <2>2. \A n \in Nodes : JoinDue(n, S) => graph.type[n] = "join" /\ JoinParentsReady(n)
    BY DEF JoinDue, JoinParentsReady
  <2>3. \A n \in Nodes : status[n] \in Settled => n \in S
    BY <1>1 DEF Known, Settled
  <2>4. \A n \in S : status'[n] \in Settled \/ n \in OnStack(r)'
    BY <1>4 DEF Tidy
  <2>5. ASSUME NEW n \in Nodes, JoinDue(n, S)'
        PROVE  (n \in S /\ status'[n] \in Settled) \/ n \in OnStack(r)' \/ Pending(n, r)'
    BY <1>4, <2>1, <2>2, <2>3, <2>5 DEF Tidy
  <2>6. Tidy(S, r)'
    BY <2>4, <2>5 DEF Tidy, Nodes
  <2> QED
    BY <1>2, <2>6 DEF Orderly
<1> QED
  BY <1>1, <1>3, <1>4 DEF Orderly

(* A call that has nothing to do.                                          *)
LEMMA PassedOverOrderly ==
    ASSUME OutcomeOK, NEW n \in Nodes, CallReturnsAtOnce(n), Orderly(Known, Len(stack))
    PROVE  Orderly(Known, Len(stack))' /\ LoopFrames'
<1>0. /\ StackOK /\ stack # << >> /\ UNCHANGED <<graph, status, attempts>>
      /\ Top.pc \in {"next", "loop"} /\ Replace(Called(n)) /\ NothingToDo(n)
  BY DEF OutcomeOK, JoinsOK, IInv, CallReturnsAtOnce, Calls, Running
<1>1. PICK k \in Nat : k = Len(stack) /\ k >= 1
  BY <1>0, StackFacts
<1>2. PICK f : f = Called(n)
  OBVIOUS
<1>3. /\ f.node = Top.node /\ f.pc = Top.pc /\ f.before = Top.before
      /\ f.todo = Top.todo \ {n} /\ Replace(f)
  BY <1>0, <1>2, StackFacts DEF Called, FrameType
<1>4. /\ Len(stack') = k /\ stack'[k] = f
      /\ \A j \in 1 .. k - 1 : stack'[j] = stack[j]
  BY <1>0, <1>1, <1>3, ReplacedStack
<1>5. \A i \in 1 .. k : i \in 1 .. k - 1 \/ i = k
  BY <1>1
<1>6. \A i \in 1 .. k : stack'[i].node = stack[i].node /\ stack'[i].pc = stack[i].pc
                        /\ stack'[i].before = stack[i].before
  BY <1>1, <1>3, <1>4, <1>5 DEF Top
<1>7. OnStack(k)' = OnStack(k)
  <2>1. \A i \in 2 .. k : i \in 1 .. k
    BY <1>1
  <2> QED
    BY <1>6, <2>1 DEF OnStack
<1>8. \A m \in Nodes : m # n /\ Pending(m, k) => Pending(m, k)'
  BY <1>1, <1>3, <1>4, <1>5, <1>6 DEF Pending, Top
<1>9. Orderly(Known, Len(stack))'
  <2>1. status[n] \in Settled \/ (graph.type[n] = "join" /\ ~JoinParentsReady(n))
    BY <1>0 DEF NothingToDo
  <2> QED
    BY <1>0, <1>1, <1>4, <1>7, <1>8, <2>1, SameStatesOrderly
<1>10. LoopFrames'
  <2>1. KeepsStates
    BY <1>0 DEF KeepsStates
  <2>2. k # 1 => Top.node # Root /\ Top.node \in Nodes /\ Top.pc # "body" /\ Top.pc # "iterate"
    BY <1>0, <1>1, OutcomeTop
  <2>3. ASSUME k # 1, f.pc = "loop"
        PROVE  /\ f.before \subseteq Known'
               /\ \A i \in 2 .. k - 1 : stack[i].pc = "loop" => stack[i].before \subseteq f.before
               /\ Orderly(f.before, k)'
    <3>1. k \in 2 .. k /\ \A i \in 2 .. k - 1 : i \in 2 .. k
      BY <1>1, <2>3
    <3>2. LoopFrame(k)
      BY <1>1, <3>1 DEF OutcomeOK, OutcomeInv, LoopFrames
    <3>3. Known' = Known /\ Known \subseteq Nodes
      BY <1>0 DEF Known, Nodes
    <3>4. PICK S : S = f.before
      OBVIOUS
    <3>5. S \subseteq Nodes /\ Orderly(S, k) /\ S \subseteq Known
      BY <1>1, <1>3, <2>3, <3>2, <3>3, <3>4 DEF LoopFrame, Top
    <3>6. \A i \in 1 .. k : stack[i].pc = "next" => stack'[i].todo = stack[i].todo
      BY <1>1, <1>3, <1>4, <1>5, <2>3 DEF Top
    <3>7. \A m \in S : Absorbs(m) => attempts'[m] > 1 \/ status'[m] = "skipped"
      BY <1>0 DEF Absorbs
    <3>8. Orderly(S, k)'
      BY <1>0, <1>6, <3>5, <3>6, <3>7, KeepsOrderly
    <3>9. \A i \in 2 .. k - 1 : stack[i].pc = "loop" => stack[i].before \subseteq S
      BY <1>1, <1>3, <2>3, <3>1, <3>2, <3>4 DEF LoopFrame, Top
    <3> QED
      BY <3>3, <3>4, <3>5, <3>8, <3>9
  <2>4. k # 1 => /\ f.pc \in {"iterate", "loop"} => graph.type[Top.node] = "loop"
                 /\ f.pc = "body" => graph.type[Top.node] # "loop"
                 /\ f.pc = "next" => status'[Top.node] \in Settled
    BY <1>0, <1>3, <2>2, OutcomeTop
  <2> QED
    BY <1>0, <1>1, <1>3, <2>1, <2>3, <2>4, GoOnFrames
<1> QED
  BY <1>9, <1>10

(* A node is entered: it is on the stack.                                  *)
LEMMA EnterOrderly ==
    ASSUME OutcomeOK, NEW n \in Nodes, Enter(n), Orderly(Known, Len(stack))
    PROVE  Orderly(Known, Len(stack))'
<1>0. StackOK /\ stack # << >> /\ UNCHANGED <<graph, status, attempts>>
  BY DEF OutcomeOK, JoinsOK, IInv, Enter, Calls, Running
<1>1. PICK k \in Nat : k = Len(stack) /\ k >= 1
  BY <1>0, StackFacts
<1>2. PICK f : f = Called(n)
  OBVIOUS
<1>3. /\ f.node = Top.node /\ f.pc = Top.pc /\ f.todo = Top.todo \ {n}
  BY <1>0, <1>2, StackFacts DEF Called, FrameType
<1>4. /\ Len(stack') = k + 1 /\ stack'[k] = f /\ stack'[k + 1].node = n
      /\ \A j \in 1 .. k - 1 : stack'[j] = stack[j]
  BY <1>0, <1>1, <1>2, EnteredStack
<1>5. \A i \in 1 .. k : (i \in 1 .. k - 1 \/ i = k) /\ i \in 1 .. k + 1
  BY <1>1
<1>6. \A m \in OnStack(k) : m \in OnStack(k + 1)'
  <2>1. \A i \in 2 .. k : i \in 1 .. k /\ i \in 2 .. k + 1
    BY <1>1
  <2>2. \A i \in 2 .. k : stack'[i].node = stack[i].node
    BY <1>1, <1>3, <1>4, <1>5, <2>1 DEF Top
  <2> QED
    BY <2>1, <2>2 DEF OnStack
<1>7. n \in OnStack(k + 1)'
  <2>1. k + 1 \in 2 .. k + 1
    BY <1>1
  <2> QED
    BY <1>4, <2>1 DEF OnStack
<1>8. \A m \in Nodes : m # n /\ Pending(m, k) => Pending(m, k + 1)'
  BY <1>1, <1>3, <1>4, <1>5 DEF Pending, Top
<1> QED
  BY <1>0, <1>1, <1>4, <1>6, <1>7, <1>8, SameStatesOrderly

(* A call without anything left to call returns: its node is settled.      *)
LEMMA ReturnOrderly ==
    ASSUME OutcomeOK, stack # << >>, Top.pc = "next", Top.todo = {}, Top.node # Root,
           stack' = Below, UNCHANGED <<graph, status, attempts>>, Orderly(Known, Len(stack))
    PROVE  Orderly(Known, Len(stack))'
<1>1. PICK k \in Nat : k = Len(stack) /\ k >= 1
  BY OutcomeTop
<1>2. /\ Len(stack') = k - 1
      /\ \A j \in 1 .. k - 1 : stack'[j] = stack[j]
  BY <1>1, StackFacts DEF OutcomeOK, JoinsOK, IInv
<1>3. \A i \in 1 .. k : i \in 1 .. k - 1 \/ i = k
  BY <1>1
<1>4. \A n \in OnStack(k) : n \in OnStack(k - 1)' \/ status[n] \in Settled
  <2>1. \A i \in 2 .. k : (i \in 2 .. k - 1 /\ i \in 1 .. k - 1) \/ i = k
    BY <1>1
  <2>2. status[Top.node] \in Settled
    BY OutcomeTop
  <2> QED
    BY <1>1, <1>2, <2>1, <2>2 DEF OnStack, Top
<1>5. \A n : Pending(n, k) => Pending(n, k - 1)'
  BY <1>1, <1>2, <1>3 DEF Pending, Top
<1> QED
  BY <1>1, <1>2, <1>4, <1>5, SameStatesOrderly

(* The execution's own call returns: nothing is left.                      *)
LEMMA EndOrderly ==
    ASSUME OutcomeOK, ExecutionReturns, Orderly(Known, Len(stack))
    PROVE  Orderly(Known, Len(stack))'
<1>0. /\ stack # << >> /\ Top.node = Root /\ Top.todo = {} /\ stack' = << >>
      /\ UNCHANGED <<graph, status, attempts>>
  BY DEF ExecutionReturns, Running
<1>1. Len(stack) = 1
  BY <1>0, OutcomeTop
<1>2. Len(stack') = 0
  BY <1>0
<1>3. OnStack(1) = {} /\ \A n : ~Pending(n, 1)
  BY <1>0, <1>1 DEF OnStack, Pending, Top
<1> QED
  BY <1>0, <1>1, <1>2, <1>3, SameStatesOrderly

(* A loop at its head: what is known now is what it will keep.             *)
LEMMA IterateOrderly ==
    ASSUME OutcomeOK, LoopIterates, Orderly(Known, Len(stack))
    PROVE  Orderly(Known, Len(stack))' /\ LoopFrames'
<1>0. /\ stack # << >> /\ Top.pc = "iterate" /\ UNCHANGED <<graph, status, attempts>>
      /\ Replace([Top EXCEPT !.pc = "loop", !.item = @ + 1, !.before = Known,
                             !.todo = Body(Top.node)])
  BY DEF LoopIterates, AtLoopHead, Running
<1>1. PICK k \in Nat : k = Len(stack) /\ k >= 1
  BY <1>0, OutcomeTop
<1>2. PICK f : f = [Top EXCEPT !.pc = "loop", !.item = @ + 1, !.before = Known,
                               !.todo = Body(Top.node)]
  OBVIOUS
<1>3. f.node = Top.node /\ f.pc = "loop" /\ f.before = Known /\ Replace(f)
  BY <1>0, <1>2, OutcomeTop DEF FrameType
<1>4. /\ Len(stack') = k /\ stack'[k] = f
      /\ \A j \in 1 .. k - 1 : stack'[j] = stack[j]
  BY <1>0, <1>1, <1>3, ReplacedStack DEF OutcomeOK, JoinsOK, IInv
<1>5. \A i \in 1 .. k : i \in 1 .. k - 1 \/ i = k
  BY <1>1
<1>6. \A i \in 1 .. k : /\ stack'[i].node = stack[i].node
                        /\ stack[i].pc = "next" => stack'[i].pc = "next" /\ stack'[i].todo = stack[i].todo
  BY <1>0, <1>1, <1>3, <1>4, <1>5 DEF Top
<1>7. OnStack(k)' = OnStack(k)
  <2>1. \A i \in 2 .. k : i \in 1 .. k
    BY <1>1
  <2> QED
    BY <1>6, <2>1 DEF OnStack
<1>8. \A n : Pending(n, k) => Pending(n, k)'
  BY <1>6 DEF Pending
<1>9. Orderly(Known, Len(stack))'
  BY <1>0, <1>1, <1>4, <1>7, <1>8, SameStatesOrderly
<1>10. KeepsStates
  BY <1>0 DEF KeepsStates
<1>11. Top.node # Root /\ graph.type[Top.node] = "loop"
  BY <1>0, OutcomeTop
<1>12. PICK S : S = Known
  OBVIOUS
<1>13. Known' = S /\ f.before = S
  BY <1>0, <1>3, <1>12 DEF Known, Nodes
<1>14. Orderly(S, k)'
  BY <1>4, <1>9, <1>13
<1>15. ASSUME NEW i \in 2 .. k - 1, stack[i].pc = "loop" PROVE stack[i].before \subseteq S
  <2>1. i \in 2 .. k
    BY <1>1
  <2> QED
    BY <1>1, <1>12, <1>15, <2>1 DEF OutcomeOK, OutcomeInv, LoopFrames, LoopFrame
<1>16. LoopFrames'
  BY <1>0, <1>1, <1>3, <1>10, <1>11, <1>13, <1>14, <1>15, GoOnFrames
<1> QED
  BY <1>9, <1>16

(* A loop forgets: what is left is what it kept.                           *)
LEMMA ForgetOrderly ==
    ASSUME OutcomeOK, LoopForgets
    PROVE  Orderly(Known, Len(stack))' /\ LoopFrames'
<1>0. /\ stack # << >> /\ Top.pc = "loop" /\ UNCHANGED graph
      /\ status' = [n \in Nodes |-> IF n \in Top.before THEN status[n] ELSE "none"]
      /\ attempts' = [n \in Nodes |-> IF n \in Top.before THEN attempts[n] ELSE 0]
      /\ Replace([Top EXCEPT !.pc = "iterate"])
  BY DEF LoopForgets, Running
<1>1. PICK k \in Nat : k = Len(stack) /\ k >= 1
  BY <1>0, OutcomeTop
<1>2. PICK f : f = [Top EXCEPT !.pc = "iterate"]
  OBVIOUS
<1>3. f.node = Top.node /\ f.pc = "iterate" /\ Replace(f)
  BY <1>0, <1>2, OutcomeTop DEF FrameType
<1>4. /\ Len(stack') = k /\ stack'[k] = f
      /\ \A j \in 1 .. k - 1 : stack'[j] = stack[j]
  BY <1>0, <1>1, <1>3, ReplacedStack DEF OutcomeOK, JoinsOK, IInv
<1>5. \A i \in 1 .. k : i \in 1 .. k - 1 \/ i = k
  BY <1>1
<1>6. \A i \in 1 .. k : /\ stack'[i].node = stack[i].node
                        /\ stack[i].pc = "next" => stack'[i].pc = "next" /\ stack'[i].todo = stack[i].todo
  BY <1>0, <1>1, <1>3, <1>4, <1>5 DEF Top
<1>7. k # 1 /\ Top.node # Root /\ graph.type[Top.node] = "loop" /\ k \in 2 .. k
  BY <1>0, <1>1, OutcomeTop
<1>8. LoopFrame(k)
  BY <1>1, <1>7 DEF OutcomeOK, OutcomeInv, LoopFrames
<1>9. PICK S : S = Top.before
  OBVIOUS
<1>10. S \subseteq Known /\ Orderly(S, k) /\ S \subseteq Nodes
  BY <1>0, <1>1, <1>8, <1>9 DEF LoopFrame, Top, Known
<1>11. \A n \in S : status'[n] = status[n] /\ attempts'[n] = attempts[n]
  BY <1>0, <1>9, <1>10
<1>12. Known' = S
  BY <1>0, <1>9, <1>10, <1>11 DEF Known, Nodes
<1>15. Orderly(S, k)'
  <2>1. CASE AbsorbedIn(S)
    <3>1. AbsorbedIn(S)'
      BY <1>0, <1>11, <2>1 DEF AbsorbedIn, Absorbs
    <3> QED
      BY <3>1 DEF Orderly
  <2>2. CASE Tidy(S, k)
    <3>1. OnStack(k)' = OnStack(k)
      <4>1. \A i \in 2 .. k : i \in 1 .. k
        BY <1>1
      <4> QED
        BY <1>6, <4>1 DEF OnStack
    <3>2. \A n : Pending(n, k) => Pending(n, k)'
      BY <1>6 DEF Pending
    <3>3. \A n : JoinDue(n, S)' => JoinDue(n, S)
      <4>1. \A n : Parents(n)' = Parents(n)
        BY <1>0 DEF Parents
      <4>2. UNCHANGED graph /\ \A n \in S : status'[n] = status[n]
        BY <1>0, <1>11
      <4> QED
        BY <4>1, <4>2 DEF JoinDue, CallsItsJoin
    <3>4. \A n \in S : status'[n] \in Settled \/ n \in OnStack(k)'
      BY <1>11, <2>2, <3>1 DEF Tidy
    <3>5. ASSUME NEW n \in Nodes, JoinDue(n, S)'
          PROVE  (n \in S /\ status'[n] \in Settled) \/ n \in OnStack(k)' \/ Pending(n, k)'
      BY <1>11, <2>2, <3>1, <3>2, <3>3, <3>5 DEF Tidy
    <3>6. Tidy(S, k)'
      BY <1>0, <3>4, <3>5 DEF Tidy, Nodes
    <3> QED
      BY <3>6 DEF Orderly
  <2> QED
    BY <1>10, <2>1, <2>2 DEF Orderly
<1>16. Orderly(Known, Len(stack))'
  BY <1>4, <1>12, <1>15
<1>17. KeepsStates
  <2>1. Top.node \in S
    BY <1>0, <1>1, <1>7, <1>9, TopFrame DEF OutcomeOK, Top
  <2> QED
    BY <1>0, <1>9, <1>11, <2>1 DEF KeepsStates
<1>18. LoopFrames'
  BY <1>0, <1>1, <1>3, <1>7, <1>17, GoOnFrames
<1> QED
  BY <1>16, <1>18

(* Where a node's edges lead, whatever its result, a join that it calls is *)
(* among the nodes that follow.                                            *)
LEMMA FollowsToJoins ==
    ASSUME NEW m, NEW n, CallsItsJoin(m, n), NEW result, NEW chosen
    PROVE  n \in Follow(m, result, chosen)
BY DEF CallsItsJoin, Follow

(* The states of the step before and after, for the conjuncts of StatesOK. *)
LEMMA StepStates == OutcomeOK /\ [Next]_vars => StatesOK'
<1> SUFFICES ASSUME OutcomeOK, [Next]_vars PROVE StatesOK'
  OBVIOUS
<1>0. /\ status \in [Nodes -> NodeStatuses] /\ attempts \in [Nodes -> Nat] /\ graph \in Graphs
      /\ \A n \in Nodes : status[n] = "none" <=> attempts[n] = 0
      /\ stack # << >> => returned = "none"
  BY DEF OutcomeOK, JoinsOK, IInv, StackOK, RestOK, OutcomeInv, StatesOK
<1>a. ASSUME stack # << >>, Top.pc # "next"
      PROVE  /\ Top.node \in Nodes
             /\ Top.pc # "attempt" => status[Top.node] # "none"
  BY <1>a, OutcomeTop DEF Known
<1>b. ASSUME UNCHANGED <<graph, status, attempts>>, stack' # << >> => stack # << >> /\ returned' = returned
      PROVE  StatesOK'
  BY <1>0, <1>b DEF StatesOK, Nodes
<1>c. ASSUME UNCHANGED <<graph, attempts, returned>>, stack # << >>,
             Top.pc \in {"body", "iterate", "loop"},
             NEW s, s # "none", status' = [status EXCEPT ![Top.node] = s]
      PROVE  StatesOK'
  <2>1. Top.node \in Nodes /\ status[Top.node] # "none"
    BY <1>a, <1>c
  <2> QED
    BY <1>0, <1>c, <2>1 DEF StatesOK, Nodes
<1>1. ASSUME NEW n \in Nodes, CallInterrupted(n) \/ CallReturnsAtOnce(n) \/ CallFails(n) \/ Enter(n)
      PROVE  StatesOK'
  BY <1>b, <1>1 DEF CallInterrupted, CallReturnsAtOnce, CallFails, Enter, Calls, Running
<1>2. CASE StartAttempt
  <2>1. stack # << >> /\ Top.pc = "attempt" /\ UNCHANGED <<graph, returned>>
    BY <1>2 DEF StartAttempt, Running
  <2>2. CASE ContextDone(Len(stack))
    BY <1>2, <1>b, <2>1, <2>2 DEF StartAttempt
  <2>3. CASE ~ContextDone(Len(stack))
    <3>1. /\ status' = [status EXCEPT ![Top.node] = "running"]
          /\ attempts' = [attempts EXCEPT ![Top.node] = IF @ = 0 THEN 1 ELSE @]
      BY <1>2, <2>3 DEF StartAttempt
    <3> QED
      BY <1>0, <1>a, <2>1, <3>1 DEF StatesOK, Nodes
  <2> QED
    BY <2>2, <2>3
<1>3. CASE BodySucceeds
  BY <1>3, <1>c DEF BodySucceeds, Running
<1>4. CASE BodyFails \/ BodyPanics \/ LoopFails \/ LoopIterates
  BY <1>4, <1>b DEF BodyFails, BodyPanics, LoopFails, LoopIterates, AtLoopHead, Running
<1>5. CASE LoopForgets
  <2>1. /\ stack # << >> /\ UNCHANGED <<graph, returned>>
        /\ status' = [n \in Nodes |-> IF n \in Top.before THEN status[n] ELSE "none"]
        /\ attempts' = [n \in Nodes |-> IF n \in Top.before THEN attempts[n] ELSE 0]
    BY <1>5 DEF LoopForgets, Running
  <2> QED
    BY <1>0, <2>1 DEF StatesOK, Nodes
<1>6. CASE LoopCompletes
  BY <1>6, <1>c DEF LoopCompletes, AtLoopHead, Running
<1>7. CASE NodeReturns \/ ExecutionReturns \/ PassOn \/ ExecutionFails
  BY <1>7, <1>b DEF NodeReturns, ExecutionReturns, PassOn, ExecutionFails, Failing, Running
<1>8. CASE Retry
  <2>1. /\ stack # << >> /\ Top.pc # "next" /\ Top.pc # "attempt" /\ UNCHANGED <<graph, returned>>
        /\ status' = [status EXCEPT ![Top.node] = "retrying"]
        /\ attempts' = [attempts EXCEPT ![Top.node] = @ + 1]
    BY <1>8 DEF Retry, Handles, Failing, AtBody
  <2> QED
    BY <1>0, <1>a, <2>1 DEF StatesOK, Nodes
<1>9. CASE Skip
  BY <1>9, <1>c DEF Skip, GivesUp, Handles, Failing, AtBody
<1>10. CASE Fail
  BY <1>10, <1>c DEF Fail, GivesUp, Handles, Failing, AtBody
<1>11. CASE Cancel \/ Expire \/ UNCHANGED vars
  BY <1>11, <1>b DEF Cancel, Expire, vars
<1> QED
  BY <1>1, <1>2, <1>3, <1>4, <1>5, <1>6, <1>7, <1>8, <1>9, <1>10, <1>11
  DEF Next, Execute, Call, Finished

LEMMA StepOutcome == OutcomeOK /\ [Next]_vars => OutcomeInv'
<1> DEFINE Fine == LoopFrames /\ (Unwinding \/ returned = "error" \/ Orderly(Known, Len(stack)))
<1> SUFFICES ASSUME OutcomeOK, [Next]_vars PROVE Fine'
  BY StepStates DEF OutcomeInv
<1>0. /\ JoinsOK /\ StackOK /\ LoopFrames
      /\ status \in [Nodes -> NodeStatuses] /\ attempts \in [Nodes -> Nat]
      /\ \A n \in Nodes : status[n] = "none" <=> attempts[n] = 0
      /\ stack # << >> => returned = "none"
      /\ Unwinding \/ returned = "error" \/ Orderly(Known, Len(stack))
  BY DEF OutcomeOK, JoinsOK, IInv, RestOK, OutcomeInv, StatesOK
<1>a. ASSUME stack # << >>, failure = "none" \/ Top.pc \in {"attempt", "body", "iterate"}
      PROVE  Orderly(Known, Len(stack))
  BY <1>0, <1>a DEF Unwinding
<1>b. ASSUME UNCHANGED <<graph, status, attempts, stack>>,
             \/ Unwinding'
             \/ returned' = "error"
             \/ Orderly(Known, Len(stack))
      PROVE  Fine'
  BY <1>b, SameFramesStay
<1>c. ASSUME stack # << >>, Top.node # Root, stack' = Below, failure' # "none",
             UNCHANGED graph,
             \/ UNCHANGED <<status, attempts>>
             \/ /\ Top.pc # "next" /\ UNCHANGED attempts
                /\ status' = [status EXCEPT ![Top.node] = "failed"]
      PROVE  Fine'
  <2>1. Top.node \in Nodes
    BY <1>c, OutcomeTop
  <2>2. KeepsStates
    <3>1. CASE UNCHANGED <<status, attempts>>
      BY <3>1 DEF KeepsStates
    <3>2. CASE /\ Top.pc # "next" /\ UNCHANGED attempts
               /\ status' = [status EXCEPT ![Top.node] = "failed"]
      BY <1>0, <2>1, <3>2 DEF KeepsStates
    <3> QED
      BY <1>c, <3>1, <3>2
  <2>3. LoopFrames'
    BY <1>c, <2>2, PopFrames
  <2>4. Unwinding'
    BY <1>0, <1>c, PopUnwinds
  <2> QED
    BY <2>3, <2>4
<1>d. ASSUME stack # << >>, Top.pc \notin {"next", "attempt"}, UNCHANGED <<graph, attempts>>,
             NEW s \in Settled, status' = [status EXCEPT ![Top.node] = s],
             NEW f, Replace(f), f.node = Top.node, f.pc = "next"
      PROVE  LoopFrames'
  <2>1. Top.node \in Nodes /\ Len(stack) \in Nat /\ Len(stack) >= 1
    BY <1>d, OutcomeTop
  <2>2. KeepsStates
    BY <1>0, <1>d, <2>1 DEF KeepsStates, Settled
  <2>3. PICK k \in Nat : k = Len(stack) /\ k >= 1
    BY <2>1
  <2>4. status'[Top.node] \in Settled
    BY <1>0, <1>d, <2>1
  <2> QED
    BY <1>d, <2>2, <2>3, <2>4, GoOnFrames
<1>e. ASSUME stack # << >>, Top.pc \notin {"next", "attempt"}, UNCHANGED <<graph, attempts>>,
             NEW s \in Settled, status' = [status EXCEPT ![Top.node] = s],
             Replace([Top EXCEPT !.pc = "next"]), failure' # "none"
      PROVE  Fine'
  <2>1. PICK f : f = [Top EXCEPT !.pc = "next"]
    OBVIOUS
  <2>2. f.node = Top.node /\ f.pc = "next" /\ Replace(f)
    BY <1>e, <2>1, OutcomeTop DEF FrameType
  <2>3. LoopFrames'
    BY <1>d, <1>e, <2>2
  <2>4. /\ Len(stack') = Len(stack) /\ stack'[Len(stack)] = f
        /\ Len(stack) \in Nat /\ Len(stack) >= 1
    BY <1>0, <1>e, <2>2, ReplacedStack
  <2>5. stack' # << >>
    BY <2>4
  <2>6. Unwinding'
    BY <1>e, <2>2, <2>4, <2>5 DEF Unwinding, Top
  <2> QED
    BY <2>3, <2>6
<1>f. ASSUME stack # << >>, Top.pc \notin {"next", "attempt"}, UNCHANGED <<graph, attempts>>,
             NEW s \in Settled, status' = [status EXCEPT ![Top.node] = s],
             NEW T \in SUBSET Nodes, Replace([Top EXCEPT !.pc = "next", !.todo = T])
      PROVE  /\ LoopFrames'
             /\ Orderly(Known, Len(stack)) /\ (\A n : Top.node \in Parents(n) /\ CallsItsJoin(Top.node, n) => n \in T)
                  => Orderly(Known, Len(stack))'
  <2>1. PICK f : f = [Top EXCEPT !.pc = "next", !.todo = T]
    OBVIOUS
  <2>2. f.node = Top.node /\ f.pc = "next" /\ Replace(f)
    BY <1>f, <2>1, OutcomeTop DEF FrameType
  <2>3. LoopFrames'
    BY <1>d, <1>f, <2>2
  <2>4. PICK k \in Nat : k = Len(stack)
    BY <1>f, OutcomeTop
  <2>5. ASSUME Orderly(Known, k), \A n : Top.node \in Parents(n) /\ CallsItsJoin(Top.node, n) => n \in T
        PROVE  Orderly(Known, Len(stack))'
    BY <1>f, <2>4, <2>5, SettledOrderly
  <2> QED
    BY <2>3, <2>4, <2>5
<1>1. ASSUME NEW n \in Nodes, CallInterrupted(n) PROVE Fine'
  <2>1. Unwinding'
    BY <1>1 DEF CallInterrupted, Calls, Running, Unwinding, Top
  <2> QED
    BY <1>1, <1>b, <2>1 DEF CallInterrupted
<1>2. ASSUME NEW n \in Nodes, CallFails(n) PROVE Fine'
  <2>1. Unwinding'
    BY <1>2 DEF CallFails, Calls, Running, Unwinding, Top
  <2> QED
    BY <1>2, <1>b, <2>1 DEF CallFails
<1>3. ASSUME NEW n \in Nodes, CallReturnsAtOnce(n) PROVE Fine'
  <2>1. Orderly(Known, Len(stack))
    BY <1>3, <1>a DEF CallReturnsAtOnce, Calls, Running
  <2> QED
    BY <1>3, <2>1, PassedOverOrderly
<1>4. ASSUME NEW n \in Nodes, Enter(n) PROVE Fine'
  <2>1. Orderly(Known, Len(stack))
    BY <1>4, <1>a DEF Enter, Calls, Running
  <2> QED
    BY <1>4, <2>1, EnterOrderly, EnterFrames
<1>5. CASE StartAttempt
  <2>1. /\ stack # << >> /\ Top.pc = "attempt" /\ Top.node # Root /\ Top.node \in Nodes
        /\ UNCHANGED graph /\ failure = "none"
    BY <1>5, OutcomeTop DEF StartAttempt, Running
  <2>2. CASE ContextDone(Len(stack))
    <3>1. stack' = Below /\ failure' = "interrupt" /\ UNCHANGED <<status, attempts>>
      BY <1>5, <2>2 DEF StartAttempt
    <3> QED
      BY <1>c, <2>1, <3>1
  <2>3. CASE ~ContextDone(Len(stack))
    <3>1. /\ status' = [status EXCEPT ![Top.node] = "running"]
          /\ attempts' = [attempts EXCEPT ![Top.node] = IF @ = 0 THEN 1 ELSE @]
          /\ IF graph.type[Top.node] = "loop"
             THEN Replace([Top EXCEPT !.pc = "iterate", !.item = 0, !.before = Nodes])
             ELSE Replace([Top EXCEPT !.pc = "body"])
      BY <1>5, <2>3 DEF StartAttempt
    <3>2. PICK f : /\ Replace(f) /\ f.node = Top.node /\ f.pc \in {"iterate", "body"}
                   /\ f.pc = "iterate" <=> graph.type[Top.node] = "loop"
      <4>1. /\ [Top EXCEPT !.pc = "iterate", !.item = 0, !.before = Nodes].node = Top.node
            /\ [Top EXCEPT !.pc = "iterate", !.item = 0, !.before = Nodes].pc = "iterate"
            /\ [Top EXCEPT !.pc = "body"].node = Top.node
            /\ [Top EXCEPT !.pc = "body"].pc = "body"
        BY <2>1, OutcomeTop DEF FrameType
      <4>2. CASE graph.type[Top.node] = "loop"
        BY <3>1, <4>1, <4>2
      <4>3. CASE graph.type[Top.node] # "loop"
        BY <3>1, <4>1, <4>3
      <4> QED
        BY <4>2, <4>3
    <3>3. PICK k \in Nat : k = Len(stack) /\ k >= 1
      BY <2>1, OutcomeTop
    <3>4. PICK a \in Nat : /\ a = IF attempts[Top.node] = 0 THEN 1 ELSE attempts[Top.node]
                           /\ a >= attempts[Top.node]
      BY <1>0, <2>1
    <3>5. attempts' = [attempts EXCEPT ![Top.node] = a]
      BY <3>1, <3>4
    <3>6. KeepsStates
      BY <1>0, <2>1, <3>1, <3>4, <3>5 DEF KeepsStates
    <3>7. Orderly(Known, k)
      BY <1>a, <2>1, <3>3
    <3>8. Top.pc # "next" /\ f.pc # "next" /\ f.pc # "loop"
      BY <2>1, <3>2
    <3>9. LoopFrames'
      BY <2>1, <3>2, <3>3, <3>6, <3>8, GoOnFrames
    <3>10. Orderly(Known, Len(stack))'
      BY <2>1, <3>1, <3>2, <3>3, <3>4, <3>5, <3>7, <3>8, OpenOrderly
    <3> QED
      BY <3>9, <3>10
  <2> QED
    BY <2>2, <2>3
<1>6. CASE BodySucceeds
  <2>1. /\ stack # << >> /\ Top.pc \notin {"next", "attempt"} /\ UNCHANGED <<graph, attempts>>
        /\ status' = [status EXCEPT ![Top.node] = "completed"] /\ "completed" \in Settled
        /\ failure = "none"
    BY <1>6 DEF BodySucceeds, Running, Settled
  <2>2. ASSUME NEW result, NEW chosen,
               Replace([Top EXCEPT !.pc = "next", !.todo = Follow(Top.node, result, chosen)])
        PROVE  Fine'
    <3>1. PICK T \in SUBSET Nodes : T = Follow(Top.node, result, chosen)
      BY <1>0, TargetsAreNodes
    <3>2. \A n : Top.node \in Parents(n) /\ CallsItsJoin(Top.node, n) => n \in T
      BY <3>1, FollowsToJoins
    <3>3. Orderly(Known, Len(stack))
      BY <1>a, <2>1
    <3>4. Replace([Top EXCEPT !.pc = "next", !.todo = T])
      BY <2>2, <3>1
    <3> QED
      BY <1>f, <2>1, <3>2, <3>3, <3>4
  <2>3. ASSUME Replace([Top EXCEPT !.pc = "next"]), failure' = "error" PROVE Fine'
    BY <1>e, <2>1, <2>3
  <2> QED
    BY <1>6, <2>2, <2>3 DEF BodySucceeds
<1>7. CASE BodyFails
  BY <1>7, <1>a, <1>b DEF BodyFails, Running
<1>8. CASE BodyPanics
  <2>1. stack' = << >> /\ returned' = "error"
    BY <1>8 DEF BodyPanics
  <2> QED
    BY <2>1 DEF LoopFrames
<1>9. CASE LoopFails
  BY <1>9, <1>a, <1>b DEF LoopFails, AtLoopHead, Running
<1>10. CASE LoopIterates
  <2>1. Orderly(Known, Len(stack))
    BY <1>10, <1>a DEF LoopIterates, AtLoopHead, Running
  <2> QED
    BY <1>10, <2>1, IterateOrderly
<1>11. CASE LoopForgets
  BY <1>11, ForgetOrderly
<1>12. CASE LoopCompletes
  <2>1. /\ stack # << >> /\ Top.pc = "iterate" /\ UNCHANGED <<graph, attempts>>
        /\ status' = [status EXCEPT ![Top.node] = "completed"] /\ "completed" \in Settled
        /\ Replace([Top EXCEPT !.pc = "next", !.todo = Continuation(Top.node)])
        /\ failure = "none"
    BY <1>12 DEF LoopCompletes, AtLoopHead, Running, Settled
  <2>2. PICK T \in SUBSET Nodes : T = Continuation(Top.node)
    BY <1>0, TargetsAreNodes
  <2>3. \A n : ~CallsItsJoin(Top.node, n)
    BY <2>1, OutcomeTop DEF CallsItsJoin
  <2>4. Orderly(Known, Len(stack))
    BY <1>a, <2>1
  <2>5. Replace([Top EXCEPT !.pc = "next", !.todo = T])
    BY <2>1, <2>2
  <2> QED
    BY <1>f, <2>1, <2>3, <2>4, <2>5
<1>13. CASE NodeReturns
  <2>1. /\ stack # << >> /\ Top.pc = "next" /\ Top.todo = {} /\ Top.node # Root
        /\ stack' = Below /\ UNCHANGED <<graph, status, attempts>> /\ failure = "none"
    BY <1>13 DEF NodeReturns, Running
  <2>2. Orderly(Known, Len(stack))
    BY <1>a, <2>1
  <2>3. KeepsStates
    BY <2>1 DEF KeepsStates
  <2> QED
    BY <2>1, <2>2, <2>3, ReturnOrderly, PopFrames
<1>14. CASE ExecutionReturns
  <2>1. Orderly(Known, Len(stack))
    BY <1>14, <1>a DEF ExecutionReturns, Running
  <2>2. stack' = << >>
    BY <1>14 DEF ExecutionReturns
  <2> QED
    BY <1>14, <2>1, <2>2, EndOrderly DEF LoopFrames
<1>15. CASE PassOn
  <2>1. /\ stack # << >> /\ Top.node # Root /\ failure # "none" /\ stack' = Below
        /\ failure' # "none" /\ UNCHANGED <<graph, status, attempts>>
    BY <1>15 DEF PassOn, Failing
  <2> QED
    BY <1>c, <2>1
<1>16. CASE Retry
  <2>1. /\ stack # << >> /\ Top.pc \in {"body", "iterate", "loop"} /\ UNCHANGED graph
        /\ status' = [status EXCEPT ![Top.node] = "retrying"]
        /\ attempts' = [attempts EXCEPT ![Top.node] = @ + 1]
        /\ Replace([Top EXCEPT !.pc = "attempt", !.todo = {}])
    BY <1>16 DEF Retry, Handles, Failing, AtBody
  <2>2. PICK f : Replace(f) /\ f.node = Top.node /\ f.pc = "attempt"
    <3>1. /\ [Top EXCEPT !.pc = "attempt", !.todo = {}].node = Top.node
          /\ [Top EXCEPT !.pc = "attempt", !.todo = {}].pc = "attempt"
      BY <2>1, OutcomeTop DEF FrameType
    <3> QED
      BY <2>1, <3>1
  <2>3. PICK k \in Nat : k = Len(stack) /\ k >= 1
    BY <2>1, OutcomeTop
  <2>4. PICK m \in Nodes : m = Top.node /\ m \in Known
    BY <2>1, OutcomeTop
  <2>5. PICK a \in Nat : a = attempts[m] + 1 /\ a >= attempts[m] /\ a > 1
    <3>1. attempts[m] \in Nat /\ attempts[m] # 0
      BY <1>0, <2>4 DEF Known
    <3> QED
      BY <3>1
  <2>6. attempts' = [attempts EXCEPT ![Top.node] = a]
    BY <2>1, <2>4, <2>5
  <2>7. status'[m] = "retrying" /\ attempts'[m] = a
    BY <1>0, <2>1, <2>4, <2>6
  <2>8. KeepsStates
    BY <1>0, <2>1, <2>4, <2>5, <2>6 DEF KeepsStates
  <2>9. LoopFrames'
    BY <2>1, <2>2, <2>3, <2>8, GoOnFrames
  <2>10. CASE Top.pc = "body"
    <3>1. Orderly(Known, k)
      BY <1>a, <2>1, <2>3, <2>10
    <3>2. Top.pc # "next" /\ f.pc # "next"
      BY <2>1, <2>2
    <3>3. Orderly(Known, Len(stack))'
      BY <2>1, <2>2, <2>3, <2>4, <2>5, <2>6, <3>1, <3>2, OpenOrderly
    <3> QED
      BY <2>9, <3>3
  <2>11. CASE Top.pc # "body"
    <3>1. graph.type[m] = "loop"
      BY <2>1, <2>4, <2>11, OutcomeTop
    <3>2. Absorbs(m)' /\ m \in Known'
      BY <2>1, <2>4, <2>5, <2>7, <3>1 DEF Absorbs, Known, Nodes
    <3>3. Orderly(Known, Len(stack))'
      BY <3>2 DEF Orderly, AbsorbedIn
    <3> QED
      BY <2>9, <3>3
  <2> QED
    BY <2>10, <2>11
<1>17. CASE Skip
  <2>1. /\ stack # << >> /\ Top.pc \in {"body", "iterate", "loop"}
        /\ Top.pc \notin {"next", "attempt"} /\ UNCHANGED <<graph, attempts>>
        /\ status' = [status EXCEPT ![Top.node] = "skipped"] /\ "skipped" \in Settled
    BY <1>17 DEF Skip, GivesUp, Handles, Failing, AtBody, Settled
  <2>2. PICK m \in Nodes : m = Top.node
    BY <2>1, OutcomeTop
  <2>3. Top.pc = "body" => Orderly(Known, Len(stack))
    BY <1>a, <2>1
  <2>4. ASSUME Top.pc # "body" PROVE Orderly(Known, Len(stack))'
    <3>1. graph.type[m] = "loop"
      BY <2>1, <2>2, <2>4, OutcomeTop
    <3>2. status'[m] = "skipped"
      BY <1>0, <2>1, <2>2
    <3>3. Absorbs(m)' /\ m \in Known'
      BY <2>1, <2>2, <3>1, <3>2 DEF Absorbs, Known, Nodes
    <3> QED
      BY <3>3 DEF Orderly, AbsorbedIn
  <2>5. ASSUME NEW T \in SUBSET Nodes, Replace([Top EXCEPT !.pc = "next", !.todo = T]),
               \A n : Top.node \in Parents(n) /\ CallsItsJoin(Top.node, n) => n \in T
        PROVE  Fine'
    BY <1>f, <2>1, <2>3, <2>4, <2>5
  <2>6. ASSUME NEW chosen, Replace([Top EXCEPT !.pc = "next", !.todo = Follow(Top.node, FALSE, chosen)])
        PROVE  Fine'
    <3>1. PICK T \in SUBSET Nodes : T = Follow(Top.node, FALSE, chosen)
      BY <1>0, TargetsAreNodes
    <3>2. \A n : Top.node \in Parents(n) /\ CallsItsJoin(Top.node, n) => n \in T
      BY <3>1, FollowsToJoins
    <3>3. Replace([Top EXCEPT !.pc = "next", !.todo = T])
      BY <2>6, <3>1
    <3> QED
      BY <2>5, <3>2, <3>3
  <2>7. ASSUME Replace([Top EXCEPT !.pc = "next"]), failure' = "error" PROVE Fine'
    BY <1>e, <2>1, <2>7
  <2>8. ASSUME graph.onError[Top.node] = "goto", graph.gotoNode[Top.node] \in Nodes,
               Replace([Top EXCEPT !.pc = "next", !.todo = {graph.gotoNode[Top.node]}])
        PROVE  Fine'
    <3>1. PICK T \in SUBSET Nodes : T = {graph.gotoNode[Top.node]}
      BY <2>8
    <3>2. \A n : ~CallsItsJoin(Top.node, n)
      BY <2>8 DEF CallsItsJoin
    <3>3. Replace([Top EXCEPT !.pc = "next", !.todo = T])
      BY <2>8, <3>1
    <3> QED
      BY <2>5, <3>2, <3>3
  <2> QED
    BY <1>17, <2>6, <2>7, <2>8 DEF Skip
<1>18. CASE Fail
  <2>1. /\ stack # << >> /\ Top.pc # "next" /\ UNCHANGED <<graph, attempts, failure>>
        /\ failure # "none" /\ stack' = Below
        /\ status' = [status EXCEPT ![Top.node] = "failed"]
    BY <1>18 DEF Fail, GivesUp, Handles, Failing, AtBody
  <2>2. Top.node # Root
    BY <2>1, OutcomeTop
  <2> QED
    BY <1>c, <2>1, <2>2
<1>19. CASE ExecutionFails
  <2>1. stack' = << >> /\ returned' = "error"
    BY <1>19 DEF ExecutionFails
  <2> QED
    BY <2>1 DEF LoopFrames
<1>20. ASSUME UNCHANGED <<graph, status, attempts, stack, failure, returned>> PROVE Fine'
  <2>1. Unwinding => Unwinding'
    BY <1>20 DEF Unwinding, Top
  <2>2. returned = "error" => returned' = "error"
    BY <1>20
  <2> QED
    BY <1>0, <1>b, <1>20, <2>1, <2>2
<1>21. CASE Cancel
  BY <1>20, <1>21 DEF Cancel
<1>22. CASE Expire
  BY <1>20, <1>22 DEF Expire
<1>23. CASE UNCHANGED vars
  BY <1>20, <1>23 DEF vars
<1> QED
  BY <1>1, <1>2, <1>3, <1>4, <1>5, <1>6, <1>7, <1>8, <1>9, <1>10, <1>11, <1>12, <1>13, <1>14, <1>15, <1>16, <1>17, <1>18, <1>19, <1>21, <1>22, <1>23
  DEF Next, Execute, Call, Finished

THEOREM OutcomeInvariance == Spec => []OutcomeOK
<1>1. Init => OutcomeOK
  BY InitInv, InitJoin, InitOutcome DEF OutcomeOK, JoinsOK
<1>2. OutcomeOK /\ [Next]_vars => OutcomeOK'
  BY StepInv, StepJoin, StepOutcome DEF OutcomeOK, JoinsOK
<1> QED
  BY <1>1, <1>2, PTL DEF Spec

(* When the execution has returned without an error, no call is left.      *)
LEMMA AtTheEnd ==
    ASSUME OutcomeOK, returned = "nil", ~Absorbed
    PROVE  /\ \A n \in Known : status[n] \in Settled
           /\ \A n \in Nodes : JoinDue(n, Known) => status[n] \in Settled
<1>1. stack = << >>
  BY DEF OutcomeOK, OutcomeInv, StatesOK
<1>2. Len(stack) = 0
  BY <1>1
<1>3. Orderly(Known, 0)
  BY <1>1, <1>2 DEF OutcomeOK, OutcomeInv, Unwinding
<1>4. Tidy(Known, 0)
  BY <1>3 DEF Orderly, AbsorbedIn, Absorbed, Known
<1>5. OnStack(0) = {} /\ \A n : ~Pending(n, 0)
  BY DEF OnStack, Pending
<1> QED
  BY <1>4, <1>5 DEF Tidy

(* A completed execution hides no failed node: a call that ends in an      *)
(* error passes it to its caller, and only a loop that tries again or is   *)
(* skipped makes an error disappear with another node's state behind it.   *)
THEOREM NoHiddenFailure == Spec => []CompletedHasNoFailure
<1>1. OutcomeOK => CompletedHasNoFailure
  <2> SUFFICES ASSUME OutcomeOK, returned = "nil", NEW n \in Nodes, status[n] = "failed", ~Absorbed
               PROVE  FALSE
    BY DEF CompletedHasNoFailure
  <2>1. n \in Known
    BY DEF Known
  <2> QED
    BY <2>1, AtTheEnd DEF Settled
<1> QED
  BY <1>1, OutcomeInvariance, PTL

(* The last parent runs the join: executeNode calls a join once for every  *)
(* parent that settles and returns at once while another is not, and the   *)
(* call of the parent that settles last is never lost - not to a forgotten *)
(* iteration, a skipped node or an error on its way up - unless a loop     *)
(* absorbed that error.                                                    *)
THEOREM JoinsAreRun == Spec => []LastParentRunsJoin
<1>1. OutcomeOK => LastParentRunsJoin
  <2> SUFFICES ASSUME OutcomeOK, returned = "nil", ~Absorbed, NEW n \in Nodes,
                      graph.type[n] = "join", Parents(n) # {},
                      \A p \in Parents(n) : status[p] \in Settled /\ CallsItsJoin(p, n)
               PROVE  status[n] \in Settled
    BY DEF LastParentRunsJoin
  <2>1. \A e \in graph.edges : e.source \in Nodes
    BY GraphAssumption DEF OutcomeOK, JoinsOK, IInv, StackOK, ValidGraph, Nodes
  <2>2. Parents(n) \subseteq Nodes
    BY <2>1 DEF Parents
  <2>3. JoinDue(n, Known)
    BY <2>2 DEF JoinDue, Known, Settled
  <2> QED
    BY <2>3, AtTheEnd
<1> QED
  BY <1>1, OutcomeInvariance, PTL

-----------------------------------------------------------------------------
(* Loops.  What makes a loop serve every item is that its body nodes have  *)
(* no state when the loop is called afresh and at the head of every        *)
(* iteration: a node that only the loop can reach has a state only if the  *)
(* loop has one, which holds of the states as they are and of those that   *)
(* each loop on the stack will keep.                                       *)
Sole(S) == \A l \in Nodes, n \in S : OnlyThrough(l, n) => l \in S

Fresh(l) == attempts[l] <= 1 /\ <<l, 0>> \notin served[l]

ServedTo(l, n, k) == \A i \in 1 .. k : <<n, i>> \in served[l]

Untouched(l) == \A n \in Nodes : OnlyThrough(l, n) => status[n] = "none"

AtHead(l, i) ==
    \A n \in Nodes : OnlyThrough(l, n) => status[n] = "none" /\ ServedTo(l, n, i)

(* In the body every node was served for the items before; for the item    *)
(* under way it was served, is to be called, has just been called, or the  *)
(* iteration has failed.                                                   *)
InBody(j, l, i) ==
    \A n \in Nodes : OnlyThrough(l, n) =>
        /\ n \notin stack[j].before
        /\ ServedTo(l, n, i - 1)
        /\ \/ <<n, i>> \in served[l]
           \/ status[n] = "none" /\ n \in stack[j].todo
           \/ /\ j < Len(stack) /\ stack[j + 1].node = n
              /\ stack[j + 1].pc = "attempt" /\ status[n] = "none"
           \/ j = Len(stack) /\ failure # "none"

CallFrame(j) ==
    /\ \A l \in Nodes : OnlyThrough(l, stack[j].node) => stack[j - 1].node = l
    /\ \A n \in stack[j].todo, l \in Nodes : OnlyThrough(l, n) => stack[j].node = l
    /\ stack[j].pc = "loop" => Sole(stack[j].before)
    /\ \A l \in Nodes : stack[j].node = l /\ graph.type[l] = "loop" /\ Fresh(l) =>
          /\ stack[j].pc = "attempt" => Untouched(l)
          /\ stack[j].pc = "iterate" => AtHead(l, stack[j].item)
          /\ stack[j].pc = "loop" => InBody(j, l, stack[j].item)

CallFrames == \A j \in 2 .. Len(stack) : CallFrame(j)

RootCalls == stack # << >> => \A n \in stack[1].todo, l \in Nodes : ~OnlyThrough(l, n)

ServingInv ==
    /\ Sole(Known)
    /\ RootCalls
    /\ CallFrames
    /\ LoopServesEveryItem

ServingOK == OutcomeOK /\ ServingInv

LEMMA InitServing == Init => ServingInv
<1> SUFFICES ASSUME Init PROVE ServingInv
  OBVIOUS
<1>1. /\ \A n \in Nodes : status[n] = "none"
      /\ Len(stack) = 1 /\ stack[1].todo = StartNodes(graph)
  BY DEF Init, Frame, Nodes
<1>2. \A n \in StartNodes(graph), l \in Nodes : ~OnlyThrough(l, n)
  BY DEF StartNodes, OnlyThrough, Parents
<1> QED
  BY <1>1, <1>2 DEF ServingInv, Sole, Known, RootCalls, CallFrames, LoopServesEveryItem

LEMMA SameGraph ==
    ASSUME UNCHANGED graph
    PROVE  /\ \A l, n : OnlyThrough(l, n)' <=> OnlyThrough(l, n)
           /\ \A S : Sole(S)' <=> Sole(S)
<1>1. \A l, n : OnlyThrough(l, n)' <=> OnlyThrough(l, n)
  BY DEF OnlyThrough, Parents, Body, HasBodyEdge, Targets, Nodes
<1> QED
  BY <1>1 DEF Sole, Nodes

(* Only the loop calls a body node that only it can reach, and no node     *)
(* does so for itself.                                                     *)
LEMMA SoleCaller ==
    ASSUME ServingOK, stack # << >>, Top.node # Root, NEW l \in Nodes,
           OnlyThrough(l, Top.node)
    PROVE  Caller.node = l /\ l # Top.node /\ l \in Known
<1>0. StackOK
  BY DEF ServingOK, OutcomeOK, JoinsOK, IInv
<1>1. PICK k \in Nat : k = Len(stack) /\ k >= 1 /\ k # 1
  BY OutcomeTop DEF ServingOK
<1>2. k \in 2 .. k /\ k - 1 \in 1 .. k /\ k \in 1 .. k /\ k - 1 # k
  BY <1>1
<1>3. CallFrame(k)
  BY <1>1, <1>2 DEF ServingOK, ServingInv, CallFrames
<1>4. stack[k - 1].node = l
  BY <1>1, <1>3 DEF CallFrame, Top
<1>5. l # Top.node
  BY <1>0, <1>1, <1>2, <1>4 DEF StackOK, NeverReentered, Top
<1>6. l \in Known
  <2>1. CASE k - 1 = 1
    BY <1>0, <1>4, <2>1, NodeFrames DEF StackOK, RootFrame
  <2>2. CASE k - 1 # 1
    <3>1. k - 1 \in 2 .. k /\ k - 1 < k
      BY <1>1, <2>2
    <3>2. FrameOK(k - 1)
      BY <1>1, <3>1 DEF ServingOK, OutcomeOK, JoinsOK, JoinInv, FramesOK
    <3> QED
      BY <1>1, <1>4, <3>1, <3>2 DEF FrameOK, Known
  <2> QED
    BY <2>1, <2>2
<1> QED
  BY <1>1, <1>4, <1>5, <1>6 DEF Caller

(* What a step does to the states and records of the calls below the top.  *)
KeepsRecords ==
    /\ \A n \in Nodes : n # Top.node /\ status[n] = "none" => status'[n] = "none"
    /\ \A j \in 2 .. Len(stack) - 1 :
          /\ attempts'[stack[j].node] = attempts[stack[j].node]
          /\ served[stack[j].node] \subseteq served'[stack[j].node]
    /\ Top.pc = "attempt" =>
          \/ /\ Len(stack') = Len(stack) - 1 /\ failure' # "none"
             /\ status'[Top.node] = status[Top.node]
          \/ Caller.pc = "loop" => <<Top.node, Caller.item>> \in served'[Caller.node]

LEMMA LowerCalls ==
    ASSUME ServingOK, UNCHANGED graph, KeepsRecords,
           NEW k \in Nat, k = Len(stack), k >= 1,
           NEW r \in Nat, r = Len(stack'), r >= k - 1,
           \A i \in 1 .. k - 1 : stack'[i] = stack[i],
           NEW j \in 2 .. k - 1
    PROVE  CallFrame(j)'
<1>0. StackOK /\ stack # << >> /\ OutcomeOK
  BY DEF ServingOK, OutcomeOK, JoinsOK, IInv
<1>1. /\ j \in 2 .. k /\ j < k /\ k # 1 /\ j - 1 \in 1 .. k - 1 /\ j \in 1 .. k - 1
      /\ k \in 1 .. k /\ j \in 1 .. k /\ j # k /\ k - 1 \in 1 .. k
      /\ j + 1 <= k /\ j + 1 \in 2 .. k
      /\ j < r \/ (j = r /\ r = k - 1)
  OBVIOUS
<1>2. CallFrame(j) /\ FrameOK(j)
  BY <1>1 DEF ServingOK, ServingInv, CallFrames, OutcomeOK, JoinsOK, JoinInv, FramesOK
<1>3. stack'[j] = stack[j] /\ stack'[j - 1] = stack[j - 1]
  BY <1>1
<1>4. Top = stack[k] /\ Top.node \in Nodes /\ Top.node # Root
  BY <1>0, <1>1, OutcomeTop DEF Top
<1>5. PICK l : l = stack[j].node
  OBVIOUS
<1>6. l \in Nodes
  BY <1>0, <1>1, <1>5 DEF StackOK, NeverReentered
<1>7. stack[j].pc \in {"next", "loop"}
  BY <1>1, <1>2 DEF FrameOK
<1>8. PICK i : i = stack[j].item
  OBVIOUS
<1>9. ASSUME stack[j].pc = "loop", graph.type[l] = "loop", Fresh(l)' PROVE InBody(j, l, i)'
  <2>1. Fresh(l)
    BY <1>1, <1>5, <1>9 DEF Fresh, KeepsRecords
  <2>2. InBody(j, l, i)
    BY <1>2, <1>5, <1>6, <1>8, <1>9, <2>1 DEF CallFrame
  <2>3. served[l] \subseteq served'[l]
    BY <1>1, <1>5 DEF KeepsRecords
  <2>4. SUFFICES ASSUME NEW n \in Nodes, OnlyThrough(l, n)
                 PROVE  \/ <<n, i>> \in served'[l]
                        \/ status'[n] = "none" /\ n \in stack[j].todo
                        \/ /\ j < r /\ stack'[j + 1].node = n
                           /\ stack'[j + 1].pc = "attempt" /\ status'[n] = "none"
                        \/ j = r /\ failure' # "none"
    BY <1>3, <2>2, <2>3, SameGraph DEF InBody, ServedTo, Nodes
  <2>5. CASE <<n, i>> \in served[l]
    BY <2>3, <2>5
  <2>6. ASSUME n = Top.node, status[n] = "none"
        PROVE  \/ <<n, i>> \in served'[l]
               \/ status'[n] = "none" /\ r = k - 1 /\ j = r /\ failure' # "none"
    <3>1. Top.pc = "attempt"
      BY <1>0, <1>4, <2>6, OutcomeTop DEF Known
    <3>2. stack[k - 1].node = l
      BY <1>0, <1>4, <1>6, <2>4, <2>6, SoleCaller DEF Caller
    <3>3. k - 1 = j
      BY <1>0, <1>1, <1>5, <3>2 DEF StackOK, NeverReentered
    <3>4. Caller = stack[j]
      BY <3>3 DEF Caller
    <3> QED
      BY <1>1, <1>5, <1>8, <1>9, <2>6, <3>1, <3>3, <3>4 DEF KeepsRecords
  <2>7. CASE status[n] = "none" /\ n \in stack[j].todo
    <3>1. CASE n = Top.node
      BY <2>6, <2>7, <3>1
    <3>2. CASE n # Top.node
      BY <2>7, <3>2 DEF KeepsRecords
    <3> QED
      BY <3>1, <3>2
  <2>8. CASE /\ stack[j + 1].node = n
             /\ stack[j + 1].pc = "attempt" /\ status[n] = "none"
    <3>1. j + 1 = k
      <4>1. FrameOK(j + 1)
        BY <1>1 DEF ServingOK, OutcomeOK, JoinsOK, JoinInv, FramesOK
      <4>2. ~(j + 1 < k)
        BY <2>8, <4>1 DEF FrameOK
      <4> QED
        BY <1>1, <4>2
    <3> QED
      BY <1>4, <2>6, <2>8, <3>1
  <2> QED
    BY <1>1, <2>2, <2>4, <2>5, <2>7, <2>8 DEF InBody
<1>10. /\ \A m \in Nodes : OnlyThrough(m, l)' => stack'[j - 1].node = m
       /\ \A n \in stack'[j].todo, m \in Nodes : OnlyThrough(m, n)' => l = m
  BY <1>2, <1>3, <1>5, SameGraph DEF CallFrame
<1>11. PICK S : S = stack[j].before
  OBVIOUS
<1>12. /\ stack'[j].node = l /\ stack'[j].item = i /\ stack'[j].before = S
       /\ stack'[j].pc = stack[j].pc
  BY <1>3, <1>5, <1>8, <1>11
<1>13. stack[j].pc = "loop" => Sole(S)'
  BY <1>2, <1>11, SameGraph DEF CallFrame
<1> QED
  BY <1>7, <1>9, <1>10, <1>12, <1>13 DEF CallFrame, Nodes

(* The top frame goes on as f.                                             *)
LEMMA GoOnCalls ==
    ASSUME ServingOK, UNCHANGED graph, KeepsRecords,
           NEW k \in Nat, k = Len(stack), k >= 1,
           NEW f, Replace(f), f.node = Top.node,
           \A n \in f.todo, l \in Nodes : OnlyThrough(l, n) => l = Top.node,
           f.pc = "loop" => Sole(f.before),
           \A l \in Nodes : l = Top.node /\ graph.type[l] = "loop" /\ Fresh(l)' =>
              /\ f.pc = "attempt" => Untouched(l)'
              /\ f.pc = "iterate" => AtHead(l, f.item)'
              /\ f.pc = "loop" => InBody(k, l, f.item)'
    PROVE  CallFrames' /\ RootCalls'
<1>0. StackOK /\ stack # << >>
  BY DEF ServingOK, OutcomeOK, JoinsOK, IInv
<1>1. /\ Len(stack') = k /\ stack'[k] = f
      /\ \A j \in 1 .. k - 1 : stack'[j] = stack[j]
  BY <1>0, ReplacedStack
<1>2. ASSUME NEW j \in 2 .. k - 1 PROVE CallFrame(j)'
  <2>1. k >= k - 1 /\ stack # << >>
    BY <1>0
  <2> QED
    BY <1>1, <1>2, <2>1, LowerCalls
<1>3. ASSUME k # 1 PROVE CallFrame(k)'
  <2>1. k \in 2 .. k /\ k - 1 \in 1 .. k - 1
    BY <1>3
  <2>2. CallFrame(k) /\ stack'[k - 1] = stack[k - 1]
    BY <1>1, <2>1 DEF ServingOK, ServingInv, CallFrames
  <2>3. PICK m : m = Top.node
    OBVIOUS
  <2>4. /\ \A l \in Nodes : OnlyThrough(l, m)' => stack'[k - 1].node = l
        /\ \A n \in f.todo, l \in Nodes : OnlyThrough(l, n)' => m = l
    BY <2>2, <2>3, SameGraph DEF CallFrame, Top
  <2>5. f.pc = "loop" => Sole(f.before)'
    BY SameGraph
  <2>6. \A l \in Nodes : m = l /\ graph'.type[l] = "loop" /\ Fresh(l)' =>
           /\ f.pc = "attempt" => Untouched(l)'
           /\ f.pc = "iterate" => AtHead(l, f.item)'
           /\ f.pc = "loop" => InBody(k, l, f.item)'
    BY <2>3
  <2> QED
    BY <1>1, <2>3, <2>4, <2>5, <2>6 DEF CallFrame, Nodes
<1>4. \A j \in 2 .. k : j \in 2 .. k - 1 \/ (j = k /\ k # 1)
  OBVIOUS
<1>5. RootCalls'
  <2>1. CASE k = 1
    <3>1. Top.node \notin Nodes
      BY <1>0, <2>1, NodeFrames
    <3> QED
      BY <1>1, <2>1, <3>1, SameGraph DEF RootCalls, Nodes
  <2>2. CASE k # 1
    <3>1. stack'[1] = stack[1]
      BY <1>1, <2>2
    <3> QED
      BY <1>0, <3>1, SameGraph DEF ServingOK, ServingInv, RootCalls, Nodes
  <2> QED
    BY <2>1, <2>2
<1> QED
  BY <1>1, <1>2, <1>3, <1>4, <1>5 DEF CallFrames

(* A call returns.                                                         *)
LEMMA PopCalls ==
    ASSUME ServingOK, UNCHANGED graph, KeepsRecords, Top.node # Root,
           stack # << >>, stack' = Below
    PROVE  CallFrames' /\ RootCalls'
<1>1. PICK k \in Nat : k = Len(stack) /\ k >= 1 /\ k # 1
  BY OutcomeTop DEF ServingOK
<1>2. /\ Len(stack') = k - 1 /\ k - 1 \in Nat
      /\ \A j \in 1 .. k - 1 : stack'[j] = stack[j]
  BY <1>1, StackFacts DEF ServingOK, OutcomeOK, JoinsOK, IInv
<1>3. ASSUME NEW j \in 2 .. k - 1 PROVE CallFrame(j)'
  <2>1. PICK r \in Nat : r = k - 1 /\ r >= k - 1
    BY <1>1, <1>2
  <2>2. r = Len(stack')
    BY <1>2, <2>1
  <2> QED
    BY <1>1, <1>2, <1>3, <2>1, <2>2, LowerCalls
<1>4. stack'[1] = stack[1]
  BY <1>1, <1>2
<1>5. RootCalls'
  BY <1>4, SameGraph DEF ServingOK, ServingInv, RootCalls, Nodes
<1> QED
  BY <1>2, <1>3, <1>5 DEF CallFrames

(* What the top frame is to call.                                          *)
LEMMA TopCalls ==
    ASSUME ServingOK, stack # << >>, NEW n \in Top.todo, NEW l \in Nodes, OnlyThrough(l, n)
    PROVE  Top.node = l
<1>1. PICK k \in Nat : k = Len(stack) /\ k >= 1
  BY OutcomeTop DEF ServingOK
<1>2. CASE k = 1
  BY <1>1, <1>2 DEF ServingOK, ServingInv, RootCalls, Top
<1>3. CASE k # 1
  <2>1. k \in 2 .. k
    BY <1>1, <1>3
  <2> QED
    BY <1>1, <2>1 DEF ServingOK, ServingInv, CallFrames, CallFrame, Top
<1> QED
  BY <1>2, <1>3

LEMMA FollowersAreChildren ==
    ASSUME NEW m, NEW n, NEW result, NEW chosen,
           \/ n \in Follow(m, result, chosen)
           \/ n \in Body(m)
           \/ n \in Continuation(m)
    PROVE  \A l : OnlyThrough(l, n) => l = m
<1>1. m \in Parents(n)
  BY DEF Follow, Body, Continuation, Targets, Parents
<1> QED
  BY <1>1 DEF OnlyThrough

(* A node is entered.                                                      *)
LEMMA EnterCalls ==
    ASSUME ServingOK, NEW n \in Nodes, Enter(n)
    PROVE  CallFrames' /\ RootCalls' /\ LoopServesEveryItem'
<1>0. /\ StackOK /\ stack # << >> /\ UNCHANGED <<graph, status, attempts>>
      /\ Top.pc \in {"next", "loop"} /\ failure = "none" /\ n \in Top.todo
      /\ n \notin active /\ ~NothingToDo(n)
      /\ served' = [served EXCEPT ![n] = Resumed(n)]
      /\ served \in [Nodes -> SUBSET (Nodes \X Nat)]
  BY DEF ServingOK, OutcomeOK, JoinsOK, IInv, RestOK, Enter, Calls, Running
<1>1. PICK k \in Nat : k = Len(stack) /\ k >= 1
  BY <1>0, StackFacts
<1>2. PICK f : f = Called(n)
  OBVIOUS
<1>3. /\ f.node = Top.node /\ f.pc = Top.pc /\ f.before = Top.before
      /\ f.item = Top.item /\ f.todo = Top.todo \ {n}
  BY <1>0, <1>2, StackFacts DEF Called, FrameType
<1>4. /\ Len(stack') = k + 1 /\ stack'[k] = f
      /\ stack'[k + 1].node = n /\ stack'[k + 1].pc = "attempt" /\ stack'[k + 1].todo = {}
      /\ \A j \in 1 .. k - 1 : stack'[j] = stack[j]
  <2>1. Frame(n).todo = {}
    BY DEF Frame
  <2> QED
    BY <1>0, <1>1, <1>2, <2>1, EnteredStack
<1>5. \A j \in 2 .. k : stack[j].node \in active
  BY <1>0, <1>1 DEF StackOK, NeverReentered
<1>6. /\ \A l \in Nodes : l # n => served'[l] = served[l]
      /\ served'[n] = Resumed(n)
  BY <1>0
<1>7. ASSUME NEW j \in 2 .. k - 1 PROVE CallFrame(j)'
  <2>1. KeepsRecords
    <3>1. ASSUME NEW i \in 2 .. k - 1
          PROVE  served[stack[i].node] \subseteq served'[stack[i].node]
      <4>1. i \in 2 .. k
        BY <1>1
      <4> QED
        BY <1>0, <1>5, <1>6, <4>1 DEF StackOK
    <3> QED
      BY <1>0, <1>1, <3>1 DEF KeepsRecords
  <2>2. PICK r \in Nat : r = Len(stack') /\ r >= k - 1
    BY <1>1, <1>4
  <2>3. UNCHANGED graph
    BY <1>0
  <2> QED
    BY ONLY ServingOK, <1>1, <1>4, <1>7, <2>1, <2>2, <2>3, LowerCalls
<1>8. ASSUME k # 1 PROVE CallFrame(k)'
  <2>1. k \in 2 .. k /\ k - 1 \in 1 .. k - 1
    BY <1>1, <1>8
  <2>2. CallFrame(k) /\ stack'[k - 1] = stack[k - 1]
    BY <1>1, <1>4, <2>1 DEF ServingOK, ServingInv, CallFrames
  <2>3. PICK m \in Nodes : m = Top.node /\ m \in active /\ m = stack[k].node
    BY <1>0, <1>1, <1>5, <2>1 DEF StackOK, Top
  <2>4. served'[m] = served[m]
    BY <1>0, <1>6, <2>3
  <2>5. ASSUME Top.pc = "loop", graph.type[m] = "loop", Fresh(m)' PROVE InBody(k, m, f.item)'
    <3>1. Fresh(m)
      BY <1>0, <2>4, <2>5 DEF Fresh
    <3>2. InBody(k, m, f.item)
      BY <1>1, <1>3, <2>2, <2>3, <2>5, <3>1 DEF CallFrame, Top
    <3>3. ASSUME NEW x \in Nodes, OnlyThrough(m, x)
          PROVE  /\ x \notin f.before
                 /\ ServedTo(m, x, f.item - 1)'
                 /\ \/ <<x, f.item>> \in served'[m]
                    \/ status'[x] = "none" /\ x \in f.todo
                    \/ x = n /\ status'[x] = "none"
      <4>1. /\ x \notin f.before /\ ServedTo(m, x, f.item - 1)
            /\ \/ <<x, f.item>> \in served[m]
               \/ status[x] = "none" /\ x \in Top.todo
        BY <1>0, <1>1, <1>3, <3>2, <3>3 DEF InBody, Top
      <4> QED
        BY <1>0, <1>3, <2>4, <4>1 DEF ServedTo
    <3>4. k < Len(stack')
      BY <1>1, <1>4
    <3> QED
      BY <1>0, <1>4, <3>3, <3>4, SameGraph DEF InBody, Nodes
  <2>6. /\ \A l \in Nodes : OnlyThrough(l, m)' => stack'[k - 1].node = l
        /\ \A x \in f.todo, l \in Nodes : OnlyThrough(l, x)' => m = l
    BY <1>0, <1>1, <1>3, <2>2, <2>3, SameGraph DEF CallFrame, Top
  <2>7. PICK S : S = stack[k].before /\ S = f.before
    BY <1>1, <1>3 DEF Top
  <2>8. f.pc = "loop" => Sole(S)'
    BY <1>0, <1>1, <1>3, <2>2, <2>7, SameGraph DEF CallFrame, Top
  <2>9. /\ stack'[k].node = m /\ stack'[k].pc = f.pc /\ stack'[k].before = S
        /\ stack'[k].todo = f.todo /\ stack'[k].item = f.item
        /\ f.pc = Top.pc /\ f.pc # "attempt" /\ f.pc # "iterate"
    BY <1>0, <1>3, <1>4, <2>3, <2>7
  <2> QED
    BY <1>0, <2>5, <2>6, <2>8, <2>9 DEF CallFrame, Nodes
<1>9. CallFrame(k + 1)'
  <2>1. \A l \in Nodes : OnlyThrough(l, n) => f.node = l
    BY <1>0, <1>3, TopCalls
  <2>2. ASSUME Fresh(n)' PROVE Untouched(n)'
    <3>1. status[n] = "none"
      BY <1>6, <2>2 DEF Fresh, Resumed
    <3>2. Sole(Known) /\ n \notin Known
      BY <3>1 DEF ServingOK, ServingInv, Known
    <3>3. Untouched(n)
      BY <3>2 DEF Untouched, Sole, Known
    <3> QED
      BY <1>0, <3>3, SameGraph DEF Untouched, Nodes
  <2>3. stack'[k + 1 - 1] = f
    BY <1>1, <1>4
  <2> QED
    BY <1>0, <1>4, <2>1, <2>2, <2>3, SameGraph DEF CallFrame, Nodes
<1>10. \A j \in 2 .. k + 1 : j \in 2 .. k - 1 \/ (j = k /\ k # 1) \/ j = k + 1
  BY <1>1
<1>11. RootCalls'
  <2>1. stack'[1].todo \subseteq stack[1].todo
    BY <1>1, <1>3, <1>4 DEF Top
  <2> QED
    BY <1>0, <2>1, SameGraph DEF ServingOK, ServingInv, RootCalls, Nodes
<1>12. LoopServesEveryItem'
  <2>1. status[n] # "completed"
    BY <1>0 DEF NothingToDo, Settled
  <2>2. \A l \in Nodes : l # n => (ServedAll(l) => ServedAll(l)')
    BY <1>0, <1>6, SameGraph DEF ServedAll, Nodes
  <2> QED
    BY <1>0, <1>6, <2>1, <2>2 DEF ServingOK, ServingInv, LoopServesEveryItem, Nodes
<1> QED
  BY <1>4, <1>7, <1>8, <1>9, <1>10, <1>11, <1>12 DEF CallFrames

(* The stack, the states and the records stay; an error may arise.         *)
LEMMA SameCalls ==
    ASSUME ServingOK, UNCHANGED <<graph, status, attempts, served>>,
           \/ stack' = << >>
           \/ stack' = stack /\ (failure # "none" => failure' # "none")
    PROVE  ServingInv'
<1>1. Known' = Known
  BY DEF Known, Nodes
<1>2. Sole(Known)'
  BY <1>1, SameGraph DEF ServingOK, ServingInv
<1>3. LoopServesEveryItem'
  BY SameGraph DEF ServingOK, ServingInv, LoopServesEveryItem, ServedAll, Nodes
<1>4. CASE stack' = << >>
  BY <1>2, <1>3, <1>4 DEF ServingInv, RootCalls, CallFrames
<1>5. CASE stack' = stack /\ (failure # "none" => failure' # "none")
  <2>1. ASSUME NEW j \in 2 .. Len(stack) PROVE CallFrame(j)'
    <3>1. CallFrame(j)
      BY DEF ServingOK, ServingInv, CallFrames
    <3>2. PICK S : S = stack[j].before
      OBVIOUS
    <3>3. Sole(S)' <=> Sole(S)
      BY SameGraph
    <3>4. \A l, i : InBody(j, l, i) => InBody(j, l, i)'
      BY <1>5, SameGraph DEF InBody, ServedTo, Nodes
    <3>5. \A l, i : AtHead(l, i) => AtHead(l, i)'
      BY SameGraph DEF AtHead, ServedTo, Nodes
    <3>6. \A l : Untouched(l) => Untouched(l)'
      BY SameGraph DEF Untouched, Nodes
    <3>7. \A l : Fresh(l)' <=> Fresh(l)
      BY DEF Fresh
    <3>8. PICK i : i = stack[j].item
      OBVIOUS
    <3>9. PICK m : m = stack[j].node
      OBVIOUS
    <3>10. \A l \in Nodes : OnlyThrough(l, m)' => stack'[j - 1].node = l
      BY <1>5, <3>1, <3>9, SameGraph DEF CallFrame
    <3>11. /\ stack'[j].node = m /\ stack'[j].item = i /\ stack'[j].before = S
           /\ stack'[j].pc = stack[j].pc /\ stack'[j].todo = stack[j].todo
      BY <1>5, <3>2, <3>8, <3>9
    <3>12. /\ \A n \in stack[j].todo, l \in Nodes : OnlyThrough(l, n)' => m = l
           /\ stack[j].pc = "loop" => Sole(S)'
      BY <3>1, <3>2, <3>3, <3>9, SameGraph DEF CallFrame
    <3>13. \A l \in Nodes : m = l /\ graph.type[l] = "loop" /\ Fresh(l)' =>
              /\ stack[j].pc = "attempt" => Untouched(l)'
              /\ stack[j].pc = "iterate" => AtHead(l, i)'
              /\ stack[j].pc = "loop" => InBody(j, l, i)'
      BY <3>1, <3>4, <3>5, <3>6, <3>7, <3>8, <3>9 DEF CallFrame
    <3> QED
      BY <3>10, <3>11, <3>12, <3>13 DEF CallFrame, Nodes
  <2>2. RootCalls'
    BY <1>5, SameGraph DEF ServingOK, ServingInv, RootCalls, Nodes
  <2> QED
    BY <1>2, <1>3, <1>5, <2>1, <2>2 DEF ServingInv, CallFrames
<1> QED
  BY <1>4, <1>5

(* The conjuncts that speak of no frame.                                   *)
LEMMA SoleKnownStays ==
    ASSUME ServingOK, UNCHANGED graph, Known' = Known
    PROVE  Sole(Known)'
BY SameGraph DEF ServingOK, ServingInv

LEMMA ServedStays ==
    ASSUME ServingOK, UNCHANGED graph,
           \A l \in Nodes : graph.type[l] = "loop" /\ status'[l] = "completed" =>
              \/ /\ status[l] = "completed" /\ attempts'[l] = attempts[l]
                 /\ served[l] \subseteq served'[l]
              \/ Fresh(l)' => ServedAll(l)'
    PROVE  LoopServesEveryItem'
<1> SUFFICES ASSUME NEW l \in Nodes, graph.type[l] = "loop", status'[l] = "completed",
                    attempts'[l] = 1, <<l, 0>> \notin served'[l]
             PROVE  ServedAll(l)'
  BY DEF LoopServesEveryItem, Nodes
<1>1. Fresh(l)'
  BY DEF Fresh
<1>2. ASSUME status[l] = "completed", attempts'[l] = attempts[l], served[l] \subseteq served'[l]
      PROVE  ServedAll(l)'
  <2>1. ServedAll(l)
    BY <1>2 DEF ServingOK, ServingInv, LoopServesEveryItem
  <2> QED
    BY <1>2, <2>1, SameGraph DEF ServedAll, Nodes
<1> QED
  BY <1>1, <1>2

(* A step that changes the state of the top node, once it has one, and no  *)
(* record.                                                                 *)
LEMMA TopOnlyKeepsRecords ==
    ASSUME ServingOK, stack # << >>, Top.pc # "attempt", UNCHANGED served,
           \/ status' = status
           \/ \E s : status' = [status EXCEPT ![Top.node] = s],
           \/ attempts' = attempts
           \/ \E a : attempts' = [attempts EXCEPT ![Top.node] = a]
    PROVE  KeepsRecords
<1>1. StackOK /\ status \in [Nodes -> NodeStatuses] /\ attempts \in [Nodes -> Nat]
  BY DEF ServingOK, OutcomeOK, JoinsOK, IInv, RestOK
<1>2. PICK k \in Nat : k = Len(stack) /\ k >= 1
  BY <1>1, StackFacts
<1>3. ASSUME NEW j \in 2 .. k - 1
      PROVE  stack[j].node \in Nodes /\ stack[j].node # Top.node
  <2>1. j \in 1 .. k /\ j \in 2 .. k /\ k \in 1 .. k /\ j # k
    BY <1>2
  <2> QED
    BY <1>1, <1>2, <2>1 DEF StackOK, NeverReentered, Top
<1> QED
  BY <1>1, <1>2, <1>3 DEF KeepsRecords

(* The body of the top node is over.                                       *)
LEMMA BodyOverServing ==
    ASSUME ServingOK, stack # << >>, Top.pc \notin {"next", "attempt"},
           UNCHANGED <<graph, attempts, served>>,
           NEW s \in Settled, status' = [status EXCEPT ![Top.node] = s],
           NEW f, Replace(f), f.node = Top.node, f.pc = "next",
           \A n \in f.todo, l \in Nodes : OnlyThrough(l, n) => l = Top.node,
           s = "completed" /\ graph.type[Top.node] = "loop" /\ Fresh(Top.node)
              => \A l \in Nodes : l = Top.node => ServedAll(l)
    PROVE  ServingInv'
<1>1. /\ status \in [Nodes -> NodeStatuses] /\ Top.node \in Nodes /\ Top.node \in Known
      /\ s # "none"
  BY OutcomeTop DEF ServingOK, OutcomeOK, JoinsOK, IInv, RestOK, Settled
<1>2. PICK k \in Nat : k = Len(stack) /\ k >= 1
  BY OutcomeTop DEF ServingOK
<1>3. KeepsRecords
  BY TopOnlyKeepsRecords
<1>4. CallFrames' /\ RootCalls'
  BY <1>2, <1>3, GoOnCalls
<1>5. Known' = Known
  BY <1>1 DEF Known, Nodes
<1>6. \A l \in Nodes : (ServedAll(l)' <=> ServedAll(l)) /\ (Fresh(l)' <=> Fresh(l))
  BY SameGraph DEF ServedAll, Fresh, Nodes
<1>7. LoopServesEveryItem'
  <2> SUFFICES ASSUME NEW l \in Nodes, graph.type[l] = "loop", status'[l] = "completed", Fresh(l)'
               PROVE  status[l] = "completed" \/ ServedAll(l)'
    BY ServedStays
  <2>1. CASE l = Top.node
    BY <1>1, <1>6, <2>1
  <2>2. CASE l # Top.node
    BY <1>1, <2>2
  <2> QED
    BY <2>1, <2>2
<1> QED
  BY <1>4, <1>5, <1>7, SoleKnownStays DEF ServingInv

(* A call returns, its node not completed by the step.                     *)
LEMMA PopServing ==
    ASSUME ServingOK, stack # << >>, Top.node # Root, stack' = Below,
           UNCHANGED <<graph, attempts, served>>,
           \/ status' = status /\ (Top.pc = "attempt" => failure' # "none")
           \/ Top.pc # "attempt" /\ status' = [status EXCEPT ![Top.node] = "failed"]
    PROVE  ServingInv'
<1>1. status \in [Nodes -> NodeStatuses] /\ Top.node \in Nodes /\ StackOK
  BY OutcomeTop DEF ServingOK, OutcomeOK, JoinsOK, IInv, RestOK
<1>2. Len(stack') = Len(stack) - 1
  BY <1>1, StackFacts
<1>3. KeepsRecords
  <2>1. CASE Top.pc # "attempt"
    BY <2>1, TopOnlyKeepsRecords
  <2>2. CASE Top.pc = "attempt"
    BY <1>2, <2>2 DEF KeepsRecords
  <2> QED
    BY <2>1, <2>2
<1>4. Known' = Known
  <2>1. CASE status' = status
    BY <2>1 DEF Known, Nodes
  <2>2. CASE Top.pc # "attempt" /\ status' = [status EXCEPT ![Top.node] = "failed"]
    <3>1. Top.node \in Known
      BY <1>1, <2>2, OutcomeTop DEF ServingOK
    <3> QED
      BY <1>1, <2>2, <3>1 DEF Known, Nodes
  <2> QED
    BY <2>1, <2>2
<1>5. \A l \in Nodes : status'[l] = "completed" => status[l] = "completed"
  BY <1>1
<1> QED
  BY <1>3, <1>4, <1>5, PopCalls, SoleKnownStays, ServedStays DEF ServingInv

(* An attempt starts: a body node is served, a loop is at its head.        *)
LEMMA StartServing ==
    ASSUME ServingOK, StartAttempt, ~ContextDone(Len(stack))
    PROVE  ServingInv'
<1>0. /\ stack # << >> /\ Top.pc = "attempt" /\ UNCHANGED graph
      /\ status' = [status EXCEPT ![Top.node] = "running"]
      /\ attempts' = [attempts EXCEPT ![Top.node] = IF @ = 0 THEN 1 ELSE @]
      /\ IF graph.type[Top.node] = "loop"
         THEN Replace([Top EXCEPT !.pc = "iterate", !.item = 0, !.before = Nodes])
         ELSE Replace([Top EXCEPT !.pc = "body"])
      /\ served' = IF Caller.pc = "loop"
                   THEN [served EXCEPT ![Caller.node] = @ \union {<<Top.node, Caller.item>>}]
                   ELSE served
  BY DEF StartAttempt, Running
<1>1. /\ StackOK /\ status \in [Nodes -> NodeStatuses] /\ attempts \in [Nodes -> Nat]
      /\ served \in [Nodes -> SUBSET (Nodes \X Nat)]
      /\ Top.node \in Nodes /\ Top.node # Root /\ Top \in FrameType(graph)
  BY <1>0, OutcomeTop DEF ServingOK, OutcomeOK, JoinsOK, IInv, RestOK
<1>2. PICK k \in Nat : k = Len(stack) /\ k >= 1 /\ k # 1
  BY <1>0, <1>1, OutcomeTop DEF ServingOK
<1>3. PICK m \in Nodes : m = Top.node /\ m = stack[k].node
  BY <1>1, <1>2 DEF Top
<1>4. k - 1 \in 1 .. k /\ k \in 1 .. k /\ k - 1 # k /\ k \in 2 .. k
  BY <1>2
<1>5. Caller = stack[k - 1] /\ Caller.node # m
  BY <1>1, <1>2, <1>3, <1>4 DEF Caller, StackOK, NeverReentered
<1>6. Caller.pc = "loop" => Caller.node \in Nodes
  <2>1. CASE k - 1 = 1
    BY <1>0, <1>1, <1>5, <2>1 DEF StackOK, RootFrame
  <2>2. CASE k - 1 # 1
    <3>1. k - 1 \in 2 .. k
      BY <1>4, <2>2
    <3> QED
      BY <1>1, <1>2, <1>5, <3>1 DEF StackOK, NeverReentered
  <2> QED
    BY <2>1, <2>2
<1>7. /\ \A l \in Nodes : served[l] \subseteq served'[l]
      /\ served'[m] = served[m]
      /\ Caller.pc = "loop" => <<Top.node, Caller.item>> \in served'[Caller.node]
  BY <1>0, <1>1, <1>5, <1>6
<1>8. /\ \A n \in Nodes : n # m => status'[n] = status[n] /\ attempts'[n] = attempts[n]
      /\ status'[m] = "running" /\ (attempts'[m] <= 1 => attempts[m] <= 1)
  <2>1. attempts'[m] = IF attempts[m] = 0 THEN 1 ELSE attempts[m]
    BY <1>0, <1>1, <1>3
  <2>2. attempts[m] \in Nat
    BY <1>1
  <2>3. attempts'[m] <= 1 => attempts[m] <= 1
    BY <2>1, <2>2
  <2> QED
    BY <1>0, <1>1, <1>3, <2>3
<1>9. PICK f : /\ Replace(f) /\ f.node = Top.node /\ f.pc \in {"iterate", "body"}
               /\ f.todo = Top.todo
               /\ f.pc = "iterate" => f.item = 0
  <2>1. PICK g, h : /\ g = [Top EXCEPT !.pc = "iterate", !.item = 0, !.before = Nodes]
                    /\ h = [Top EXCEPT !.pc = "body"]
    OBVIOUS
  <2>2. /\ g.node = Top.node /\ g.pc = "iterate" /\ g.todo = Top.todo /\ g.item = 0
        /\ h.node = Top.node /\ h.pc = "body" /\ h.todo = Top.todo
    BY <1>1, <2>1 DEF FrameType
  <2>3. Replace(g) \/ Replace(h)
    BY <1>0, <2>1
  <2> QED
    BY <2>2, <2>3
<1>10. KeepsRecords
  <2>1. ASSUME NEW j \in 2 .. k - 1
        PROVE  stack[j].node \in Nodes /\ stack[j].node # m
    <3>1. j \in 1 .. k /\ j \in 2 .. k /\ j # k
      BY <1>2
    <3> QED
      BY <1>1, <1>2, <1>3, <1>4, <3>1 DEF StackOK, NeverReentered
  <2> QED
    BY <1>2, <1>3, <1>7, <1>8, <2>1 DEF KeepsRecords
<1>11. \A l \in Nodes : OnlyThrough(l, m) => l # m /\ l \in Known
  BY <1>0, <1>1, <1>3, SoleCaller
<1>12. ASSUME graph.type[m] = "loop", Fresh(m)' PROVE AtHead(m, 0)'
  <2>1. Fresh(m)
    BY <1>7, <1>8, <1>12 DEF Fresh
  <2>2. Untouched(m)
    BY <1>0, <1>2, <1>3, <1>4, <1>12, <2>1 DEF ServingOK, ServingInv, CallFrames, CallFrame, Top
  <2>3. ASSUME NEW n \in Nodes, OnlyThrough(m, n) PROVE status'[n] = "none"
    BY <1>8, <1>11, <2>2, <2>3 DEF Untouched
  <2> QED
    BY <1>0, <2>3, SameGraph DEF AtHead, ServedTo, Nodes
<1>13. CallFrames' /\ RootCalls'
  <2>1. \A n \in f.todo, l \in Nodes : OnlyThrough(l, n) => l = Top.node
    BY <1>0, <1>9, TopCalls
  <2>2. f.pc # "loop" /\ f.pc # "attempt"
    BY <1>9
  <2>3. \A l \in Nodes : l = Top.node /\ graph.type[l] = "loop" /\ Fresh(l)' =>
           (f.pc = "iterate" => AtHead(l, f.item)')
    BY <1>3, <1>9, <1>12
  <2> QED
    BY <1>0, <1>2, <1>9, <1>10, <2>1, <2>2, <2>3, GoOnCalls
<1>14. Sole(Known)'
  <2>1. PICK S : S = Known \union {m}
    OBVIOUS
  <2>2. Known' = S
    BY <1>0, <1>8, <2>1 DEF Known, Nodes
  <2>3. Sole(S)
    BY <1>11, <2>1 DEF ServingOK, ServingInv, Sole
  <2> QED
    BY <1>0, <2>2, <2>3, SameGraph
<1>15. LoopServesEveryItem'
  BY <1>0, <1>7, <1>8, ServedStays
<1> QED
  BY <1>13, <1>14, <1>15 DEF ServingInv

(* A body node that has nothing to do is no longer to be called: it has    *)
(* been served.                                                            *)
LEMMA PassedOverServing ==
    ASSUME ServingOK, NEW n \in Nodes, CallReturnsAtOnce(n)
    PROVE  ServingInv'
<1>0. /\ stack # << >> /\ UNCHANGED <<graph, status, attempts, served>> /\ failure = "none"
      /\ Top.pc \in {"next", "loop"} /\ Replace(Called(n)) /\ NothingToDo(n)
      /\ failure' = failure
  BY DEF CallReturnsAtOnce, Calls, Running
<1>1. PICK k \in Nat : k = Len(stack) /\ k >= 1
  BY <1>0, OutcomeTop DEF ServingOK
<1>2. PICK f : f = Called(n)
  OBVIOUS
<1>3. /\ f.node = Top.node /\ f.pc = Top.pc /\ f.before = Top.before
      /\ f.item = Top.item /\ f.todo = Top.todo \ {n} /\ Replace(f)
  BY <1>0, <1>2, OutcomeTop DEF ServingOK, Called, FrameType
<1>4. /\ Len(stack') = k /\ stack'[k] = f
  BY <1>0, <1>1, <1>3, ReplacedStack DEF ServingOK, OutcomeOK, JoinsOK, IInv
<1>5. KeepsRecords
  BY <1>0, TopOnlyKeepsRecords
<1>6. \A x \in f.todo, l \in Nodes : OnlyThrough(l, x) => l = Top.node
  BY <1>0, <1>3, TopCalls
<1>7. ASSUME Top.pc = "loop" PROVE k \in 2 .. k /\ CallFrame(k)
  <2>1. k # 1
    BY <1>0, <1>1, <1>7, OutcomeTop DEF ServingOK
  <2>2. k \in 2 .. k
    BY <1>1, <2>1
  <2> QED
    BY <1>1, <2>2 DEF ServingOK, ServingInv, CallFrames
<1>8. ASSUME NEW l \in Nodes, l = Top.node, graph.type[l] = "loop", Fresh(l)', Top.pc = "loop"
      PROVE  InBody(k, l, f.item)'
  <2>1. Fresh(l)
    BY <1>0, <1>8 DEF Fresh
  <2>2. InBody(k, l, f.item)
    BY <1>1, <1>3, <1>7, <1>8, <2>1 DEF CallFrame, Top
  <2>3. ASSUME NEW x \in Nodes, OnlyThrough(l, x)
        PROVE  /\ x \notin f.before /\ ServedTo(l, x, f.item - 1)
               /\ \/ <<x, f.item>> \in served[l]
                  \/ status[x] = "none" /\ x \in f.todo
    <3>1. /\ x \notin f.before /\ ServedTo(l, x, f.item - 1)
          /\ \/ <<x, f.item>> \in served[l]
             \/ status[x] = "none" /\ x \in Top.todo
      BY <1>0, <1>1, <1>3, <2>2, <2>3 DEF InBody, Top
    <3>2. x = n => status[x] # "none"
      BY <1>0, <2>3 DEF NothingToDo, OnlyThrough, Settled
    <3> QED
      BY <1>3, <3>1, <3>2
  <2> QED
    BY <1>0, <1>4, <2>3, SameGraph DEF InBody, ServedTo, Nodes
<1>9. Top.pc = "loop" => Sole(f.before)
  BY <1>1, <1>3, <1>7 DEF CallFrame, Top
<1>10. CallFrames' /\ RootCalls'
  <2>1. f.pc # "attempt" /\ f.pc # "iterate"
    BY <1>0, <1>3
  <2> QED
    BY <1>0, <1>1, <1>3, <1>5, <1>6, <1>8, <1>9, <2>1, GoOnCalls
<1>11. Known' = Known
  BY <1>0 DEF Known, Nodes
<1> QED
  BY <1>0, <1>10, <1>11, SoleKnownStays, ServedStays DEF ServingInv

(* The next item: no body node has a state, each is to be called.          *)
LEMMA IterateServing ==
    ASSUME ServingOK, LoopIterates
    PROVE  ServingInv'
<1>0. /\ stack # << >> /\ Top.pc = "iterate" /\ UNCHANGED <<graph, status, attempts, served>>
      /\ Replace([Top EXCEPT !.pc = "loop", !.item = @ + 1, !.before = Known,
                             !.todo = Body(Top.node)])
  BY DEF LoopIterates, AtLoopHead, Running
<1>1. /\ Top \in FrameType(graph) /\ Top.item \in Nat /\ Top.node \in Nodes
      /\ Top.node # Root
  BY <1>0, OutcomeTop DEF ServingOK, FrameType
<1>2. PICK k \in Nat : k = Len(stack) /\ k >= 1 /\ k # 1
  BY <1>0, <1>1, OutcomeTop DEF ServingOK
<1>3. PICK i \in Nat : i = Top.item
  BY <1>1
<1>4. PICK f : f = [Top EXCEPT !.pc = "loop", !.item = @ + 1, !.before = Known,
                               !.todo = Body(Top.node)]
  OBVIOUS
<1>5. /\ f.node = Top.node /\ f.pc = "loop" /\ f.before = Known
      /\ f.item = i + 1 /\ f.todo = Body(Top.node) /\ Replace(f)
  BY <1>0, <1>1, <1>3, <1>4 DEF FrameType
<1>6. Len(stack') = k /\ stack'[k] = f
  BY <1>0, <1>2, <1>5, ReplacedStack DEF ServingOK, OutcomeOK, JoinsOK, IInv
<1>7. KeepsRecords
  BY <1>0, TopOnlyKeepsRecords
<1>8. \A x \in f.todo, l \in Nodes : OnlyThrough(l, x) => l = Top.node
  BY <1>5, FollowersAreChildren
<1>9. ASSUME NEW l \in Nodes, l = Top.node, graph.type[l] = "loop", Fresh(l)'
      PROVE  InBody(k, l, f.item)'
  <2>1. Fresh(l)
    BY <1>0, <1>9 DEF Fresh
  <2>2. k \in 2 .. k
    BY <1>2
  <2>3. AtHead(l, i)
    BY <1>0, <1>2, <1>3, <1>9, <2>1, <2>2 DEF ServingOK, ServingInv, CallFrames, CallFrame, Top
  <2>4. ASSUME NEW x \in Nodes, OnlyThrough(l, x)
        PROVE  x \notin f.before /\ ServedTo(l, x, f.item - 1) /\ status[x] = "none" /\ x \in f.todo
    <3>1. f.item - 1 = i
      BY <1>5
    <3> QED
      BY <1>5, <1>9, <2>3, <2>4, <3>1 DEF AtHead, Known, OnlyThrough
  <2> QED
    BY <1>0, <1>6, <2>4, SameGraph DEF InBody, ServedTo, Nodes
<1>10. CallFrames' /\ RootCalls'
  <2>1. Sole(f.before)
    BY <1>5 DEF ServingOK, ServingInv
  <2>2. f.pc # "attempt" /\ f.pc # "iterate"
    BY <1>5
  <2> QED
    BY <1>0, <1>2, <1>5, <1>7, <1>8, <1>9, <2>1, <2>2, GoOnCalls
<1>11. Known' = Known
  BY <1>0 DEF Known, Nodes
<1> QED
  BY <1>0, <1>10, <1>11, SoleKnownStays, ServedStays DEF ServingInv

(* The iteration is over: every body node was served and is forgotten.     *)
LEMMA ForgetServing ==
    ASSUME ServingOK, LoopForgets
    PROVE  ServingInv'
<1>0. /\ stack # << >> /\ Top.pc = "loop" /\ UNCHANGED <<graph, served>> /\ Top.todo = {}
      /\ failure = "none"
      /\ status' = [n \in Nodes |-> IF n \in Top.before THEN status[n] ELSE "none"]
      /\ attempts' = [n \in Nodes |-> IF n \in Top.before THEN attempts[n] ELSE 0]
      /\ Replace([Top EXCEPT !.pc = "iterate"])
  BY DEF LoopForgets, Running
<1>1. /\ Top \in FrameType(graph) /\ Top.item \in Nat /\ Top.node \in Nodes
      /\ Top.node # Root /\ StackOK
  BY <1>0, OutcomeTop DEF ServingOK, OutcomeOK, JoinsOK, IInv, FrameType
<1>2. PICK k \in Nat : k = Len(stack) /\ k >= 1 /\ k # 1
  BY <1>0, <1>1, OutcomeTop DEF ServingOK
<1>3. PICK i \in Nat : i = Top.item
  BY <1>1
<1>4. PICK f : f = [Top EXCEPT !.pc = "iterate"]
  OBVIOUS
<1>5. /\ f.node = Top.node /\ f.pc = "iterate" /\ f.item = i /\ f.todo = {} /\ Replace(f)
  BY <1>0, <1>1, <1>3, <1>4 DEF FrameType
<1>6. PICK S : S = Top.before
  OBVIOUS
<1>7. k \in 2 .. k /\ CallFrame(k) /\ LoopFrame(k)
  <2>1. k \in 2 .. k
    BY <1>2
  <2> QED
    BY <1>2, <2>1 DEF ServingOK, ServingInv, CallFrames, OutcomeOK, OutcomeInv, LoopFrames
<1>8. S \subseteq Known /\ Sole(S) /\ S \subseteq Nodes
  BY <1>0, <1>2, <1>6, <1>7 DEF CallFrame, LoopFrame, Top, Known
<1>9. /\ \A n \in S : status'[n] = status[n] /\ attempts'[n] = attempts[n]
      /\ \A n \in Nodes : n \notin S => status'[n] = "none"
  BY <1>0, <1>6, <1>8
<1>10. \A j \in 2 .. k : stack[j].node \in S
  BY <1>0, <1>1, <1>2, <1>6, TopFrame DEF ServingOK, OutcomeOK
<1>11. KeepsRecords
  <2>1. \A j \in 2 .. k - 1 : j \in 2 .. k
    BY <1>2
  <2>2. \A n \in Nodes : status[n] = "none" => status'[n] = "none"
    BY <1>9
  <2> QED
    BY <1>0, <1>2, <1>9, <1>10, <2>1, <2>2 DEF KeepsRecords
<1>12. ASSUME NEW l \in Nodes, l = Top.node, graph.type[l] = "loop", Fresh(l)'
       PROVE  AtHead(l, i)'
  <2>1. l \in S
    BY <1>2, <1>7, <1>10, <1>12 DEF Top
  <2>2. Fresh(l)
    BY <1>0, <1>9, <1>12, <2>1 DEF Fresh
  <2>3. InBody(k, l, i)
    BY <1>0, <1>2, <1>3, <1>7, <1>12, <2>2 DEF CallFrame, Top
  <2>4. ASSUME NEW x \in Nodes, OnlyThrough(l, x)
        PROVE  x \notin S /\ ServedTo(l, x, i)
    <3>1. /\ x \notin S /\ ServedTo(l, x, i - 1) /\ <<x, i>> \in served[l]
      BY <1>0, <1>2, <1>6, <2>3, <2>4 DEF InBody, Top
    <3>2. \A j \in 1 .. i : j \in 1 .. i - 1 \/ j = i
      BY <1>3
    <3> QED
      BY <3>1, <3>2 DEF ServedTo
  <2> QED
    BY <1>0, <1>9, <2>4, SameGraph DEF AtHead, ServedTo, Nodes
<1>13. CallFrames' /\ RootCalls'
  <2>1. f.pc # "attempt" /\ f.pc # "loop"
    BY <1>5
  <2> QED
    BY <1>0, <1>2, <1>5, <1>11, <1>12, <2>1, GoOnCalls
<1>14. Sole(Known)'
  <2>1. Known' = S
    BY <1>0, <1>8, <1>9 DEF Known, Nodes
  <2> QED
    BY <1>0, <1>8, <2>1, SameGraph
<1>15. LoopServesEveryItem'
  <2>1. \A l \in Nodes : status'[l] = "completed" =>
           status[l] = "completed" /\ attempts'[l] = attempts[l]
    BY <1>9
  <2> QED
    BY <1>0, <2>1, ServedStays
<1> QED
  BY <1>13, <1>14, <1>15 DEF ServingInv

(* Another attempt: the loop is not at its first any more.                 *)
LEMMA RetryServing ==
    ASSUME ServingOK, Retry
    PROVE  ServingInv'
<1>0. /\ stack # << >> /\ Top.pc \notin {"next", "attempt"} /\ UNCHANGED <<graph, served>>
      /\ status' = [status EXCEPT ![Top.node] = "retrying"]
      /\ attempts' = [attempts EXCEPT ![Top.node] = @ + 1]
      /\ Replace([Top EXCEPT !.pc = "attempt", !.todo = {}])
  BY DEF Retry, Handles, Failing, AtBody
<1>1. /\ status \in [Nodes -> NodeStatuses] /\ attempts \in [Nodes -> Nat]
      /\ Top \in FrameType(graph) /\ Top.node \in Nodes /\ Top.node \in Known
      /\ status[Top.node] = "none" <=> attempts[Top.node] = 0
  BY <1>0, OutcomeTop DEF ServingOK, OutcomeOK, JoinsOK, IInv, RestOK, OutcomeInv, StatesOK
<1>2. PICK k \in Nat : k = Len(stack) /\ k >= 1
  BY <1>0, OutcomeTop DEF ServingOK
<1>3. PICK f : f = [Top EXCEPT !.pc = "attempt", !.todo = {}]
  OBVIOUS
<1>4. f.node = Top.node /\ f.pc = "attempt" /\ f.todo = {} /\ Replace(f)
  BY <1>0, <1>1, <1>3 DEF FrameType
<1>5. PICK m \in Nodes : m = Top.node
  BY <1>1
<1>6. /\ \A n \in Nodes : n # m => status'[n] = status[n] /\ attempts'[n] = attempts[n]
      /\ status'[m] = "retrying"
  BY <1>0, <1>1, <1>5
<1>7. ~(attempts'[m] <= 1)
  <2>1. attempts[m] \in Nat /\ attempts[m] # 0
    BY <1>1, <1>5 DEF Known
  <2>2. attempts'[m] = attempts[m] + 1
    BY <1>0, <1>1, <1>5
  <2> QED
    BY <2>1, <2>2
<1>8. KeepsRecords
  <2>1. Top.pc # "attempt"
    BY <1>0
  <2>2. \E s : status' = [status EXCEPT ![Top.node] = s]
    BY <1>0
  <2>3. \E a : attempts' = [attempts EXCEPT ![Top.node] = a]
    BY <1>0
  <2> QED
    BY <1>0, <2>1, <2>2, <2>3, TopOnlyKeepsRecords
<1>9. CallFrames' /\ RootCalls'
  <2>1. \A l \in Nodes : l = Top.node => ~Fresh(l)'
    BY <1>5, <1>7 DEF Fresh
  <2>2. f.pc # "loop"
    BY <1>4
  <2> QED
    BY <1>0, <1>2, <1>4, <1>8, <2>1, <2>2, GoOnCalls
<1>10. Known' = Known
  BY <1>0, <1>1, <1>5, <1>6 DEF Known, Nodes
<1>11. LoopServesEveryItem'
  BY <1>0, <1>6, ServedStays
<1> QED
  BY <1>0, <1>9, <1>10, <1>11, SoleKnownStays DEF ServingInv

LEMMA StepServing == ServingOK /\ [Next]_vars => ServingInv'
<1> SUFFICES ASSUME ServingOK, [Next]_vars PROVE ServingInv'
  OBVIOUS
<1>0. StackOK
  BY DEF ServingOK, OutcomeOK, JoinsOK, IInv
<1>1. ASSUME NEW n \in Nodes, CallInterrupted(n) PROVE ServingInv'
  BY <1>1, SameCalls DEF CallInterrupted
<1>2. ASSUME NEW n \in Nodes, CallFails(n) PROVE ServingInv'
  BY <1>2, SameCalls DEF CallFails
<1>3. ASSUME NEW n \in Nodes, CallReturnsAtOnce(n) PROVE ServingInv'
  BY <1>3, PassedOverServing
<1>4. ASSUME NEW n \in Nodes, Enter(n) PROVE ServingInv'
  <2>1. Known' = Known /\ UNCHANGED graph
    BY <1>4 DEF Enter, Known, Nodes
  <2> QED
    BY <1>4, <2>1, EnterCalls, SoleKnownStays DEF ServingInv
<1>5. CASE StartAttempt
  <2>1. stack # << >> /\ Top.node # Root /\ UNCHANGED graph
    BY <1>5, OutcomeTop DEF ServingOK, StartAttempt, Running
  <2>2. CASE ContextDone(Len(stack))
    <3>1. /\ stack' = Below /\ failure' = "interrupt"
          /\ UNCHANGED <<status, attempts, served>>
      BY <1>5, <2>2 DEF StartAttempt
    <3> QED
      BY <2>1, <3>1, PopServing
  <2> QED
    BY <1>5, <2>2, StartServing
<1>6. CASE BodySucceeds
  <2>1. /\ stack # << >> /\ Top.pc = "body" /\ UNCHANGED <<graph, attempts, served>>
        /\ status' = [status EXCEPT ![Top.node] = "completed"] /\ "completed" \in Settled
    BY <1>6 DEF BodySucceeds, Running, Settled
  <2>2. Top \in FrameType(graph) /\ graph.type[Top.node] # "loop"
    BY <2>1, OutcomeTop DEF ServingOK
  <2>3. ASSUME NEW result, NEW chosen,
               Replace([Top EXCEPT !.pc = "next", !.todo = Follow(Top.node, result, chosen)])
        PROVE  ServingInv'
    <3>1. PICK f : f = [Top EXCEPT !.pc = "next", !.todo = Follow(Top.node, result, chosen)]
      OBVIOUS
    <3>2. /\ Replace(f) /\ f.node = Top.node /\ f.pc = "next"
          /\ f.todo = Follow(Top.node, result, chosen)
      BY <2>2, <2>3, <3>1 DEF FrameType
    <3>3. \A n \in f.todo, l \in Nodes : OnlyThrough(l, n) => l = Top.node
      BY <3>2, FollowersAreChildren
    <3> QED
      BY <2>1, <2>2, <3>2, <3>3, BodyOverServing
  <2>4. ASSUME Replace([Top EXCEPT !.pc = "next"]) PROVE ServingInv'
    <3>1. PICK f : f = [Top EXCEPT !.pc = "next"]
      OBVIOUS
    <3>2. Replace(f) /\ f.node = Top.node /\ f.pc = "next" /\ f.todo = Top.todo
      BY <2>2, <2>4, <3>1 DEF FrameType
    <3>3. \A n \in f.todo, l \in Nodes : OnlyThrough(l, n) => l = Top.node
      BY <2>1, <3>2, TopCalls
    <3> QED
      BY <2>1, <2>2, <3>2, <3>3, BodyOverServing
  <2> QED
    BY <1>6, <2>3, <2>4 DEF BodySucceeds
<1>7. CASE BodyFails
  BY <1>7, SameCalls DEF BodyFails, Running
<1>8. CASE BodyPanics
  BY <1>8, SameCalls DEF BodyPanics
<1>9. CASE LoopFails
  BY <1>9, SameCalls DEF LoopFails, AtLoopHead, Running
<1>10. CASE LoopIterates
  BY <1>10, IterateServing
<1>11. CASE LoopForgets
  BY <1>11, ForgetServing
<1>12. CASE LoopCompletes
  <2>1. /\ stack # << >> /\ Top.pc = "iterate" /\ UNCHANGED <<graph, attempts, served>>
        /\ status' = [status EXCEPT ![Top.node] = "completed"] /\ "completed" \in Settled
        /\ Replace([Top EXCEPT !.pc = "next", !.todo = Continuation(Top.node)])
        /\ Top.item = graph.items[Top.node]
    BY <1>12 DEF LoopCompletes, AtLoopHead, Running, Settled
  <2>2. Top \in FrameType(graph) /\ Top.node \in Nodes
    BY <2>1, OutcomeTop DEF ServingOK
  <2>3. PICK f : f = [Top EXCEPT !.pc = "next", !.todo = Continuation(Top.node)]
    OBVIOUS
  <2>4. /\ Replace(f) /\ f.node = Top.node /\ f.pc = "next"
        /\ f.todo = Continuation(Top.node)
    BY <2>1, <2>2, <2>3 DEF FrameType
  <2>5. \A n \in f.todo, l \in Nodes : OnlyThrough(l, n) => l = Top.node
    BY <2>4, FollowersAreChildren
  <2>6. ASSUME NEW l \in Nodes, l = Top.node, graph.type[l] = "loop", Fresh(l)
        PROVE  ServedAll(l)
    <3>1. PICK k \in Nat : k = Len(stack) /\ k >= 1 /\ k # 1
      BY <2>1, OutcomeTop DEF ServingOK
    <3>2. k \in 2 .. k
      BY <3>1
    <3>3. AtHead(l, graph.items[l])
      BY <2>1, <2>6, <3>1, <3>2 DEF ServingOK, ServingInv, CallFrames, CallFrame, Top
    <3> QED
      BY <3>3 DEF AtHead, ServedTo, ServedAll
  <2>7. Top.pc \notin {"next", "attempt"}
    BY <2>1
  <2>8. PICK s \in Settled : s = "completed" /\ status' = [status EXCEPT ![Top.node] = s]
    BY <2>1
  <2>9. s = "completed" /\ graph.type[Top.node] = "loop" /\ Fresh(Top.node)
          => \A l \in Nodes : l = Top.node => ServedAll(l)
    BY <2>2, <2>6
  <2> QED
    BY <2>1, <2>4, <2>5, <2>7, <2>8, <2>9, BodyOverServing
<1>13. CASE NodeReturns
  <2>1. /\ stack # << >> /\ Top.pc = "next" /\ Top.node # Root
        /\ stack' = Below /\ UNCHANGED <<graph, status, attempts, served>>
    BY <1>13 DEF NodeReturns, Running
  <2> QED
    BY <2>1, PopServing
<1>14. CASE ExecutionReturns
  BY <1>14, SameCalls DEF ExecutionReturns
<1>15. CASE PassOn
  <2>1. /\ stack # << >> /\ Top.node # Root /\ failure' # "none" /\ stack' = Below
        /\ UNCHANGED <<graph, status, attempts, served>>
    BY <1>15 DEF PassOn, Failing
  <2> QED
    BY <2>1, PopServing
<1>16. CASE Retry
  BY <1>16, RetryServing
<1>17. CASE Skip
  <2>1. /\ stack # << >> /\ Top.pc \notin {"next", "attempt"}
        /\ UNCHANGED <<graph, attempts, served>>
        /\ status' = [status EXCEPT ![Top.node] = "skipped"] /\ "skipped" \in Settled
    BY <1>17 DEF Skip, GivesUp, Handles, Failing, AtBody, Settled
  <2>2. Top \in FrameType(graph) /\ Top.node \in Nodes
    BY <2>1, OutcomeTop DEF ServingOK
  <2>3. ASSUME NEW f, Replace(f), f.node = Top.node, f.pc = "next",
               \A n \in f.todo, l \in Nodes : OnlyThrough(l, n) => l = Top.node
        PROVE  ServingInv'
    BY <2>1, <2>3, BodyOverServing
  <2>4. ASSUME NEW chosen, Replace([Top EXCEPT !.pc = "next", !.todo = Follow(Top.node, FALSE, chosen)])
        PROVE  ServingInv'
    <3>1. PICK f : f = [Top EXCEPT !.pc = "next", !.todo = Follow(Top.node, FALSE, chosen)]
      OBVIOUS
    <3>2. /\ Replace(f) /\ f.node = Top.node /\ f.pc = "next"
          /\ f.todo = Follow(Top.node, FALSE, chosen)
      BY <2>2, <2>4, <3>1 DEF FrameType
    <3>3. \A n \in f.todo, l \in Nodes : OnlyThrough(l, n) => l = Top.node
      BY <3>2, FollowersAreChildren
    <3> QED
      BY <2>3, <3>2, <3>3
  <2>5. ASSUME Replace([Top EXCEPT !.pc = "next"]) PROVE ServingInv'
    <3>1. PICK f : f = [Top EXCEPT !.pc = "next"]
      OBVIOUS
    <3>2. Replace(f) /\ f.node = Top.node /\ f.pc = "next" /\ f.todo = Top.todo
      BY <2>2, <2>5, <3>1 DEF FrameType
    <3>3. \A n \in f.todo, l \in Nodes : OnlyThrough(l, n) => l = Top.node
      BY <2>1, <3>2, TopCalls
    <3> QED
      BY <2>3, <3>2, <3>3
  <2>6. ASSUME graph.onError[Top.node] = "goto",
               Replace([Top EXCEPT !.pc = "next", !.todo = {graph.gotoNode[Top.node]}])
        PROVE  ServingInv'
    <3>1. PICK f : f = [Top EXCEPT !.pc = "next", !.todo = {graph.gotoNode[Top.node]}]
      OBVIOUS
    <3>2. /\ Replace(f) /\ f.node = Top.node /\ f.pc = "next"
          /\ f.todo = {graph.gotoNode[Top.node]}
      BY <2>2, <2>6, <3>1 DEF FrameType
    <3>3. \A n \in f.todo, l \in Nodes : ~OnlyThrough(l, n)
      BY <2>2, <2>6, <3>2 DEF OnlyThrough
    <3> QED
      BY <2>3, <3>2, <3>3
  <2> QED
    BY <1>17, <2>4, <2>5, <2>6 DEF Skip
<1>18. CASE Fail
  <2>1. /\ stack # << >> /\ Top.pc # "next" /\ Top.pc # "attempt"
        /\ UNCHANGED <<graph, attempts, served>> /\ stack' = Below
        /\ status' = [status EXCEPT ![Top.node] = "failed"]
    BY <1>18 DEF Fail, GivesUp, Handles, Failing, AtBody
  <2>2. Top.node # Root
    BY <2>1, OutcomeTop DEF ServingOK
  <2> QED
    BY <2>1, <2>2, PopServing
<1>19. CASE ExecutionFails
  BY <1>19, SameCalls DEF ExecutionFails
<1>20. CASE Cancel
  BY <1>20, SameCalls DEF Cancel
<1>21. CASE Expire
  BY <1>21, SameCalls DEF Expire
<1>22. CASE UNCHANGED vars
  BY <1>22, SameCalls DEF vars
<1> QED
  BY <1>1, <1>2, <1>3, <1>4, <1>5, <1>6, <1>7, <1>8, <1>9, <1>10, <1>11, <1>12, <1>13, <1>14, <1>15, <1>16, <1>17, <1>18, <1>19, <1>20, <1>21, <1>22
  DEF Next, Execute, Call, Finished

(* A loop that is called afresh and completes at its first attempt has run *)
(* every body node that only it can reach for every item: the states an    *)
(* iteration leaves behind are deleted before the next one (the snapshot   *)
(* of executeLoopNode), and nothing else gives such a node a state.        *)
THEOREM LoopsServe == Spec => []LoopServesEveryItem
<1>1. Init => ServingOK
  BY InitInv, InitJoin, InitOutcome, InitServing DEF ServingOK, OutcomeOK, JoinsOK
<1>2. ServingOK /\ [Next]_vars => ServingOK'
  BY StepInv, StepJoin, StepOutcome, StepServing DEF ServingOK, OutcomeOK, JoinsOK
<1>3. ServingOK => LoopServesEveryItem
  BY DEF ServingOK, ServingInv
<1> QED
  BY <1>1, <1>2, <1>3, PTL DEF Spec

=============================================================================
