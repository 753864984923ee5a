------------------------- MODULE OrchestratorRunProofs -------------------------
(***************************************************************************)
(* Proofs about OrchestratorRun for every plan, every set of agents and    *)
(* every MaxConcurrentAgents.                                              *)
(*                                                                         *)
(* The inductive invariant adds to the checked properties what links the   *)
(* goroutine of a sub-task to its status (PhaseInv), that whatever was     *)
(* started or may be started has its dependencies completed (GateInv),     *)
(* that no waiting sub-task has a failed dependency (NoLostFailure), and   *)
(* that the loop ends with an outcome everywhere (EndInv).  The last part  *)
(* shows the run to refine PlanRun.                                        *)
(***************************************************************************)
EXTENDS OrchestratorRun, FiniteSetTheorems, TLAPS

PhaseInv ==
    /\ \A t \in SubTasks :
         /\ worker[t] \in {"spawned", "prepared", "running"} => status[t] = "running"
         /\ worker[t] \in {"reported", "unlocked", "exited"} => status[t] \in Terminal
         /\ worker[t] = "none" => status[t] # "completed"
         /\ worker[t] = "none" /\ status[t] = "running" => current = t
    /\ main \in {"dispatch", "acquire"} =>
         /\ current \in SubTasks
         /\ status[current] = "running"
         /\ worker[current] = "none"
    /\ main \notin {"dispatch", "acquire"} => current = None

GateInv ==
    \A t \in SubTasks :
        \/ status[t] \in {"ready", "running", "completed"}
        \/ worker[t] # "none"
        => DepsMet(t)

NoLostFailure ==
    \A t \in SubTasks : status[t] = "pending" =>
        \A d \in Known(t) : status[d] # "failed"

EndInv ==
    /\ main # "done" => result = "none"
    /\ main \in {"wait", "done"} => \A t \in SubTasks : status[t] \in Terminal
    /\ main = "done" =>
         /\ \A t \in SubTasks : worker[t] \notin Active
         /\ result = "ok" <=> \A t \in SubTasks : status[t] # "failed"

IInv == /\ TypeOK
        /\ SlotBound
        /\ PhaseInv
        /\ GateInv
        /\ NoLostFailure
        /\ OutputsDelivered
        /\ EndInv
        /\ LifecycleRunning

-----------------------------------------------------------------------------
LEMMA StepsFinite == IsFiniteSet(SubTasks)
<1>1. IsFiniteSet(1 .. N)
  BY PlanAssumption, FS_Interval
<1> QED
  BY <1>1, FS_Subset DEF SubTasks, Steps

LEMMA NoneIsNoSubTask == None \notin SubTasks
BY PlanAssumption DEF None, SubTasks, Steps

(* The set markDependentsFailed marks is closed under "depends on".        *)
LEMMA DoomedClosed ==
    ASSUME NEW t \in SubTasks, NEW u \in SubTasks, status[u] = "pending",
           dependsOn[u] \cap (Doomed(t) \union {t}) # {}
    PROVE  u \in Doomed(t)
<1>1. SUFFICES ASSUME NEW F \in SUBSET SubTasks, ClosedUnderDependents(t, F)
               PROVE  u \in F
  BY DEF Doomed
<1>2. Doomed(t) \subseteq F
  BY <1>1 DEF Doomed
<1>3. dependsOn[u] \cap (F \union {t}) # {}
  BY <1>2
<1> QED
  BY <1>1, <1>3 DEF ClosedUnderDependents

(* Recording a failure or a success of a running sub-task keeps the parts  *)
(* of the invariant that speak of the statuses alone.                      *)
LEMMA FailKeepsGates ==
    ASSUME TypeOK, NoLostFailure, UNCHANGED <<dependsOn>>,
           NEW t \in SubTasks, status[t] = "running", FailResult(t)
    PROVE  /\ status' \in [SubTasks -> Statuses]
           /\ status'[t] = "failed"
           /\ \A u \in SubTasks : status'[u] \in {status[u], "failed"}
           /\ \A u \in SubTasks \ {t} : status[u] # "pending" => status'[u] = status[u]
           /\ \A u \in SubTasks : DepsMet(u) => DepsMet(u)'
           /\ NoLostFailure'
<1>1. /\ status' \in [SubTasks -> Statuses]
      /\ status'[t] = "failed"
      /\ \A u \in SubTasks : status'[u] \in {status[u], "failed"}
  BY DEF FailResult, TypeOK, Statuses
<1>2. \A u \in SubTasks \ {t} : status[u] # "pending" => status'[u] = status[u]
  BY DEF FailResult, Doomed
<1>3. \A u \in SubTasks : DepsMet(u) => DepsMet(u)'
  BY <1>2 DEF DepsMet, Known
<1>4. ASSUME NEW u \in SubTasks, status'[u] = "pending", NEW d \in Known(u)
      PROVE  status'[d] # "failed"
  <2>1. status[u] = "pending" /\ u # t /\ u \notin Doomed(t)
    BY <1>1, <1>4 DEF FailResult
  <2>2. d \in SubTasks /\ d \in dependsOn[u]
    BY DEF Known
  <2>3. d # t /\ d \notin Doomed(t)
    BY <2>1, <2>2, DoomedClosed
  <2>4. status'[d] = status[d]
    BY <2>2, <2>3 DEF FailResult
  <2> QED
    BY <2>1, <2>4 DEF NoLostFailure
<1>5. NoLostFailure'
  BY <1>4 DEF NoLostFailure, Known
<1> QED
  BY <1>1, <1>2, <1>3, <1>5

LEMMA CompleteKeepsGates ==
    ASSUME TypeOK, NoLostFailure, UNCHANGED <<dependsOn>>,
           NEW t \in SubTasks, status[t] = "running", CompleteResult(t)
    PROVE  /\ status' \in [SubTasks -> Statuses]
           /\ status'[t] = "completed"
           /\ \A u \in SubTasks \ {t} : status[u] # "pending" => status'[u] = status[u]
           /\ \A u \in SubTasks \ {t} :
                status'[u] = status[u] \/ (status'[u] = "ready" /\ DepsMet(u)')
           /\ \A u \in SubTasks : DepsMet(u) => DepsMet(u)'
           /\ NoLostFailure'
<1>1. /\ status' \in [SubTasks -> Statuses]
      /\ status'[t] = "completed"
  BY DEF CompleteResult, TypeOK, Statuses
<1>2. \A u \in SubTasks \ {t} : status[u] # "pending" => status'[u] = status[u]
  BY DEF CompleteResult, Activated
<1>3. ASSUME NEW u \in SubTasks \ {t}, status'[u] # status[u]
      PROVE  status'[u] = "ready" /\ DepsMet(u)'
  <2>1. u \in Activated(t) /\ status'[u] = "ready"
    BY <1>3 DEF CompleteResult
  <2>2. \A d \in Known(u) \ {t} : status[d] = "completed"
    BY <2>1 DEF Activated
  <2>3. \A d \in Known(u) : status'[d] = "completed"
    BY <1>1, <1>2, <2>2 DEF Known
  <2> QED
    BY <2>1, <2>3 DEF DepsMet, Known
<1>4. \A u \in SubTasks : DepsMet(u) => DepsMet(u)'
  BY <1>2 DEF DepsMet, Known
<1>5. NoLostFailure'
  BY <1>1, <1>3 DEF NoLostFailure, Known
<1> QED
  BY <1>1, <1>2, <1>3, <1>4, <1>5

-----------------------------------------------------------------------------
LEMMA InitInv == Init => IInv
<1> SUFFICES ASSUME Init PROVE IInv
  OBVIOUS
<1>1. TypeOK
  BY AgentAssumption DEF Init, TypeOK, Statuses, Active, Terminal
<1>2. SlotBound
  <2>1. Running = {}
    BY DEF Init, Active, Running
  <2> QED
    BY <2>1, FS_EmptySet, SlotAssumption DEF SlotBound, Init
<1>3. PhaseInv /\ OutputsDelivered /\ EndInv
  BY DEF Init, PhaseInv, OutputsDelivered, EndInv
<1>4. GateInv /\ NoLostFailure
  BY DEF Init, GateInv, NoLostFailure, DepsMet, Known
<1>5. LifecycleRunning
  BY AgentAssumption DEF Init, LifecycleRunning
<1> QED
  BY <1>1, <1>2, <1>3, <1>4, <1>5 DEF IInv

(* The slots: every action either leaves the set of running goroutines     *)
(* alone, or adds or removes one together with a token.                    *)
LEMMA SlotStep ==
    ASSUME IInv, [Next]_vars
    PROVE  SlotBound'
<1>0. /\ IsFiniteSet(Running)
      /\ sem = Cardinality(Running) /\ sem \in Nat /\ sem <= MaxConcurrentAgents
  BY StepsFinite, FS_Subset DEF IInv, SlotBound, TypeOK, Running
<1>1. CASE Acquire
  <2>1. current \in SubTasks /\ current \notin Running
    BY <1>1 DEF IInv, PhaseInv, Acquire, Active, Running
  <2>2. Running' = Running \union {current}
    BY <1>1, <2>1 DEF IInv, TypeOK, Acquire, Active, Running
  <2>3. Cardinality(Running') = Cardinality(Running) + 1
    BY <1>0, <2>1, <2>2, FS_AddElement
  <2> QED
    BY <1>0, <1>1, <2>3, SlotAssumption DEF Acquire, SlotBound
<1>2. ASSUME NEW t \in SubTasks, ReleaseSlot(t)
      PROVE  SlotBound'
  <2>1. t \in Running /\ Running' = Running \ {t}
    BY <1>2 DEF IInv, TypeOK, ReleaseSlot, Active, Running
  <2>2. Cardinality(Running') = Cardinality(Running) - 1
    BY <1>0, <2>1, FS_RemoveElement
  <2> QED
    BY <1>0, <1>2, <2>2, SlotAssumption DEF ReleaseSlot, SlotBound
<1>3. ASSUME Running' = Running, sem' = sem
      PROVE  SlotBound'
  BY <1>0, <1>3 DEF SlotBound
<1>4. ASSUME NEW t \in SubTasks,
             \/ PrepareInput(t) \/ StartAgent(t) \/ Report(t) \/ FinishAgent(t)
      PROVE  Running' = Running /\ sem' = sem
  BY <1>4 DEF IInv, TypeOK, PrepareInput, StartAgent, Report, FinishAgent, Active, Running
<1>5. ASSUME \/ CheckPending \/ DequeueReady \/ Recheck \/ Dispatch \/ WaitAll
             \/ UNCHANGED vars
             \/ \E a \in Temporary : CleanUpTemporary(a)
      PROVE  Running' = Running /\ sem' = sem
  BY <1>5 DEF CheckPending, DequeueReady, Recheck, Dispatch, WaitAll, vars, plan,
              CleanUpTemporary, Running
<1> QED
  BY <1>1, <1>2, <1>3, <1>4, <1>5 DEF Next, Main, Goroutine, Finished

-----------------------------------------------------------------------------
LEMMA StepInv == IInv /\ [Next]_vars => IInv'
<1> SUFFICES ASSUME IInv, [Next]_vars PROVE IInv'
  OBVIOUS
<1> USE NoneIsNoSubTask
<1>0. SlotBound'
  BY SlotStep
<1>1. CASE CheckPending
  <2>1. TypeOK'
    BY <1>1 DEF IInv, TypeOK, CheckPending, plan
  <2>2. PhaseInv' /\ EndInv'
    BY <1>1 DEF IInv, TypeOK, PhaseInv, EndInv, HasPending, CheckPending, plan
  <2>3. GateInv' /\ NoLostFailure' /\ OutputsDelivered' /\ LifecycleRunning'
    BY <1>1 DEF IInv, PhaseInv, GateInv, NoLostFailure, OutputsDelivered, EndInv,
              LifecycleRunning, DepsMet, Known, CheckPending, plan
  <2> QED
    BY <1>0, <2>1, <2>2, <2>3 DEF IInv
<1>2. CASE Recheck
  <2>1. TypeOK'
    BY <1>2 DEF IInv, TypeOK, Recheck, plan
  <2>2. PhaseInv' /\ EndInv'
    BY <1>2 DEF IInv, TypeOK, PhaseInv, EndInv, HasPending, Recheck, plan
  <2>3. GateInv' /\ NoLostFailure' /\ OutputsDelivered' /\ LifecycleRunning'
    BY <1>2 DEF IInv, PhaseInv, GateInv, NoLostFailure, OutputsDelivered, EndInv,
              LifecycleRunning, DepsMet, Known, Recheck, plan
  <2> QED
    BY <1>0, <2>1, <2>2, <2>3 DEF IInv
<1>3. CASE DequeueReady
  <2>1. CASE Dequeuable = {} /\ main' = "recheck" /\ UNCHANGED <<status, current>>
    BY <1>0, <1>3, <2>1 DEF TypeOK, IInv, PhaseInv, GateInv, NoLostFailure, OutputsDelivered, EndInv,
              LifecycleRunning, DepsMet, Known, DequeueReady, plan
  <2>2. ASSUME NEW t \in Dequeuable,
               status' = [status EXCEPT ![t] = "running"],
               current' = t, main' = "dispatch"
        PROVE  IInv'
    <3>1. t \in SubTasks /\ status[t] = "ready" /\ worker[t] = "none"
      BY DEF Dequeuable, IInv, TypeOK, PhaseInv, Active, Terminal
    <3>2. /\ \A u \in SubTasks \ {t} : status'[u] = status[u]
          /\ status'[t] = "running"
          /\ \A u \in SubTasks : DepsMet(u) => DepsMet(u)'
      BY <1>3, <2>2, <3>1 DEF IInv, TypeOK, DepsMet, Known, DequeueReady, plan
    <3>3. TypeOK'
      BY <1>3, <2>2, <3>1 DEF IInv, TypeOK, Statuses, DequeueReady, plan
    <3>4. PhaseInv' /\ EndInv'
      BY <1>3, <2>2, <3>1, <3>2
      DEF IInv, TypeOK, PhaseInv, EndInv, DequeueReady, Terminal
    <3>5. GateInv'
      BY <1>3, <3>1, <3>2 DEF IInv, GateInv, DequeueReady
    <3>6. NoLostFailure' /\ OutputsDelivered' /\ LifecycleRunning'
      BY <1>3, <3>1, <3>2
      DEF IInv, NoLostFailure, OutputsDelivered, LifecycleRunning, Known,
          DequeueReady, plan
    <3> QED
      BY <1>0, <3>3, <3>4, <3>5, <3>6 DEF IInv
  <2> QED
    BY <1>3, <2>1, <2>2 DEF DequeueReady
<1>4. CASE Dispatch
  <2>1. CASE main' = "acquire" /\ UNCHANGED <<status, current>>
    BY <1>0, <1>4, <2>1 DEF TypeOK, IInv, PhaseInv, GateInv, NoLostFailure, OutputsDelivered, EndInv,
              LifecycleRunning, DepsMet, Known, Dispatch, plan
  <2>2. CASE FailResult(current) /\ current' = None /\ main' = "loop"
    <3>1. /\ current \in SubTasks /\ status[current] = "running"
          /\ worker[current] = "none"
      BY <1>4 DEF IInv, PhaseInv, Dispatch
    <3>2. /\ status' \in [SubTasks -> Statuses]
          /\ status'[current] = "failed"
          /\ \A u \in SubTasks : status'[u] \in {status[u], "failed"}
          /\ \A u \in SubTasks \ {current} :
                status[u] # "pending" => status'[u] = status[u]
          /\ \A u \in SubTasks : DepsMet(u) => DepsMet(u)'
          /\ NoLostFailure'
      BY <1>4, <2>2, <3>1, FailKeepsGates DEF IInv, Dispatch, plan
    <3>3. TypeOK'
      BY <1>4, <2>2, <3>2 DEF IInv, TypeOK, Dispatch, plan
    <3>4. PhaseInv' /\ EndInv'
      BY <1>4, <2>2, <3>1, <3>2
      DEF IInv, TypeOK, PhaseInv, EndInv, Dispatch, Terminal
    <3>5. GateInv'
      BY <1>4, <3>1, <3>2 DEF IInv, GateInv, Dispatch
    <3>6. OutputsDelivered' /\ LifecycleRunning'
      BY <1>4 DEF IInv, OutputsDelivered, LifecycleRunning, Known, Dispatch, plan
    <3> QED
      BY <1>0, <3>2, <3>3, <3>4, <3>5, <3>6 DEF IInv
  <2> QED
    BY <1>4, <2>1, <2>2 DEF Dispatch
<1>5. CASE Acquire
  <2>1. /\ current \in SubTasks /\ status[current] = "running"
        /\ worker[current] = "none"
    BY <1>5 DEF IInv, PhaseInv, Acquire
  <2>2. TypeOK'
    BY <1>5, <2>1 DEF IInv, TypeOK, Active, Acquire, plan
  <2>3. PhaseInv' /\ EndInv'
    BY <1>5, <2>1 DEF IInv, TypeOK, PhaseInv, EndInv, Acquire
  <2>4. GateInv' /\ NoLostFailure' /\ OutputsDelivered'
    BY <1>5, <2>1
    DEF IInv, TypeOK, GateInv, NoLostFailure, OutputsDelivered, DepsMet, Known,
        Acquire, plan
  <2>5. LifecycleRunning'
    BY <1>5, <2>1 DEF IInv, TypeOK, LifecycleRunning, Acquire, plan
  <2> QED
    BY <1>0, <2>2, <2>3, <2>4, <2>5 DEF IInv
<1>6. CASE WaitAll
  <2>1. TypeOK'
    BY <1>6 DEF IInv, TypeOK, WaitAll, plan
  <2>2. PhaseInv' /\ EndInv'
    BY <1>6 DEF IInv, TypeOK, PhaseInv, EndInv, Statuses,
              Terminal, WaitAll, plan
  <2>3. GateInv' /\ NoLostFailure' /\ OutputsDelivered' /\ LifecycleRunning'
    BY <1>6 DEF IInv, PhaseInv, GateInv, NoLostFailure, OutputsDelivered, EndInv,
              LifecycleRunning, DepsMet, Known, WaitAll, plan
  <2> QED
    BY <1>0, <2>1, <2>2, <2>3 DEF IInv
<1>7. ASSUME NEW t \in SubTasks, PrepareInput(t) PROVE IInv'
  <2>1. TypeOK'
    BY <1>7 DEF IInv, TypeOK, Active, Statuses, Terminal, Known, PrepareInput, plan
  <2>2. PhaseInv' /\ EndInv'
    BY <1>7 DEF IInv, TypeOK, PhaseInv, EndInv, Active, Terminal, PrepareInput
  <2>3. GateInv' /\ NoLostFailure'
    BY <1>7 DEF IInv, TypeOK, GateInv, NoLostFailure, DepsMet, Known, PrepareInput, plan
  <2>4. OutputsDelivered' /\ LifecycleRunning'
    BY <1>7
    DEF IInv, TypeOK, GateInv, OutputsDelivered, LifecycleRunning, DepsMet, Known,
        Terminal, PhaseInv, PrepareInput, plan
  <2> QED
    BY <1>0, <2>1, <2>2, <2>3, <2>4 DEF IInv
<1>8. ASSUME NEW t \in SubTasks, StartAgent(t) PROVE IInv'
  <2>1. TypeOK'
    BY <1>8 DEF IInv, TypeOK, Active, Statuses, Terminal, Known, StartAgent, plan
  <2>2. PhaseInv' /\ EndInv'
    BY <1>8 DEF IInv, TypeOK, PhaseInv, EndInv, Active, Terminal, StartAgent
  <2>3. GateInv' /\ NoLostFailure'
    BY <1>8 DEF IInv, TypeOK, GateInv, NoLostFailure, DepsMet, Known, StartAgent, plan
  <2>4. OutputsDelivered' /\ LifecycleRunning'
    BY <1>8
    DEF IInv, TypeOK, GateInv, OutputsDelivered, LifecycleRunning, DepsMet, Known,
        Terminal, PhaseInv, StartAgent, plan
  <2> QED
    BY <1>0, <2>1, <2>2, <2>3, <2>4 DEF IInv
<1>9. ASSUME NEW t \in SubTasks, FinishAgent(t) PROVE IInv'
  <2>1. TypeOK'
    BY <1>9 DEF IInv, TypeOK, PhaseInv, Active, Statuses, Terminal, FinishAgent, plan
  <2>2. PhaseInv' /\ EndInv'
    BY <1>9 DEF IInv, TypeOK, PhaseInv, EndInv, Active, Terminal, FinishAgent
  <2>3. GateInv' /\ NoLostFailure'
    BY <1>9 DEF IInv, TypeOK, GateInv, NoLostFailure, DepsMet, Known, FinishAgent, plan
  <2>4. OutputsDelivered' /\ LifecycleRunning'
    BY <1>9
    DEF IInv, TypeOK, GateInv, OutputsDelivered, LifecycleRunning, DepsMet, Known,
        Terminal, PhaseInv, FinishAgent, plan
  <2> QED
    BY <1>0, <2>1, <2>2, <2>3, <2>4 DEF IInv
<1>10. ASSUME NEW t \in SubTasks, ReleaseSlot(t) PROVE IInv'
  <2>0. sem' \in Nat
    <3>1. t \in Running /\ IsFiniteSet(Running)
      BY <1>10, StepsFinite, FS_Subset DEF Running, ReleaseSlot, Active
    <3>2. Cardinality(Running) \in Nat /\ Cardinality(Running) # 0
      BY <3>1, FS_CardinalityType, FS_EmptySet
    <3> QED
      BY <1>10, <3>2 DEF IInv, SlotBound, ReleaseSlot
  <2>1. TypeOK'
    BY <1>10, <2>0 DEF IInv, TypeOK, Active, Statuses, Terminal, Known, ReleaseSlot, plan
  <2>2. PhaseInv' /\ EndInv'
    BY <1>10 DEF IInv, TypeOK, PhaseInv, EndInv, Active, Terminal, ReleaseSlot
  <2>3. GateInv' /\ NoLostFailure'
    BY <1>10 DEF IInv, TypeOK, GateInv, NoLostFailure, DepsMet, Known, ReleaseSlot, plan
  <2>4. OutputsDelivered' /\ LifecycleRunning'
    BY <1>10
    DEF IInv, TypeOK, GateInv, OutputsDelivered, LifecycleRunning, DepsMet, Known,
        Terminal, PhaseInv, ReleaseSlot, plan
  <2> QED
    BY <1>0, <2>1, <2>2, <2>3, <2>4 DEF IInv
<1>11. ASSUME NEW t \in SubTasks, Report(t) PROVE IInv'
  <2>0. /\ worker[t] = "running" /\ status[t] = "running"
        /\ worker' = [worker EXCEPT ![t] = "reported"]
    BY <1>11 DEF IInv, PhaseInv, Report
  <2>1. CASE CompleteResult(t)
    <3>1. /\ status' \in [SubTasks -> Statuses]
          /\ status'[t] = "completed"
          /\ \A u \in SubTasks \ {t} : status[u] # "pending" => status'[u] = status[u]
          /\ \A u \in SubTasks \ {t} :
               status'[u] = status[u] \/ (status'[u] = "ready" /\ DepsMet(u)')
          /\ \A u \in SubTasks : DepsMet(u) => DepsMet(u)'
          /\ NoLostFailure'
      BY <1>11, <2>0, <2>1, CompleteKeepsGates DEF IInv, Report, plan
    <3>2. TypeOK'
      BY <1>11, <2>0, <3>1 DEF IInv, TypeOK, Active, Report, plan
    <3>3. PhaseInv' /\ EndInv'
      BY <1>11, <2>0, <3>1
      DEF IInv, TypeOK, PhaseInv, EndInv, Statuses, Terminal, Report
    <3>4. GateInv'
      BY <1>11, <2>0, <3>1 DEF IInv, TypeOK, GateInv, Report
    <3> QED
      BY <1>0, <1>11, <2>0, <3>1, <3>2, <3>3, <3>4
      DEF IInv, TypeOK, OutputsDelivered, LifecycleRunning, Known, Report, plan
  <2>2. CASE FailResult(t)
    <3>1. /\ status' \in [SubTasks -> Statuses]
          /\ status'[t] = "failed"
          /\ \A u \in SubTasks : status'[u] \in {status[u], "failed"}
          /\ \A u \in SubTasks \ {t} : status[u] # "pending" => status'[u] = status[u]
          /\ \A u \in SubTasks : DepsMet(u) => DepsMet(u)'
          /\ NoLostFailure'
      BY <1>11, <2>0, <2>2, FailKeepsGates DEF IInv, Report, plan
    <3>2. TypeOK'
      BY ZenonT(60), <1>11, <2>0, <3>1 DEF IInv, TypeOK, Active, Report, plan
    <3>3. PhaseInv' /\ EndInv'
      BY <1>11, <2>0, <3>1
      DEF IInv, TypeOK, PhaseInv, EndInv, Statuses, Terminal, Report
    <3>4. GateInv'
      BY <1>11, <2>0, <3>1 DEF IInv, TypeOK, GateInv, Report
    <3> QED
      BY <1>0, <1>11, <2>0, <3>1, <3>2, <3>3, <3>4
      DEF IInv, TypeOK, OutputsDelivered, LifecycleRunning, Known, Report, plan
  <2> QED
    BY <1>11, <2>1, <2>2 DEF Report
<1>12. ASSUME NEW a \in Temporary, CleanUpTemporary(a) PROVE IInv'
  BY <1>0, <1>12
  DEF IInv, TypeOK, PhaseInv, GateInv, NoLostFailure, OutputsDelivered, EndInv,
      LifecycleRunning, DepsMet, Known, CleanUpTemporary, plan
<1>13. CASE UNCHANGED vars
  BY <1>0, <1>13
  DEF IInv, TypeOK, PhaseInv, GateInv, NoLostFailure, OutputsDelivered, EndInv,
      LifecycleRunning, DepsMet, Known, vars, plan
<1> QED
  BY <1>1, <1>2, <1>3, <1>4, <1>5, <1>6, <1>7, <1>8, <1>9, <1>10, <1>11, <1>12,
     <1>13
  DEF Next, Main, Goroutine, Finished

THEOREM Invariance == Spec => []IInv
<1>1. Init => IInv
  BY InitInv
<1>2. IInv /\ [Next]_vars => IInv'
  BY StepInv
<1> QED
  BY <1>1, <1>2, PTL DEF Spec

-----------------------------------------------------------------------------
(* No goroutine works without the output of all its dependencies, for any  *)
(* plan (orchestrator.go buildTaskInput, task.go DequeueReady).            *)
THEOREM DependenciesDelivered == Spec => []OutputsDelivered
<1>1. IInv => OutputsDelivered
  BY DEF IInv
<1> QED
  BY <1>1, Invariance, PTL

(* The semaphore of runTaskResult bounds the goroutines for every          *)
(* MaxConcurrentAgents.                                                    *)
THEOREM SlotsBounded == Spec => []SlotBound
<1>1. IInv => SlotBound
  BY DEF IInv
<1> QED
  BY <1>1, Invariance, PTL

(* markDependentsFailed reaches everything below a failed sub-task.        *)
THEOREM FailureSpreads == Spec => []FailurePropagates
<1>1. IInv => FailurePropagates
  <2>1. SUFFICES ASSUME IInv, NEW t \in SubTasks, NEW d \in Known(t),
                        status[d] = "failed"
                 PROVE  status[t] = "failed" /\ worker[t] = "none"
    BY DEF FailurePropagates
  <2>2. ~DepsMet(t)
    BY <2>1 DEF DepsMet
  <2>3. worker[t] = "none" /\ status[t] \notin {"ready", "running", "completed"}
    BY <2>1, <2>2 DEF IInv, GateInv
  <2>4. status[t] # "pending"
    BY <2>1 DEF IInv, NoLostFailure
  <2> QED
    BY <2>1, <2>3, <2>4 DEF IInv, TypeOK, Statuses
<1> QED
  BY <1>1, Invariance, PTL

(* runTaskResult returns after the last goroutine, with every outcome      *)
(* recorded and the error that they call for.                              *)
THEOREM ReturnsAfterAll == Spec => []DoneIsFinal
<1>1. IInv => DoneIsFinal
  BY DEF IInv, TypeOK, EndInv, DoneIsFinal, Terminal
<1> QED
  BY <1>1, Invariance, PTL

(* Every variable of the run keeps its type.                               *)
THEOREM RunTypes == Spec => []TypeOK
<1>1. IInv => TypeOK
  BY DEF IInv
<1> QED
  BY <1>1, Invariance, PTL

(* An agent recorded as running has a goroutine at work on a sub-task.     *)
THEOREM LifecycleHonest == Spec => []LifecycleRunning
<1>1. IInv => LifecycleRunning
  BY DEF IInv
<1> QED
  BY <1>1, Invariance, PTL

(* An outcome, once recorded, stands; a sub-task is started once.          *)
THEOREM OutcomesStand == Spec => RunsOnce
<1>1. IInv /\ [Next]_vars => [OnceStep]_vars
  <2>1. SUFFICES ASSUME IInv, Next, NEW t \in SubTasks
                 PROVE  /\ status[t] \in Terminal => status'[t] = status[t]
                        /\ worker[t] # "none" =>
                             worker'[t] # "spawned" \/ worker[t] = "spawned"
    BY DEF OnceStep
  <2>2. CASE DequeueReady
    BY <2>1, <2>2 DEF IInv, TypeOK, DequeueReady, Dequeuable, Terminal
  <2>3. CASE Dispatch
    <3>1. \/ UNCHANGED status
          \/ FailResult(current) /\ status[current] = "running" /\ current \in SubTasks
      BY <2>1, <2>3 DEF IInv, PhaseInv, Dispatch
    <3> QED
      BY <2>1, <2>3, <3>1 DEF Dispatch, FailResult, Doomed, Terminal
  <2>4. CASE Acquire
    BY <2>1, <2>4 DEF IInv, TypeOK, PhaseInv, Acquire
  <2>5. ASSUME NEW u \in SubTasks, Report(u)
        PROVE  /\ status[t] \in Terminal => status'[t] = status[t]
               /\ worker'[t] # "spawned" \/ worker[t] = "spawned"
    <3>1. status[u] = "running"
      BY <2>1, <2>5 DEF IInv, PhaseInv, Report
    <3>2. status[t] \in Terminal => status'[t] = status[t]
      BY <2>1, <2>5, <3>1
      DEF Report, FailResult, CompleteResult, Doomed, Activated, Terminal
    <3> QED
      BY <2>1, <2>5, <3>2 DEF IInv, TypeOK, Report
  <2>6. ASSUME NEW u \in SubTasks,
               \/ PrepareInput(u) \/ StartAgent(u) \/ FinishAgent(u) \/ ReleaseSlot(u)
        PROVE  /\ status'[t] = status[t]
               /\ worker'[t] # "spawned" \/ worker[t] = "spawned"
    BY <2>1, <2>6
    DEF IInv, TypeOK, PrepareInput, StartAgent, FinishAgent, ReleaseSlot
  <2>7. CASE \/ CheckPending \/ Recheck \/ WaitAll \/ Finished
             \/ \E a \in Temporary : CleanUpTemporary(a)
    BY <2>7
    DEF CheckPending, Recheck, WaitAll, Finished, CleanUpTemporary, vars, plan
  <2> QED
    BY <2>1, <2>2, <2>3, <2>4, <2>5, <2>6, <2>7 DEF Next, Main, Goroutine
<1> QED
  BY <1>1, Invariance, PTL DEF RunsOnce, Spec

-----------------------------------------------------------------------------
(* The refinement of PlanRun.  Needs and Far name the mapping's functions. *)
Needs == [t \in SubTasks |-> Known(t)]
Far   == [t \in SubTasks |-> Progress(t)]

(* What each progress says of the status and of the goroutine.             *)
LEMMA ProgressMeaning ==
    ASSUME IInv, NEW t \in SubTasks
    PROVE  /\ Far[t] = "succeeded" <=> status[t] = "completed"
           /\ Far[t] = "failed" <=> status[t] = "failed"
           /\ Far[t] = "working" <=> worker[t] \in {"spawned", "prepared", "running"}
           /\ Far[t] = "waiting" <=> worker[t] = "none" /\ status[t] # "failed"
           /\ status[t] = "pending" => Far[t] = "waiting"
BY DEF IInv, TypeOK, PhaseInv, Far, Progress, Terminal, Statuses, Active

LEMMA GateIsOpen ==
    ASSUME IInv, NEW t \in SubTasks, status[t] \in {"ready", "running", "completed"}
    PROVE  \A d \in Needs[t] : Far[d] = "succeeded"
BY ProgressMeaning DEF IInv, GateInv, DepsMet, Needs, Known

(* Every member of Doomed(t) hangs below t or another member: without it   *)
(* the rest would be closed already.                                       *)
LEMMA DoomedHangs ==
    ASSUME NEW t \in SubTasks, NEW u \in Doomed(t)
    PROVE  status[u] = "pending" /\ Known(u) \cap (Doomed(t) \union {t}) # {}
<1>1. u \in SubTasks /\ status[u] = "pending"
  BY DEF Doomed
<1>2. SUFFICES ASSUME Known(u) \cap (Doomed(t) \union {t}) = {} PROVE FALSE
  BY <1>1
<1>3. dependsOn[u] \cap (Doomed(t) \union {t}) = {}
  BY <1>2 DEF Known, Doomed
<1>4. Doomed(t) \ {u} \in SUBSET SubTasks
  BY DEF Doomed
<1>5. ClosedUnderDependents(t, Doomed(t) \ {u})
  <2>1. SUFFICES ASSUME NEW v \in SubTasks, status[v] = "pending",
                        dependsOn[v] \cap ((Doomed(t) \ {u}) \union {t}) # {}
                 PROVE  v \in Doomed(t) \ {u}
    BY DEF ClosedUnderDependents
  <2>2. v \in Doomed(t)
    BY <2>1, DoomedClosed
  <2>3. v # u
    BY <1>3, <2>1
  <2> QED
    BY <2>2, <2>3
<1>6. u \in Doomed(t) \ {u}
  BY <1>4, <1>5 DEF Doomed
<1> QED
  BY <1>6

(* A failure recorded by the queue is the failure PlanRun promises.        *)
LEMMA FailRefines ==
    ASSUME IInv, IInv', UNCHANGED <<plan, result>>,
           NEW t \in SubTasks, status[t] = "running", FailResult(t),
           \A u \in SubTasks \ {t} : worker'[u] = worker[u]
    PROVE  Promise!Fail(t)
<1> DEFINE F == Doomed(t) \union {t}
<1>1. F \in SUBSET SubTasks
  BY DEF Doomed
<1>2. Needs' = Needs
  BY DEF Needs, Known, plan
<1>3. Far[t] = "working" \/ Promise!MayStart(t)
  <2>1. worker[t] \in {"none", "spawned", "prepared", "running"}
    BY DEF IInv, TypeOK, PhaseInv, Active, Terminal
  <2>2. CASE worker[t] = "none"
    BY <2>2, ProgressMeaning, GateIsOpen DEF Promise!MayStart, Needs, Far
  <2>3. CASE worker[t] # "none"
    BY <2>1, <2>3, ProgressMeaning
  <2> QED
    BY <2>2, <2>3
<1>4. \A u \in F \ {t} : Far[u] = "waiting" /\ Needs[u] \cap F # {}
  BY <1>1, DoomedHangs, ProgressMeaning DEF Needs
<1>5. ASSUME NEW u \in SubTasks \ F, Far[u] = "waiting"
      PROVE  Needs[u] \cap F = {}
  <2>1. CASE status[u] = "pending"
    BY <1>1, <1>5, <2>1, DoomedClosed DEF Needs, Known
  <2>2. CASE status[u] # "pending"
    <3>1. status[u] \in {"ready", "running"}
      BY <1>5, <2>2, ProgressMeaning DEF IInv, TypeOK, PhaseInv, Statuses
    <3>2. \A d \in Known(u) : status[d] = "completed"
      BY <3>1 DEF IInv, GateInv, DepsMet
    <3>3. \A d \in F : status[d] # "completed"
      BY DEF Doomed
    <3> QED
      BY <3>2, <3>3 DEF Needs
  <2> QED
    BY <2>1, <2>2
<1>6. Promise!FallsWith(t, F)
  BY <1>4, <1>5 DEF Promise!FallsWith, Far, Needs
<1>7. Far' = [u \in SubTasks |-> IF u \in F THEN "failed" ELSE Far[u]]
  <2>1. SUFFICES ASSUME NEW u \in SubTasks
                 PROVE  Progress(u)' = IF u \in F THEN "failed" ELSE Progress(u)
    BY DEF Far
  <2>2. CASE u \in F
    <3>1. status'[u] = "failed"
      BY <2>2 DEF FailResult
    <3> QED
      BY <2>2, <3>1 DEF Progress, Terminal
  <2>3. CASE u \notin F
    <3>1. status'[u] = status[u] /\ worker'[u] = worker[u]
      BY <2>3 DEF FailResult
    <3> QED
      BY <2>3, <3>1 DEF Progress
  <2> QED
    BY <2>2, <2>3
<1> QED
  BY <1>1, <1>2, <1>3, <1>6, <1>7 DEF Promise!Fail, Needs, Far

(* PlanRun counts with its own copy of Cardinality.                        *)
LEMMA SameCount == \A S : Promise!Cardinality(S) = Cardinality(S)
BY DEF Promise!Cardinality, Cardinality

LEMMA StartRefines ==
    ASSUME IInv, Acquire
    PROVE  Promise!Start(current)
<1>1. /\ current \in SubTasks /\ status[current] = "running"
      /\ worker[current] = "none"
  BY DEF IInv, PhaseInv, Acquire
<1>2. Promise!MayStart(current)
  BY <1>1, ProgressMeaning, GateIsOpen DEF Promise!MayStart, Needs, Far
<1>3. Promise!Cardinality(Promise!Working) < MaxConcurrentAgents
  <2>1. IsFiniteSet(Running)
    BY StepsFinite, FS_Subset DEF Running
  <2>2. Promise!Working \subseteq Running
    BY ProgressMeaning DEF Promise!Working, Far, Running, Active
  <2>3. /\ Cardinality(Promise!Working) <= Cardinality(Running)
        /\ Cardinality(Promise!Working) \in Nat /\ Cardinality(Running) \in Nat
    BY <2>1, <2>2, FS_Subset, FS_CardinalityType
  <2> QED
    BY <2>3, SameCount, SlotAssumption DEF IInv, SlotBound, Acquire
<1>4. Far' = [Far EXCEPT ![current] = "working"]
  <2>0. current' = None /\ worker' = [worker EXCEPT ![current] = "spawned"]
        /\ status' = status
    BY DEF Acquire
  <2>1. (status'[current] = "running" /\ worker'[current] = "spawned")
    BY <1>1, <2>0 DEF IInv, TypeOK
  <2>2. \A u \in SubTasks \ {current} : Progress(u)' = Progress(u)
    BY <1>1 DEF Progress, Acquire, IInv, TypeOK, Terminal
  <2>3. \A u \in SubTasks : Far'[u] = IF u = current THEN "working" ELSE Far[u]
    BY <1>1, <2>1, <2>2 DEF Far, Progress, Terminal
  <2> QED
    BY <1>1, <2>3 DEF Far
<1>5. UNCHANGED <<Needs, result>>
  BY DEF Acquire, plan, Needs, Known
<1> QED
  BY <1>2, <1>3, <1>4, <1>5 DEF Promise!Start, Promise!MayStart, Far, Needs

LEMMA SuccessRefines ==
    ASSUME IInv, NEW t \in SubTasks, Report(t), CompleteResult(t)
    PROVE  Promise!Succeed(t)
<1>1. worker[t] = "running" /\ status[t] = "running"
  BY DEF IInv, PhaseInv, Report
<1>2. Far[t] = "working"
  BY <1>1, ProgressMeaning
<1>3. Far' = [Far EXCEPT ![t] = "succeeded"]
  <2>1. Progress(t)' = "succeeded"
    <3>1. status'[t] = "completed"
      BY DEF CompleteResult
    <3> QED
      BY <3>1 DEF Progress, Terminal
  <2>2. ASSUME NEW u \in SubTasks \ {t} PROVE Progress(u)' = Progress(u)
    <3>1. worker'[u] = worker[u]
      BY DEF Report, IInv, TypeOK
    <3>2. \/ status'[u] = status[u]
          \/ status[u] = "pending" /\ status'[u] = "ready"
      BY DEF CompleteResult, Activated
    <3> QED
      BY <3>1, <3>2 DEF Progress, Terminal
  <2> QED
    BY <2>1, <2>2 DEF Far
<1> QED
  BY <1>2, <1>3 DEF Promise!Succeed, Far, Report, plan, Known

(* A step that moves no sub-task is invisible to the caller.               *)
LEMMA Invisible ==
    ASSUME UNCHANGED <<plan, result>>,
           \A t \in SubTasks : Progress(t)' = Progress(t)
    PROVE  UNCHANGED Promise!vars
BY DEF Promise!vars, plan, Known

LEMMA StepRefines ==
    ASSUME IInv, IInv', [Next]_vars
    PROVE  [Promise!Next]_(Promise!vars)
<1>1. CASE DequeueReady
  <2>1. \A t \in SubTasks : Progress(t)' = Progress(t)
    BY <1>1 DEF DequeueReady, Dequeuable, Progress, IInv, TypeOK, PhaseInv, Terminal
  <2> QED
    BY <1>1, <2>1, Invisible DEF DequeueReady
<1>2. CASE Dispatch
  <2>1. CASE UNCHANGED status
    BY <1>2, <2>1, Invisible DEF Dispatch, Progress
  <2>2. CASE FailResult(current)
    <3>1. current \in SubTasks /\ status[current] = "running"
      BY <1>2 DEF IInv, PhaseInv, Dispatch
    <3>2. UNCHANGED <<plan, result>> /\ worker' = worker
      BY <1>2 DEF Dispatch
    <3>3. Promise!Fail(current)
      BY <2>2, <3>1, <3>2, FailRefines
    <3> QED
      BY <3>1, <3>3 DEF Promise!Next
  <2> QED
    BY <1>2, <2>1, <2>2 DEF Dispatch
<1>3. CASE Acquire
  <2>1. current \in SubTasks /\ Promise!Start(current)
    BY <1>3, StartRefines DEF IInv, PhaseInv, Acquire
  <2> QED
    BY <2>1 DEF Promise!Next
<1>4. CASE WaitAll
  <2>1. result = "none"
    BY <1>4 DEF IInv, EndInv, WaitAll
  <2>2. \A t \in SubTasks : Far[t] \in Promise!Settled
    BY <1>4, ProgressMeaning
    DEF IInv, EndInv, WaitAll, Terminal, Promise!Settled
  <2>3. (\E t \in SubTasks : Far[t] = "failed") <=> (\E t \in SubTasks : status[t] = "failed")
    BY ProgressMeaning
  <2>4. Promise!Answer
    BY <1>4, <2>1, <2>2, <2>3
    DEF Promise!Answer, Far, WaitAll, plan, Known, Progress
  <2> QED
    BY <2>4 DEF Promise!Next
<1>5. ASSUME NEW t \in SubTasks, Report(t)
      PROVE  [Promise!Next]_(Promise!vars)
  <2>1. CASE CompleteResult(t)
    BY <1>5, <2>1, SuccessRefines DEF Promise!Next
  <2>2. CASE FailResult(t)
    <3>1. status[t] = "running" /\ UNCHANGED <<plan, result>>
      BY <1>5 DEF IInv, PhaseInv, Report
    <3>2. \A u \in SubTasks \ {t} : worker'[u] = worker[u]
      BY <1>5 DEF Report, IInv, TypeOK
    <3>3. Promise!Fail(t)
      BY <2>2, <3>1, <3>2, FailRefines
    <3> QED
      BY <3>3 DEF Promise!Next
  <2> QED
    BY <1>5, <2>1, <2>2 DEF Report
<1>6. ASSUME NEW t \in SubTasks,
             \/ PrepareInput(t) \/ StartAgent(t) \/ FinishAgent(t) \/ ReleaseSlot(t)
      PROVE  [Promise!Next]_(Promise!vars)
  <2>1. \A u \in SubTasks : Progress(u)' = Progress(u)
    BY <1>6
    DEF PrepareInput, StartAgent, FinishAgent, ReleaseSlot, Progress, IInv, TypeOK,
        PhaseInv, Terminal
  <2> QED
    BY <1>6, <2>1, Invisible
    DEF PrepareInput, StartAgent, FinishAgent, ReleaseSlot
<1>7. CASE \/ CheckPending \/ Recheck \/ UNCHANGED vars
           \/ \E a \in Temporary : CleanUpTemporary(a)
  BY <1>7, Invisible DEF CheckPending, Recheck, vars, CleanUpTemporary, Progress
<1> QED
  BY <1>1, <1>2, <1>3, <1>4, <1>5, <1>6, <1>7 DEF Next, Main, Goroutine, Finished

(* The orchestrator keeps PlanRun's promise, for every plan, whatever the  *)
(* interleaving of its goroutines (runTaskResult, DequeueReady,            *)
(* UpdateResult, markDependentsFailed).                                    *)
THEOREM PromiseKept == Spec => KeepsPromise
<1>1. Init => Promise!Init
  <2>1. SUFFICES ASSUME Init PROVE Promise!Init
    OBVIOUS
  <2>2. ASSUME NEW t \in SubTasks PROVE Progress(t) = "waiting"
    <3>1. status[t] \in {"ready", "pending"} /\ worker[t] = "none"
      BY <2>1 DEF Init
    <3> QED
      BY <3>1 DEF Progress, Terminal
  <2>3. [t \in SubTasks |-> Known(t)] \in [SubTasks -> SUBSET SubTasks]
    BY DEF Known
  <2>4. result = "none"
    BY <2>1 DEF Init
  <2> QED
    BY <2>2, <2>3, <2>4 DEF Promise!Init
<1>2. IInv /\ IInv' /\ [Next]_vars => [Promise!Next]_(Promise!vars)
  BY StepRefines
<1> QED
  BY <1>1, <1>2, Invariance, PTL DEF Spec, KeepsPromise, Promise!Spec
=============================================================================
