------------------------------- MODULE PlanRun --------------------------------
(***************************************************************************)
(* What a caller of the orchestrator is promised: a plan whose sub-tasks   *)
(* run at most Limit at a time, each after the ones it needs, whose        *)
(* failures take everything below them along at once, and which is         *)
(* answered when all of it is settled.  No queue, no goroutine, no lock.   *)
(***************************************************************************)
EXTENDS Naturals, FiniteSets

CONSTANTS Tasks, Limit

VARIABLES
    needs,      \* the sub-tasks each one needs
    progress,   \* how far each one is
    answer      \* what the caller got

vars == <<needs, progress, answer>>

Settled == {"succeeded", "failed"}
Working == {t \in Tasks : progress[t] = "working"}

Init ==
    /\ needs \in [Tasks -> SUBSET Tasks]
    /\ progress = [t \in Tasks |-> "waiting"]
    /\ answer = "none"

MayStart(t) == /\ progress[t] = "waiting"
               /\ \A d \in needs[t] : progress[d] = "succeeded"

Start(t) ==
    /\ MayStart(t)
    /\ Cardinality(Working) < Limit
    /\ progress' = [progress EXCEPT ![t] = "working"]
    /\ UNCHANGED <<needs, answer>>

Succeed(t) ==
    /\ progress[t] = "working"
    /\ progress' = [progress EXCEPT ![t] = "succeeded"]
    /\ UNCHANGED <<needs, answer>>

(* F falls with t: waiting sub-tasks, each below another one of F, and no  *)
(* waiting sub-task that is left needs one of F.                           *)
FallsWith(t, F) ==
    /\ t \in F
    /\ \A u \in F \ {t} : progress[u] = "waiting" /\ needs[u] \cap F # {}
    /\ \A u \in Tasks \ F : progress[u] = "waiting" => needs[u] \cap F = {}

Fail(t) ==
    /\ progress[t] = "working" \/ MayStart(t)
    /\ \E F \in SUBSET Tasks :
         /\ FallsWith(t, F)
         /\ progress' = [u \in Tasks |-> IF u \in F THEN "failed" ELSE progress[u]]
    /\ UNCHANGED <<needs, answer>>

Answer ==
    /\ answer = "none"
    /\ \A t \in Tasks : progress[t] \in Settled
    /\ answer' = IF \E t \in Tasks : progress[t] = "failed" THEN "error" ELSE "ok"
    /\ UNCHANGED <<needs, progress>>

Next == \/ \E t \in Tasks : Start(t) \/ Succeed(t) \/ Fail(t)
        \/ Answer

Spec == Init /\ [][Next]_vars
=============================================================================
