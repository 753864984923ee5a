----------------------------- MODULE TaskRunProofs -----------------------------
(***************************************************************************)
(* Proofs about TaskRun, for every number of answers: type correctness,    *)
(* the approval gate, and what the record of a task says.                  *)
(*                                                                         *)
(* The gate is not inductive as it stands: an execution is let through on  *)
(* the strength of an approval's recorded status, so the invariant adds    *)
(* that whatever is recorded as approved was approved (ApprovedByAnswer),  *)
(* that an answer on its way to the record is about an approval that       *)
(* exists (AnswersAim), and that the two places between the check and the  *)
(* runtime are behind the gate as well (PastTheGate).                      *)
(***************************************************************************)
EXTENDS TaskRun, TLAPS

ApprovedByAnswer ==
    \A i \in 1 .. Len(approvals) : approvals[i].status = "approved" => i \in granted

AnswersAim ==
    \A k \in Answers : answer[k] \in {"read", "resolved"} =>
        target[k] \in 1 .. Len(approvals)

ExecutionGranted ==
    \E i \in granted : approvals[i].kind = "execution"

PastTheGate ==
    gated => \A e \in Executions :
                pc[e] \in Cleared \union AtWork => ExecutionGranted

IInv == /\ TypeOK
        /\ ApprovedByAnswer
        /\ AnswersAim
        /\ PastTheGate

Places == Unbound \union Bound \union Cleared \union AtWork

-----------------------------------------------------------------------------
(* A step of an execution that moves it from one place to another on the   *)
(* same side of the gate and leaves the approvals alone.                   *)
LEMMA MoveKeepsGate ==
    ASSUME IInv, NEW e \in Executions, NEW place, Goto(e, place),
           UNCHANGED <<gated, approvals, granted>>,
           \/ pc[e] \in Cleared \union AtWork
           \/ place \notin Cleared \union AtWork
           \/ ~gated
           \/ ExecutionGranted
    PROVE  PastTheGate'
BY DEF IInv, TypeOK, PastTheGate, ExecutionGranted, Goto

(* What a step of an execution changes besides its own place: enough to    *)
(* keep the types of everything it has.                                    *)
LEMMA LocalTypes ==
    ASSUME IInv, NEW e \in Executions, Stays, task' \in Record,
           UNCHANGED presences \/ \E s \in Sessions :
              \/ \E p \in {"idle", "queued", "typing", "waiting_approval"} :
                    SetPresence(s, p)
              \/ EnqueueTurn(s)
              \/ AddExchange(s),
           NEW place \in Places, Goto(e, place),
           NEW c \in Record, copy' = [copy EXCEPT ![e] = c],
           NEW s \in Sessions \union {NoSession}, session' = [session EXCEPT ![e] = s],
           NEW r \in {"none", "error", "waiting"}, err' = [err EXCEPT ![e] = r],
           place \notin Unbound => s \in Sessions
    PROVE  TypeOK' /\ ApprovedByAnswer' /\ AnswersAim'
<1>1. /\ depth' \in [Sessions -> Nat]
      /\ presence' \in [Sessions -> {"idle", "queued", "typing", "waiting_approval"}]
      /\ said' \subseteq Sessions
  <2>1. /\ depth \in [Sessions -> Nat]
        /\ presence \in [Sessions -> {"idle", "queued", "typing", "waiting_approval"}]
        /\ said \subseteq Sessions
    BY DEF IInv, TypeOK
  <2>2. CASE UNCHANGED presences
    BY <2>1, <2>2 DEF presences
  <2>3. ASSUME NEW n \in Sessions,
               NEW p \in {"idle", "queued", "typing", "waiting_approval"},
               SetPresence(n, p)
        PROVE  /\ depth' \in [Sessions -> Nat]
               /\ presence' \in [Sessions -> {"idle", "queued", "typing", "waiting_approval"}]
               /\ said' \subseteq Sessions
    BY <2>1, <2>3 DEF SetPresence
  <2>4. ASSUME NEW n \in Sessions, EnqueueTurn(n)
        PROVE  /\ depth' \in [Sessions -> Nat]
               /\ presence' \in [Sessions -> {"idle", "queued", "typing", "waiting_approval"}]
               /\ said' \subseteq Sessions
    BY <2>1, <2>4 DEF EnqueueTurn
  <2>5. ASSUME NEW n \in Sessions, AddExchange(n)
        PROVE  /\ depth' \in [Sessions -> Nat]
               /\ presence' \in [Sessions -> {"idle", "queued", "typing", "waiting_approval"}]
               /\ said' \subseteq Sessions
    BY <2>1, <2>5 DEF AddExchange
  <2> QED
    BY <2>2, <2>3, <2>4, <2>5
<1>2. /\ pc' \in [Executions -> Places]
      /\ copy' \in [Executions -> Record]
      /\ session' \in [Executions -> Sessions \union {NoSession}]
      /\ err' \in [Executions -> {"none", "error", "waiting"}]
      /\ \A x \in Executions : pc'[x] \notin Unbound => session'[x] \in Sessions
  BY DEF IInv, TypeOK, Goto, Places
<1>3. UNCHANGED <<gated, approvals, answer, target, verdict, seen, held, granted,
                  hasty, crashed>>
  BY DEF Stays, resolver, history
<1>4. TypeOK'
  BY <1>1, <1>2, <1>3 DEF IInv, TypeOK, Places
<1> QED
  BY <1>3, <1>4 DEF IInv, ApprovedByAnswer, AnswersAim

(* The steps of an execution that go on, or end, with a local state.       *)
LEMMA ContinueKeeps ==
    ASSUME IInv, NEW e \in Executions, Stays, task' \in Record,
           UNCHANGED presences \/ \E s \in Sessions :
              \/ \E p \in {"idle", "queued", "typing", "waiting_approval"} :
                    SetPresence(s, p)
              \/ EnqueueTurn(s)
              \/ AddExchange(s),
           NEW place \in Places, NEW c \in Record,
           NEW s \in Sessions \union {NoSession}, NEW r \in {"none", "error", "waiting"},
           Continue(e, place, c, s, r),
           place \notin Unbound => s \in Sessions,
           \/ pc[e] \in Cleared \union AtWork
           \/ place \notin Cleared \union AtWork
    PROVE  IInv'
<1>1. PastTheGate'
  BY MoveKeepsGate DEF Continue, Stays, history
<1>2. Blank \in Record
  BY DEF Blank, Record, Statuses
<1>3. CASE place = "returned"
  <2>1. /\ Goto(e, place)
        /\ copy' = [copy EXCEPT ![e] = Blank]
        /\ session' = [session EXCEPT ![e] = NoSession]
        /\ err' = [err EXCEPT ![e] = "none"]
    BY <1>3 DEF Continue
  <2>2. place \in Unbound
    BY <1>3 DEF Unbound
  <2> QED
    BY <1>1, <1>2, <2>1, <2>2, LocalTypes DEF IInv
<1>4. CASE place # "returned"
  <2>1. /\ Goto(e, place)
        /\ copy' = [copy EXCEPT ![e] = c]
        /\ session' = [session EXCEPT ![e] = s]
        /\ err' = [err EXCEPT ![e] = r]
    BY <1>4 DEF Continue
  <2> QED
    BY <1>1, <2>1, LocalTypes DEF IInv
<1> QED
  BY <1>3, <1>4

LEMMA PersistKeeps ==
    ASSUME IInv, NEW e \in Executions,
           NEW from \in Places \ Unbound, NEW status \in Statuses, NEW to \in Places,
           Persist(e, from, status, to),
           from \in Cleared \union AtWork \/ to \notin Cleared \union AtWork
    PROVE  IInv'
<1>1. pc[e] = from /\ session[e] \in Sessions
  BY DEF Persist, IInv, TypeOK
<1>2. task' \in Record
  BY DEF Persist, IInv, TypeOK, Record
<1>3. err[e] \in {"none", "error", "waiting"}
  BY DEF IInv, TypeOK
<1>4. /\ Continue(e, to, task', session[e], err[e])
      /\ Stays /\ UNCHANGED presences
  BY DEF Persist
<1> QED
  BY <1>1, <1>2, <1>3, <1>4, ContinueKeeps

LEMMA TellKeeps ==
    ASSUME IInv, NEW e \in Executions, NEW from \in Places \ Unbound,
           NEW p \in {"idle", "queued", "typing", "waiting_approval"}, NEW to \in Places,
           Tell(e, from, p, to),
           from \in Cleared \union AtWork \/ to \notin Cleared \union AtWork
    PROVE  IInv'
<1>1. pc[e] = from /\ session[e] \in Sessions
  BY DEF Tell, IInv, TypeOK
<1>2. copy[e] \in Record /\ err[e] \in {"none", "error", "waiting"} /\ task' \in Record
  BY DEF Tell, IInv, TypeOK
<1>3. Continue(e, to, copy[e], session[e], err[e]) /\ Stays
  BY DEF Tell, GoOn
<1>4. SetPresence(session[e], p)
  BY DEF Tell
<1> QED
  BY <1>1, <1>2, <1>3, <1>4, ContinueKeeps

(* Asking for an approval adds a pending one at the end.                   *)
LEMMA AskKeeps ==
    ASSUME IInv, NEW e \in Executions, NEW from, NEW kind \in {"execution", "tool"},
           NEW to \in Places,
           pc[e] = from, from \notin Unbound,
           approvals' = Append(approvals, [kind |-> kind, status |-> "pending"]),
           Goto(e, to), err' \in [Executions -> {"none", "error", "waiting"}],
           UNCHANGED <<gated, task, copy, session, presences, resolver, history>>,
           from \in AtWork \/ to \notin Cleared \union AtWork
    PROVE  IInv'
<1>1. /\ approvals' \in Seq(Approval) /\ Len(approvals') = Len(approvals) + 1
      /\ Len(approvals) \in Nat
      /\ \A i \in 1 .. Len(approvals) : approvals'[i] = approvals[i]
      /\ approvals'[Len(approvals) + 1] = [kind |-> kind, status |-> "pending"]
  <2>1. approvals \in Seq(Approval)
    BY DEF IInv, TypeOK
  <2>2. [kind |-> kind, status |-> "pending"] \in Approval
    BY DEF Approval
  <2> QED
    BY <2>1, <2>2
<1>2. UNCHANGED <<granted, answer, target, gated>>
  BY DEF history, resolver
<1>3. granted \subseteq 1 .. Len(approvals)
  BY DEF IInv, TypeOK
<1>4. TypeOK'
  <2>1. target \in [Answers -> 0 .. Len(approvals')] /\ granted \subseteq 1 .. Len(approvals')
    BY <1>1 DEF IInv, TypeOK
  <2>2. /\ pc' \in [Executions -> Places]
        /\ \A x \in Executions : pc'[x] \notin Unbound => session[x] \in Sessions
    BY DEF IInv, TypeOK, Goto, Places
  <2>3. UNCHANGED <<gated, task, copy, session, depth, presence, said, answer, target,
                    verdict, seen, held, granted, hasty, crashed>>
    BY DEF presences, resolver, history
  <2> QED
    BY <1>1, <2>1, <2>2, <2>3 DEF IInv, TypeOK, Places
<1>5. ApprovedByAnswer'
  BY <1>1, <1>2 DEF IInv, ApprovedByAnswer
<1>6. AnswersAim'
  BY <1>1, <1>2 DEF IInv, AnswersAim
<1>7. ExecutionGranted => ExecutionGranted'
  BY <1>1, <1>2, <1>3 DEF ExecutionGranted
<1>8. PastTheGate'
  <2>1. ASSUME gated, NEW x \in Executions, pc'[x] \in Cleared \union AtWork
        PROVE  ExecutionGranted
    BY <2>1 DEF IInv, TypeOK, PastTheGate, Goto
  <2> QED
    BY <1>2, <1>7, <2>1 DEF PastTheGate
<1> QED
  BY <1>4, <1>5, <1>6, <1>8 DEF IInv

-----------------------------------------------------------------------------
LEMMA InitInv == Init => IInv
<1> SUFFICES ASSUME Init PROVE IInv
  OBVIOUS
<1>1. TypeOK
  <2>1. Blank \in Record /\ task \in Record
    BY BoundAssumption DEF Init, Record, Blank, Statuses, Sessions
  <2>2. approvals \in Seq(Approval) /\ Len(approvals) = 0
    BY DEF Init
  <2>3. pc \in [Executions -> Unbound] /\ \A e \in Executions : pc[e] \in Unbound
    BY DEF Init, Unbound
  <2>4. /\ gated \in BOOLEAN
        /\ copy \in [Executions -> Record]
        /\ session \in [Executions -> Sessions \union {NoSession}]
        /\ err \in [Executions -> {"none", "error", "waiting"}]
        /\ held \in [Answers -> Record]
    BY <2>1 DEF Init
  <2>5. /\ depth \in [Sessions -> Nat]
        /\ presence \in [Sessions -> {"idle", "queued", "typing", "waiting_approval"}]
        /\ said \subseteq Sessions
        /\ target \in [Answers -> 0 .. Len(approvals)]
    BY <2>2 DEF Init
  <2>6. /\ answer \in [Answers -> {"none", "read", "resolved", "rejecting", "telling", "done"}]
        /\ verdict \in [Answers -> BOOLEAN]
        /\ seen \in [Answers -> {"none", "pending", "approved", "rejected"}]
        /\ granted \subseteq 1 .. Len(approvals)
        /\ hasty \in BOOLEAN /\ crashed \in BOOLEAN
    BY DEF Init
  <2> QED
    BY <2>1, <2>2, <2>3, <2>4, <2>5, <2>6 DEF TypeOK
<1>2. ApprovedByAnswer /\ AnswersAim
  BY DEF Init, ApprovedByAnswer, AnswersAim
<1>3. PastTheGate
  BY DEF Init, PastTheGate, Cleared, AtWork
<1> QED
  BY <1>1, <1>2, <1>3 DEF IInv

-----------------------------------------------------------------------------
(* The executions.                                                         *)
LEMMA ExecuteKeeps ==
    ASSUME IInv, NEW e \in Executions, Execute(e)
    PROVE  IInv'
<1> USE DEF Places, Unbound, Bound, Cleared, AtWork
<1>0. /\ task \in Record /\ copy[e] \in Record /\ copy[e].status \in Statuses
      /\ session[e] \in Sessions \union {NoSession}
      /\ err[e] \in {"none", "error", "waiting"}
      /\ pc[e] \notin Unbound => session[e] \in Sessions
  BY DEF IInv, TypeOK, Record
<1>1. CASE Begin(e)
  <2>1. /\ session' = [session EXCEPT ![e] = session[e]]
        /\ err' = [err EXCEPT ![e] = err[e]]
        /\ task' = task /\ UNCHANGED presences /\ Stays
        /\ UNCHANGED <<gated, approvals, granted>>
    BY <1>1 DEF Begin, IInv, TypeOK, Stays, history
  <2>2. CASE Goto(e, "returned") /\ copy' = copy
    <3>1. copy' = [copy EXCEPT ![e] = copy[e]]
      BY <2>2 DEF IInv, TypeOK
    <3>2. PastTheGate'
      BY <2>1, <2>2, MoveKeepsGate
    <3> QED
      BY <1>0, <2>1, <2>2, <3>1, <3>2, LocalTypes DEF IInv
  <2>3. CASE Goto(e, "starting") /\ copy' = [copy EXCEPT ![e] = task]
    <3>1. PastTheGate'
      BY <2>1, <2>3, MoveKeepsGate
    <3> QED
      BY <1>0, <2>1, <2>3, <3>1, LocalTypes DEF IInv
  <2> QED
    BY <1>1, <2>2, <2>3 DEF Begin
<1>2. CASE MarkRunning(e)
  <2>1. task' = [copy[e] EXCEPT !.status = "running"] /\ task' \in Record
    BY <1>0, <1>2 DEF MarkRunning, Persist, Record, Statuses
  <2>2. /\ Goto(e, "binding")
        /\ copy' = [copy EXCEPT ![e] = task']
        /\ session' = [session EXCEPT ![e] = session[e]]
        /\ err' = [err EXCEPT ![e] = err[e]]
        /\ UNCHANGED presences /\ Stays
        /\ UNCHANGED <<gated, approvals, granted>>
    BY <1>2 DEF MarkRunning, Persist, Continue, Stays, history
  <2>3. PastTheGate'
    BY <2>2, MoveKeepsGate
  <2> QED
    BY <1>0, <2>1, <2>2, <2>3, LocalTypes DEF IInv
<1>3. CASE BindSession(e)
  <2> DEFINE s == IF copy[e].session # NoSession THEN copy[e].session ELSE e
             to == IF copy[e].session # NoSession THEN "linking" ELSE "saving"
  <2>1. s \in Sessions /\ [copy[e] EXCEPT !.session = s] \in Record
    BY <1>0, BoundAssumption DEF Record, Sessions, Executions
  <2>2. /\ Goto(e, to)
        /\ copy' = [copy EXCEPT ![e] = [copy[e] EXCEPT !.session = s]]
        /\ session' = [session EXCEPT ![e] = s]
        /\ err' = [err EXCEPT ![e] = err[e]]
        /\ task' = task /\ UNCHANGED presences /\ Stays
        /\ UNCHANGED <<gated, approvals, granted>>
    BY <1>3 DEF BindSession, IInv, TypeOK, Stays, history
  <2>3. PastTheGate'
    BY <2>2, MoveKeepsGate
  <2> HIDE DEF s
  <2> QED
    BY <1>0, <2>1, <2>2, <2>3, LocalTypes DEF IInv
<1>4. CASE SaveSession(e)
  BY <1>0, <1>4, PersistKeeps DEF SaveSession, Statuses
<1>5. CASE SaveReady(e)
  BY <1>0, <1>5, PersistKeeps DEF SaveReady, Statuses
<1>6. CASE FailUnavailable(e)
  BY <1>0, <1>6, PersistKeeps DEF FailUnavailable, Statuses
<1>7. CASE SaveApproved(e)
  BY <1>0, <1>7, PersistKeeps DEF SaveApproved, Statuses
<1>8. CASE SaveWaiting(e)
  BY <1>0, <1>8, PersistKeeps DEF SaveWaiting, Statuses
<1>9. CASE SavePause(e)
  BY <1>0, <1>9, PersistKeeps DEF SavePause, Statuses
<1>10. CASE RecordActivities(e)
  BY <1>0, <1>10, PersistKeeps DEF RecordActivities, Statuses
<1>11. CASE Complete(e)
  BY <1>0, <1>11, PersistKeeps DEF Complete, Statuses
<1>12. CASE FailTask(e)
  BY <1>0, <1>12, PersistKeeps DEF FailTask, Statuses
<1>13. CASE ShowTyping(e)
  BY <1>13, TellKeeps DEF ShowTyping
<1>14. CASE ShowCleared(e)
  BY <1>14, TellKeeps DEF ShowCleared
<1>15. CASE ShowRefused(e)
  BY <1>15, TellKeeps DEF ShowRefused
<1>16. CASE Park(e)
  BY <1>16, TellKeeps DEF Park
<1>17. CASE ShowPause(e)
  BY <1>17, TellKeeps DEF ShowPause
<1>18. CASE ShowIdle(e)
  BY <1>18, TellKeeps DEF ShowIdle
<1>19. CASE Enqueue(e)
  <2>1. /\ pc[e] = "enqueuing" /\ EnqueueTurn(session[e])
        /\ Goto(e, "greeting")
        /\ copy' = [copy EXCEPT ![e] = copy[e]]
        /\ session' = [session EXCEPT ![e] = session[e]]
        /\ err' = [err EXCEPT ![e] = err[e]]
        /\ task' = task /\ Stays
        /\ UNCHANGED <<gated, approvals, granted>>
    BY <1>19 DEF Enqueue, IInv, TypeOK, Stays, local, history
  <2>2. PastTheGate'
    BY <2>1, MoveKeepsGate
  <2> QED
    BY <1>0, <2>1, <2>2, LocalTypes DEF IInv
<1>20. CASE FetchRuntime(e)
  <2>1. /\ pc[e] = "fetching"
        /\ copy' = [copy EXCEPT ![e] = copy[e]]
        /\ session' = [session EXCEPT ![e] = session[e]]
        /\ err' = [err EXCEPT ![e] = err[e]]
        /\ task' = task /\ UNCHANGED presences /\ Stays
        /\ UNCHANGED <<gated, approvals, granted>>
    BY <1>20 DEF FetchRuntime, IInv, TypeOK, Stays, local, history
  <2>2. PICK place \in {"gate", "unavailable"} : Goto(e, place)
    BY <1>20 DEF FetchRuntime
  <2>3. PastTheGate'
    BY <2>1, <2>2, MoveKeepsGate
  <2> QED
    BY <1>0, <2>1, <2>2, <2>3, LocalTypes DEF IInv
<1>21. CASE CheckApproval(e)
  <2>1. /\ pc[e] = "gate" /\ Goto(e, AfterGate)
        /\ copy' = [copy EXCEPT ![e] = copy[e]]
        /\ session' = [session EXCEPT ![e] = session[e]]
        /\ err' = [err EXCEPT ![e] = err[e]]
        /\ task' = task /\ UNCHANGED presences /\ Stays
        /\ UNCHANGED <<gated, approvals, granted>>
    BY <1>21 DEF CheckApproval, IInv, TypeOK, Stays, local, history
  <2>2. AfterGate \in Places \ Unbound
    BY DEF AfterGate
  <2>3. AfterGate \in Cleared \union AtWork => ~gated \/ ExecutionIs("approved")
    BY DEF AfterGate
  <2>4. ExecutionIs("approved") => ExecutionGranted
    BY DEF ExecutionIs, AskedFor, ExecutionGranted, IInv, ApprovedByAnswer
  <2>5. PastTheGate'
    BY <2>1, <2>3, <2>4, MoveKeepsGate
  <2> QED
    BY <1>0, <2>1, <2>2, <2>5, LocalTypes DEF IInv
<1>22. CASE RequestExecution(e)
  <2>1. /\ pc[e] = "requesting" /\ Goto(e, "waiting")
        /\ approvals' = Append(approvals, [kind |-> "execution", status |-> "pending"])
        /\ UNCHANGED <<gated, task, copy, session, err, presences, resolver, history>>
    BY <1>22 DEF RequestExecution, Ask, local
  <2>2. err' \in [Executions -> {"none", "error", "waiting"}]
    BY <2>1 DEF IInv, TypeOK
  <2> QED
    BY <2>1, <2>2, AskKeeps
<1>23. CASE CallTool(e)
  <2>1. /\ pc[e] = "executing" /\ Goto(e, "pausing")
        /\ approvals' = Append(approvals, [kind |-> "tool", status |-> "pending"])
        /\ UNCHANGED <<gated, task, copy, session, presences, resolver, history>>
    BY <1>23 DEF CallTool
  <2>2. err' \in [Executions -> {"none", "error", "waiting"}]
    BY <1>23 DEF CallTool, IInv, TypeOK
  <2> QED
    BY <2>1, <2>2, AskKeeps
<1>24. CASE RuntimeReturns(e)
  <2>1. /\ pc[e] = "executing" /\ Goto(e, "refreshing")
        /\ copy' = [copy EXCEPT ![e] = copy[e]]
        /\ session' = [session EXCEPT ![e] = session[e]]
        /\ task' = task /\ UNCHANGED presences /\ Stays
        /\ UNCHANGED <<gated, approvals, granted>>
    BY <1>24 DEF RuntimeReturns, IInv, TypeOK, Stays, history
  <2>2. PICK outcome \in {"none", "error"} : err' = [err EXCEPT ![e] = outcome]
    BY <1>24 DEF RuntimeReturns
  <2>3. PastTheGate'
    BY <2>1, MoveKeepsGate
  <2> QED
    BY <1>0, <2>1, <2>2, <2>3, LocalTypes DEF IInv
<1>25. CASE Refresh(e)
  <2>1. /\ pc[e] = "refreshing" /\ copy' = [copy EXCEPT ![e] = task]
        /\ session' = [session EXCEPT ![e] = session[e]]
        /\ err' = [err EXCEPT ![e] = err[e]]
        /\ task' = task /\ UNCHANGED presences /\ Stays
        /\ UNCHANGED <<gated, approvals, granted>>
    BY <1>25 DEF Refresh, IInv, TypeOK, Stays, history
  <2>2. PICK place \in {"recording", "settling"} : Goto(e, place)
    BY <1>25 DEF Refresh
  <2>3. PastTheGate'
    BY <2>1, <2>2, MoveKeepsGate
  <2> QED
    BY <1>0, <2>1, <2>2, <2>3, LocalTypes DEF IInv
<1>26. CASE Settle(e)
  <2>1. /\ pc[e] = "settling" /\ Stays /\ task' = task
        /\ session[e] \in Sessions
    BY <1>0, <1>26 DEF Settle
  <2>2. CASE SetPresence(session[e], "waiting_approval") /\ GoOn(e, "returned")
    BY <1>0, <2>1, <2>2, ContinueKeeps DEF GoOn
  <2>3. CASE SetPresence(session[e], "idle") /\ GoOn(e, "failing")
    BY <1>0, <2>1, <2>3, ContinueKeeps DEF GoOn
  <2>4. CASE AddExchange(session[e]) /\ GoOn(e, "replied")
    BY <1>0, <2>1, <2>4, ContinueKeeps DEF GoOn
  <2> QED
    BY <1>26, <2>2, <2>3, <2>4 DEF Settle
<1> QED
  BY <1>1, <1>2, <1>3, <1>4, <1>5, <1>6, <1>7, <1>8, <1>9, <1>10, <1>11, <1>12, <1>13, <1>14, <1>15, <1>16, <1>17, <1>18, <1>19, <1>20, <1>21, <1>22, <1>23, <1>24, <1>25, <1>26
  DEF Execute

-----------------------------------------------------------------------------
(* The answers and the crash.                                              *)
LEMMA ReadKeeps ==
    ASSUME IInv, NEW k \in Answers, ReadApproval(k)
    PROVE  IInv'
<1>1. PICK i \in 1 .. Len(approvals), yes \in BOOLEAN :
          /\ target' = [target EXCEPT ![k] = i]
          /\ verdict' = [verdict EXCEPT ![k] = yes]
          /\ seen' = [seen EXCEPT ![k] = approvals[i].status]
  BY DEF ReadApproval
<1>2. /\ answer' = [answer EXCEPT ![k] = "read"]
      /\ hasty' \in BOOLEAN
      /\ UNCHANGED <<gated, copy, session, err, crashed, task, approvals, pc, depth,
                     presence, said, held, granted>>
  BY DEF ReadApproval, Kept, local, store, presences, IInv, TypeOK
<1>3. approvals[i].status \in {"pending", "approved", "rejected"}
  <2>1. approvals \in Seq(Approval)
    BY DEF IInv, TypeOK
  <2>2. approvals[i] \in Approval
    BY <1>1, <2>1
  <2> QED
    BY <2>2 DEF Approval
<1>4. /\ answer' \in [Answers -> {"none", "read", "resolved", "rejecting", "telling", "done"}]
      /\ target' \in [Answers -> 0 .. Len(approvals)]
      /\ verdict' \in [Answers -> BOOLEAN]
      /\ seen' \in [Answers -> {"none", "pending", "approved", "rejected"}]
  BY <1>1, <1>2, <1>3 DEF IInv, TypeOK
<1>5. TypeOK'
  BY <1>2, <1>4 DEF IInv, TypeOK
<1>6. AnswersAim'
  BY <1>1, <1>2 DEF IInv, TypeOK, AnswersAim
<1> QED
  BY <1>2, <1>5, <1>6
  DEF IInv, ApprovedByAnswer, PastTheGate, ExecutionGranted

LEMMA ResolveKeeps ==
    ASSUME IInv, NEW k \in Answers, Resolve(k)
    PROVE  IInv'
<1>1. /\ answer' = [answer EXCEPT ![k] = "resolved"]
      /\ UNCHANGED <<gated, copy, session, err, crashed, task, pc, depth, presence, said,
                     target, verdict, seen, held, hasty>>
  BY DEF Resolve, Kept, local, presences
<1>2. target[k] \in 1 .. Len(approvals)
  BY DEF IInv, AnswersAim, Resolve
<1>3. AnswersAim' \/ Len(approvals') # Len(approvals)
  BY <1>1, <1>2 DEF IInv, TypeOK, AnswersAim
<1>4. /\ answer' \in [Answers -> {"none", "read", "resolved", "rejecting", "telling", "done"}]
  BY <1>1 DEF IInv, TypeOK
<1>5. CASE UNCHANGED <<approvals, granted>>
  <2>1. TypeOK'
    BY <1>1, <1>4, <1>5 DEF IInv, TypeOK
  <2> QED
    BY <1>1, <1>3, <1>5, <2>1 DEF IInv, ApprovedByAnswer, PastTheGate, ExecutionGranted
<1>6. CASE /\ approvals' = [approvals EXCEPT ![target[k]].status =
                               IF verdict[k] THEN "approved" ELSE "rejected"]
           /\ granted' = IF verdict[k] THEN granted \union {target[k]} ELSE granted
  <2>1. /\ approvals \in Seq(Approval) /\ granted \subseteq 1 .. Len(approvals)
        /\ ApprovedByAnswer
    BY DEF IInv, TypeOK
  <2> DEFINE new == [approvals[target[k]] EXCEPT !.status =
                        IF verdict[k] THEN "approved" ELSE "rejected"]
  <2>2. approvals[target[k]] \in Approval
    BY <1>2, <2>1
  <2>3. new \in Approval /\ new.kind = approvals[target[k]].kind
        /\ (new.status = "approved" => verdict[k])
    BY <2>2 DEF Approval
  <2>4. approvals' = [approvals EXCEPT ![target[k]] = new]
    BY <1>6
  <2> HIDE DEF new
  <2>5. /\ approvals' \in Seq(Approval) /\ Len(approvals') = Len(approvals)
        /\ \A i \in 1 .. Len(approvals) : approvals'[i] = IF i = target[k] THEN new
                                                          ELSE approvals[i]
    BY <1>2, <2>1, <2>3, <2>4
  <2>6. granted \subseteq granted' /\ granted' \subseteq 1 .. Len(approvals')
    BY <1>2, <1>6, <2>1, <2>5
  <2>7. ApprovedByAnswer'
    BY <1>6, <2>1, <2>3, <2>5, <2>6 DEF ApprovedByAnswer
  <2>8. ExecutionGranted => ExecutionGranted'
    BY <2>1, <2>3, <2>5, <2>6 DEF ExecutionGranted
  <2>9. PastTheGate'
    BY <1>1, <2>8 DEF IInv, PastTheGate
  <2>10. TypeOK'
    BY <1>1, <1>4, <2>5, <2>6 DEF IInv, TypeOK
  <2> QED
    BY <1>3, <2>5, <2>7, <2>9, <2>10 DEF IInv
<1> QED
  BY <1>5, <1>6 DEF Resolve

LEMMA AnswerEndsTypes ==
    ASSUME IInv, NEW k \in Answers, AnswerEnds(k), UNCHANGED approvals
    PROVE  /\ answer' \in [Answers -> {"none", "read", "resolved", "rejecting", "telling", "done"}]
           /\ target' \in [Answers -> 0 .. Len(approvals)]
           /\ verdict' \in [Answers -> BOOLEAN]
           /\ seen' \in [Answers -> {"none", "pending", "approved", "rejected"}]
           /\ held' \in [Answers -> Record]
           /\ AnswersAim'
<1>1. Blank \in Record
  BY DEF Blank, Record, Statuses
<1>2. approvals \in Seq(Approval) /\ Len(approvals) \in Nat
  BY DEF IInv, TypeOK
<1>3. target' \in [Answers -> 0 .. Len(approvals)]
  BY <1>2 DEF IInv, TypeOK, AnswerEnds
<1>4. AnswersAim'
  BY DEF IInv, TypeOK, AnswersAim, AnswerEnds
<1> QED
  BY <1>1, <1>3, <1>4 DEF IInv, TypeOK, AnswerEnds

LEMMA HandleAnswerKeeps ==
    ASSUME IInv, NEW k \in Answers, HandleAnswer(k)
    PROVE  IInv'
<1>1. CASE Resolve(k)
  BY <1>1, ResolveKeeps
<1>2. CASE Resume(k)
  <2>1. /\ Goto(k + 1, "new") /\ AnswerEnds(k)
        /\ UNCHANGED <<gated, copy, session, err, crashed, task, approvals, depth,
                       presence, said, granted, hasty>>
    BY <1>2 DEF Resume, Kept, local, store, presences
  <2>2. k + 1 \in Executions
    BY BoundAssumption DEF Answers, Executions
  <2>3. /\ pc' \in [Executions -> Places]
        /\ \A x \in Executions : pc'[x] \notin Unbound => session[x] \in Sessions
    BY <2>1, <2>2 DEF IInv, TypeOK, Goto, Places, Unbound
  <2>4. TypeOK' /\ AnswersAim'
    BY <2>1, <2>3, AnswerEndsTypes DEF IInv, TypeOK, Places
  <2>5. PastTheGate'
    BY <2>1, <2>2, MoveKeepsGate DEF Cleared, AtWork
  <2> QED
    BY <2>1, <2>4, <2>5 DEF IInv, ApprovedByAnswer
<1>3. CASE ReadRejected(k)
  <2>1. /\ held' = [held EXCEPT ![k] = [task EXCEPT !.status = "failed"]]
        /\ answer' = [answer EXCEPT ![k] = "rejecting"]
        /\ UNCHANGED <<gated, copy, session, err, crashed, task, approvals, pc, depth,
                       presence, said, target, verdict, seen, granted, hasty>>
    BY <1>3 DEF ReadRejected, Kept, local, store, presences
  <2>2. [task EXCEPT !.status = "failed"] \in Record
    BY DEF IInv, TypeOK, Record, Statuses
  <2>3. TypeOK'
    BY <2>1, <2>2 DEF IInv, TypeOK
  <2>4. AnswersAim'
    BY <2>1 DEF IInv, TypeOK, AnswersAim
  <2> QED
    BY <2>1, <2>3, <2>4 DEF IInv, ApprovedByAnswer, PastTheGate, ExecutionGranted
<1>4. CASE SaveRejected(k)
  <2>1. /\ task' = held[k]
        /\ answer' = [answer EXCEPT ![k] = "telling"]
        /\ UNCHANGED <<gated, copy, session, err, crashed, approvals, pc, depth,
                       presence, said, target, verdict, seen, held, granted, hasty>>
    BY <1>4 DEF SaveRejected, Kept, local, presences
  <2>2. TypeOK'
    BY <2>1 DEF IInv, TypeOK
  <2>3. AnswersAim'
    BY <2>1 DEF IInv, TypeOK, AnswersAim
  <2> QED
    BY <2>1, <2>2, <2>3 DEF IInv, ApprovedByAnswer, PastTheGate, ExecutionGranted
<1>5. CASE ShowRejected(k)
  <2>1. /\ AnswerEnds(k)
        /\ UNCHANGED <<gated, copy, session, err, crashed, task, approvals, pc,
                       granted, hasty>>
    BY <1>5 DEF ShowRejected, Kept, local, store
  <2>2. /\ depth' = depth /\ said' = said
        /\ presence' \in [Sessions -> {"idle", "queued", "typing", "waiting_approval"}]
    BY <1>5 DEF ShowRejected, SetPresence, presences, IInv, TypeOK
  <2>3. TypeOK' /\ AnswersAim'
    BY <2>1, <2>2, AnswerEndsTypes DEF IInv, TypeOK
  <2> QED
    BY <2>1, <2>3 DEF IInv, ApprovedByAnswer, PastTheGate, ExecutionGranted
<1> QED
  BY <1>1, <1>2, <1>3, <1>4, <1>5 DEF HandleAnswer

LEMMA CrashKeeps ==
    ASSUME IInv, Crash
    PROVE  IInv'
<1>1. UNCHANGED <<gated, task, approvals, depth, presence, said, granted, hasty>>
  BY DEF Crash, store, presences
<1>2. Blank \in Record
  BY DEF Blank, Record, Statuses
<1>3. /\ pc' \in [Executions -> {"none", "returned"}]
      /\ \A e \in Executions : pc'[e] \in {"none", "returned"}
  BY DEF Crash
<1>4. /\ copy' \in [Executions -> Record]
      /\ session' \in [Executions -> Sessions \union {NoSession}]
      /\ err' \in [Executions -> {"none", "error", "waiting"}]
      /\ held' \in [Answers -> Record]
      /\ crashed' \in BOOLEAN
  BY <1>2 DEF Crash
<1>5. Len(approvals) \in Nat
  BY DEF IInv, TypeOK
<1>6. /\ answer' \in [Answers -> {"none", "read", "resolved", "rejecting", "telling", "done"}]
      /\ \A k \in Answers : answer'[k] \in {"none", "done"}
  BY DEF Crash, Busy, IInv, TypeOK
<1>7. /\ target' \in [Answers -> 0 .. Len(approvals)]
      /\ verdict' \in [Answers -> BOOLEAN]
      /\ seen' \in [Answers -> {"none", "pending", "approved", "rejected"}]
  BY <1>5 DEF Crash
<1>8. TypeOK'
  BY <1>1, <1>3, <1>4, <1>6, <1>7 DEF IInv, TypeOK, Unbound
<1>9. AnswersAim' /\ PastTheGate'
  BY <1>3, <1>6 DEF AnswersAim, PastTheGate, Cleared, AtWork
<1> QED
  BY <1>1, <1>8, <1>9 DEF IInv, ApprovedByAnswer

LEMMA StepInv == IInv /\ [Next]_vars => IInv'
<1> SUFFICES ASSUME IInv, [Next]_vars PROVE IInv'
  OBVIOUS
<1>1. CASE UNCHANGED vars
  BY <1>1
  DEF IInv, TypeOK, ApprovedByAnswer, AnswersAim, PastTheGate, ExecutionGranted,
      vars, store, local, presences, resolver, history
<1> QED
  BY <1>1, ExecuteKeeps, ReadKeeps, HandleAnswerKeeps, CrashKeeps DEF Next

THEOREM Invariance == Spec => []IInv
<1>1. Init => IInv
  BY InitInv
<1>2. IInv /\ [Next]_vars => IInv'
  BY StepInv
<1> QED
  BY <1>1, <1>2, PTL DEF Spec

-----------------------------------------------------------------------------
(* Where confirmation is required, no interleaving of executions, answers  *)
(* and crashes brings a task to its runtime without an approved execution  *)
(* (awaitApprovalsIfNeeded in approvals.go).                               *)
THEOREM GateHolds == Spec => []ApprovalGate
<1>1. IInv => ApprovalGate
  BY DEF IInv, PastTheGate, ExecutionGranted, ApprovalGate
<1> QED
  BY <1>1, Invariance, PTL

(* Every variable of the task runner keeps its type, and an execution past *)
(* ensureSession has a session.                                            *)
THEOREM TaskTypes == Spec => []TypeOK
<1>1. IInv => TypeOK
  BY DEF IInv
<1> QED
  BY <1>1, Invariance, PTL

-----------------------------------------------------------------------------
(* What the record of a task says: that a completed task has its exchange, *)
(* and that a task at rest has the status it should have.                  *)
(*                                                                         *)
(* Executions write whole clones back, so both properties need to know     *)
(* what is in a clone at each place.  Spoken does without any assumption:  *)
(* no clone says completed before an exchange was added.  Calm is about    *)
(* the time before the first hasty answer: whoever is at work is alone     *)
(* (Alone), so that what it has read is still so when it writes            *)
(* (OwnSession, Unfinished, Pausing, Replying, Rejecting), and whoever     *)
(* stops leaves a status behind that is true (Quiet).                      *)

(* Whoever has spoken of completion has added the exchange before.         *)
Spoken ==
    /\ task.status = "completed" => said # {}
    /\ \A e \in Executions :
          /\ copy[e].status = "completed" => said # {}
          /\ pc[e] \in {"replied", "completing"} => said # {}
    /\ \A k \in Answers : held[k].status # "completed"

(* At most one execution or answer handler is at work.                     *)
Alone ==
    /\ \A e, f \in Executions : Live(e) /\ Live(f) => e = f
    /\ \A k, j \in Answers : Busy(k) /\ Busy(j) => k = j
    /\ \A e \in Executions, k \in Answers : ~(Live(e) /\ Busy(k))

Waits   == task.status = "waiting_approval"
Pending == \E i \in 1 .. Len(approvals) : approvals[i].status = "pending"

(* What an execution that works alone can rely on at each place.           *)
OwnSession(e) ==
    /\ pc[e] = "binding" => task.session = copy[e].session
    /\ pc[e] \notin Unbound => copy[e].session = session[e]
    /\ pc[e] \notin Unbound \union {"saving"} => task.session = session[e]

Unfinished(e) ==
    pc[e] \notin AtRest \union {"new"} =>
        task.status # "completed" /\ copy[e].status # "completed"

Pausing(e) ==
    /\ pc[e] \in {"waiting", "parking", "pausing", "showing"} => Pending
    /\ pc[e] \in {"parking", "showing"} => Waits
    /\ pc[e] \in {"refreshing", "recording", "settling"} /\ err[e] = "waiting" =>
          Pending /\ Waits
    /\ pc[e] \in {"recording", "settling"} /\ err[e] = "waiting" =>
          copy[e].status = "waiting_approval"

Replying(e) ==
    /\ pc[e] \in {"replied", "completing"} => session[e] \in said
    /\ pc[e] = "completing" => presence[session[e]] = "idle"

Rejecting(k) ==
    /\ answer[k] \in {"rejecting", "telling"} => held[k].status = "failed"
    /\ answer[k] = "telling" => task.status = "failed"

(* What the record says when nothing has been lost with a process.         *)
NoneLive == \A e \in Executions : ~Live(e)
NoneBusy == \A k \in Answers : ~Busy(k)
NoneYet  == \A e \in Executions : Live(e) => pc[e] = "new"

Quiet ==
    /\ NoneLive => /\ task.status \notin {"queued", "running"}
                   /\ Waits => presence[task.session] = "waiting_approval"
    /\ NoneLive /\ NoneBusy /\ Waits => Pending
    /\ NoneYet /\ task.status = "completed" => presence[task.session] = "idle"

(* All of it for one execution, and for the record as a whole.             *)
At(e) == OwnSession(e) /\ Unfinished(e) /\ Pausing(e) /\ Replying(e)

Carried == task.status = "completed" => task.session \in said

Calm ==
    /\ Alone
    /\ \A e \in Executions : At(e)
    /\ \A k \in Answers : Rejecting(k)
    /\ Carried
    /\ ~crashed => Quiet

(* Until the first hasty answer.                                           *)
CalmInv == ~hasty => Calm

-----------------------------------------------------------------------------
(* Spoken.                                                                 *)
LEMMA InitSpoken == Init => Spoken
BY DEF Init, Spoken, Blank

(* Writing a clone back, or reading the task, carries no other status      *)
(* along than one that is there, except for a completion.                  *)
LEMMA ExecuteSpoken ==
    ASSUME IInv, Spoken, NEW e \in Executions, Execute(e)
    PROVE  Spoken'
<1>0. /\ copy[e] \in Record /\ task \in Record
      /\ pc \in [Executions -> Places] /\ copy \in [Executions -> Record]
  BY DEF IInv, TypeOK, Places
<1>1. \A status : [copy[e] EXCEPT !.status = status].status = status
  BY <1>0 DEF Record
<1>2. ASSUME NEW from, NEW status, NEW to, Persist(e, from, status, to),
             status = "completed" => said # {},
             to \notin {"replied", "completing"}
      PROVE  Spoken'
  <2>1. /\ said' = said /\ held' = held /\ pc' = [pc EXCEPT ![e] = to]
        /\ task' = [copy[e] EXCEPT !.status = status]
        /\ copy' = [copy EXCEPT ![e] = IF to = "returned" THEN Blank ELSE task']
    BY <1>2 DEF Persist, Continue, Goto, Stays, presences, resolver
  <2>2. task'.status = status
    BY <1>1, <2>1
  <2>3. \A f \in Executions : copy'[f] = IF f # e THEN copy[f]
                                         ELSE IF to = "returned" THEN Blank ELSE task'
    BY <1>0, <2>1
  <2>4. Blank.status = "queued"
    BY DEF Blank
  <2>5. \A f \in Executions : pc'[f] = IF f = e THEN to ELSE pc[f]
    BY <1>0, <2>1
  <2> QED
    BY <1>2, <2>1, <2>2, <2>3, <2>4, <2>5 DEF Spoken
<1>3. ASSUME said \subseteq said', task' = task, held' = held,
             NEW c \in {copy[e], task, Blank}, copy' = [copy EXCEPT ![e] = c],
             NEW to, Goto(e, to),
             to \in {"replied", "completing"} => said' # {}
      PROVE  Spoken'
  <2>1. \A f \in Executions : copy'[f] = IF f = e THEN c ELSE copy[f]
    BY <1>0, <1>3
  <2>2. \A f \in Executions : pc'[f] = IF f = e THEN to ELSE pc[f]
    BY <1>0, <1>3 DEF Goto
  <2>3. Blank.status = "queued"
    BY DEF Blank
  <2> QED
    BY <1>3, <2>1, <2>2, <2>3 DEF Spoken
<1>4. ASSUME NEW from, NEW p, NEW to, Tell(e, from, p, to),
             to \in {"replied", "completing"} => said # {}
      PROVE  Spoken'
  <2>1. /\ said' = said /\ task' = task /\ held' = held /\ Goto(e, to)
        /\ copy' = [copy EXCEPT ![e] = IF to = "returned" THEN Blank ELSE copy[e]]
    BY <1>4 DEF Tell, GoOn, Continue, SetPresence, Stays, resolver
  <2> QED
    BY <1>3, <1>4, <2>1
<1>5. copy[e].status = "completed" => said # {}
  BY DEF Spoken
<1>6. copy = [copy EXCEPT ![e] = copy[e]]
  BY <1>0
<1>7. CASE \/ MarkRunning(e) \/ SaveSession(e) \/ SaveReady(e) \/ FailUnavailable(e)
           \/ SaveApproved(e) \/ SaveWaiting(e) \/ SavePause(e)
           \/ RecordActivities(e) \/ FailTask(e)
  BY <1>2, <1>5, <1>7 DEF MarkRunning, SaveSession, SaveReady, FailUnavailable,
     SaveApproved, SaveWaiting, SavePause, RecordActivities, FailTask
<1>8. CASE Complete(e)
  <2>1. pc[e] = "completing"
    BY <1>8 DEF Complete, Persist
  <2> QED
    BY <1>2, <1>8, <2>1 DEF Complete, Spoken
<1>9. CASE \/ ShowTyping(e) \/ ShowCleared(e) \/ ShowRefused(e) \/ Park(e)
           \/ ShowPause(e)
  BY <1>4, <1>9 DEF ShowTyping, ShowCleared, ShowRefused, Park, ShowPause
<1>10. CASE ShowIdle(e)
  <2>1. pc[e] = "replied"
    BY <1>10 DEF ShowIdle, Tell
  <2> QED
    BY <1>4, <1>10, <2>1 DEF ShowIdle, Spoken
<1>11. CASE Begin(e)
  BY <1>3, <1>6, <1>11 DEF Begin, Stays, presences, resolver
<1>12. CASE BindSession(e)
  <2> DEFINE s == IF copy[e].session # NoSession THEN copy[e].session ELSE e
             to == IF copy[e].session # NoSession THEN "linking" ELSE "saving"
  <2>1. /\ copy' = [copy EXCEPT ![e] = [copy[e] EXCEPT !.session = s]]
        /\ said' = said /\ task' = task /\ held' = held
        /\ pc' = [pc EXCEPT ![e] = to]
    BY <1>12 DEF BindSession, Goto, Stays, presences, resolver
  <2>2. [copy[e] EXCEPT !.session = s].status = copy[e].status
    BY <1>0 DEF Record
  <2> HIDE DEF s
  <2>3. \A f \in Executions : copy'[f].status = copy[f].status
    BY <1>0, <2>1, <2>2
  <2>4. \A f \in Executions : pc'[f] = pc[f] \/ pc'[f] \in {"linking", "saving"}
    BY <1>0, <2>1
  <2> QED
    BY <2>1, <2>3, <2>4 DEF Spoken
<1>13. CASE Enqueue(e)
  BY <1>3, <1>6, <1>13 DEF Enqueue, EnqueueTurn, local, Stays, resolver
<1>14. CASE FetchRuntime(e)
  BY <1>3, <1>6, <1>14 DEF FetchRuntime, local, presences, Stays, resolver
<1>15. CASE CheckApproval(e)
  <2>1. AfterGate \notin {"replied", "completing"}
    BY DEF AfterGate
  <2> QED
    BY <1>3, <1>6, <1>15, <2>1 DEF CheckApproval, local, presences, Stays, resolver
<1>16. CASE RequestExecution(e)
  BY <1>3, <1>6, <1>16 DEF RequestExecution, Ask, local, presences, resolver
<1>17. CASE CallTool(e)
  BY <1>3, <1>6, <1>17 DEF CallTool, presences, resolver
<1>18. CASE RuntimeReturns(e)
  BY <1>3, <1>6, <1>18 DEF RuntimeReturns, presences, Stays, resolver
<1>19. CASE Refresh(e)
  BY <1>3, <1>19 DEF Refresh, presences, Stays, resolver
<1>20. CASE Settle(e)
  <2>1. /\ task' = task /\ held' = held
    BY <1>20 DEF Settle, Stays, resolver
  <2>2. ASSUME SetPresence(session[e], "waiting_approval"), GoOn(e, "returned")
        PROVE  Spoken'
    BY <1>3, <2>1, <2>2 DEF SetPresence, GoOn, Continue
  <2>3. ASSUME SetPresence(session[e], "idle"), GoOn(e, "failing")
        PROVE  Spoken'
    BY <1>3, <2>1, <2>3 DEF SetPresence, GoOn, Continue
  <2>4. ASSUME AddExchange(session[e]), GoOn(e, "replied")
        PROVE  Spoken'
    BY <1>3, <2>1, <2>4 DEF AddExchange, GoOn, Continue
  <2> QED
    BY <1>20, <2>2, <2>3, <2>4 DEF Settle
<1> QED
  BY <1>7, <1>8, <1>9, <1>10, <1>11, <1>12, <1>13, <1>14, <1>15, <1>16, <1>17, <1>18, <1>19, <1>20
  DEF Execute

LEMMA StepSpoken == IInv /\ Spoken /\ [Next]_vars => Spoken'
<1> SUFFICES ASSUME IInv, Spoken, [Next]_vars PROVE Spoken'
  OBVIOUS
<1>0. /\ held \in [Answers -> Record] /\ pc \in [Executions -> Places] /\ task \in Record
  BY DEF IInv, TypeOK, Places
<1>1. Blank.status = "queued" /\ [task EXCEPT !.status = "failed"].status = "failed"
  BY <1>0 DEF Blank, Record
<1>2. CASE UNCHANGED vars
  BY <1>2 DEF Spoken, vars, store, local, presences, resolver
<1>3. ASSUME NEW e \in Executions, Execute(e) PROVE Spoken'
  BY <1>3, ExecuteSpoken
<1>4. ASSUME NEW k \in Answers, ReadApproval(k) PROVE Spoken'
  BY <1>4 DEF ReadApproval, Kept, Spoken, store, local, presences
<1>5. ASSUME NEW k \in Answers, Resolve(k) PROVE Spoken'
  BY <1>5 DEF Resolve, Kept, Spoken, local, presences
<1>6. ASSUME NEW k \in Answers, Resume(k) PROVE Spoken'
  <2>1. /\ held' = [held EXCEPT ![k] = Blank] /\ pc' = [pc EXCEPT ![k + 1] = "new"]
        /\ UNCHANGED <<task, copy, said>>
    BY <1>6 DEF Resume, AnswerEnds, Goto, Kept, store, local, presences
  <2>2. \A f \in Executions : pc'[f] = pc[f] \/ pc'[f] = "new"
    BY <1>0, <2>1
  <2>3. \A j \in Answers : held'[j] = held[j] \/ held'[j] = Blank
    BY <1>0, <2>1
  <2> QED
    BY <1>1, <2>1, <2>2, <2>3 DEF Spoken
<1>7. ASSUME NEW k \in Answers, ReadRejected(k) PROVE Spoken'
  <2>1. /\ held' = [held EXCEPT ![k] = [task EXCEPT !.status = "failed"]]
        /\ UNCHANGED <<task, copy, said, pc>>
    BY <1>7 DEF ReadRejected, Kept, store, local, presences
  <2>2. \A j \in Answers : held'[j] = held[j] \/ held'[j].status = "failed"
    BY <1>0, <1>1, <2>1
  <2> QED
    BY <2>1, <2>2 DEF Spoken
<1>8. ASSUME NEW k \in Answers, SaveRejected(k) PROVE Spoken'
  BY <1>8 DEF SaveRejected, Kept, Spoken, local, presences
<1>9. ASSUME NEW k \in Answers, ShowRejected(k) PROVE Spoken'
  <2>1. /\ held' = [held EXCEPT ![k] = Blank]
        /\ UNCHANGED <<task, copy, said, pc>>
    BY <1>9 DEF ShowRejected, AnswerEnds, SetPresence, Kept, store, local, presences
  <2>2. \A j \in Answers : held'[j] = held[j] \/ held'[j] = Blank
    BY <1>0, <2>1
  <2> QED
    BY <1>1, <2>1, <2>2 DEF Spoken
<1>10. ASSUME Crash PROVE Spoken'
  BY <1>1, <1>10 DEF Crash, Spoken, store, presences
<1> QED
  BY <1>2, <1>3, <1>4, <1>5, <1>6, <1>7, <1>8, <1>9, <1>10 DEF Next, HandleAnswer

-----------------------------------------------------------------------------
(* Calm.                                                                   *)
LEMMA InitCalm == Init => Calm
<1> SUFFICES ASSUME Init PROVE Calm
  OBVIOUS
<1>1. /\ \A e \in Executions : pc[e] = IF e = 1 THEN "new" ELSE "none"
      /\ \A k \in Answers : answer[k] = "none"
      /\ task.status = "queued"
      /\ 1 \in Executions
  BY BoundAssumption DEF Init, Executions
<1>2. Alone
  BY <1>1 DEF Alone, Live, AtRest, Busy
<1>3. \A e \in Executions : At(e)
  BY <1>1 DEF At, OwnSession, Unfinished, Pausing, Replying, Unbound, AtRest
<1>4. \A k \in Answers : Rejecting(k)
  BY <1>1 DEF Rejecting
<1>5. Carried /\ Quiet
  BY <1>1 DEF Carried, Quiet, NoneLive, Live, AtRest, Waits
<1> QED
  BY <1>2, <1>3, <1>4, <1>5 DEF Calm

(* While an execution works alone, a step of it is seen by nobody else.    *)
LEMMA FocusKeeps ==
    ASSUME IInv, Calm, NEW e \in Executions, Live(e),
           NEW to, Goto(e, to),
           UNCHANGED <<answer, held>>,
           At(e)', Carried', ~crashed' => Quiet'
    PROVE  Calm'
<1>1. /\ \A f \in Executions : f # e => pc[f] \in AtRest
      /\ \A k \in Answers : ~Busy(k)
  BY DEF Calm, Alone, Live
<1>2. \A f \in Executions : f # e => pc'[f] = pc[f]
  BY DEF Goto, IInv, TypeOK
<1>3. \A k \in Answers : ~Busy(k)'
  BY <1>1 DEF Busy
<1>4. Alone'
  BY <1>1, <1>2, <1>3 DEF Alone, Live
<1>5. ASSUME NEW f \in Executions, f # e PROVE At(f)'
  <2>1. pc'[f] \in {"none", "returned"}
    BY <1>1, <1>2, <1>5 DEF AtRest
  <2> QED
    BY <2>1 DEF At, OwnSession, Unfinished, Pausing, Replying, Unbound, AtRest
<1>6. ASSUME NEW f \in Executions PROVE At(f)'
  BY <1>5
<1>7. \A k \in Answers : Rejecting(k)'
  BY <1>1 DEF Rejecting, Busy
<1> QED
  BY <1>4, <1>6, <1>7 DEF Calm

(* An execution that goes on leaves nothing to say about the record.       *)
LEMMA StillAtWork ==
    ASSUME IInv, NEW e \in Executions, NEW to, Goto(e, to),
           to \notin AtRest \union {"new"}
    PROVE  Quiet'
<1>1. pc'[e] = to
  BY DEF Goto, IInv, TypeOK
<1> QED
  BY <1>1 DEF Quiet, NoneLive, NoneYet, Live

(* An execution that has returned relies on nothing.                       *)
LEMMA NothingAtRest ==
    ASSUME IInv, NEW e \in Executions, Goto(e, "returned")
    PROVE  At(e)'
<1>1. pc'[e] = "returned"
  BY DEF Goto, IInv, TypeOK
<1> QED
  BY <1>1 DEF At, OwnSession, Unfinished, Pausing, Replying, Unbound, AtRest

(* Writing the clone back on the way.                                      *)
LEMMA PersistCalm ==
    ASSUME IInv, Calm, NEW e \in Executions,
           NEW from \in Places, NEW status \in Statuses, NEW to \in Places,
           Persist(e, from, status, to),
           from \notin AtRest \union {"new", "binding"},
           to \notin AtRest \union {"new", "replied", "completing"},
           status # "completed",
           from = "starting" <=> to = "binding",
           to \in {"waiting", "parking", "pausing", "showing"} =>
              Pending /\ status = "waiting_approval",
           to \in {"refreshing", "recording", "settling"} /\ err[e] = "waiting" =>
              Pending /\ status = "waiting_approval"
    PROVE  Calm'
<1>0. /\ copy[e] \in Record /\ pc[e] = from
      /\ UNCHANGED <<approvals, presence, said, answer, held>>
  BY DEF IInv, TypeOK, Persist, Stays, presences, resolver
<1>1. Live(e) /\ Goto(e, to)
  BY <1>0 DEF Live, Persist, Continue
<1>2. /\ task'.status = status /\ task'.session = copy[e].session
  BY DEF Persist, IInv, TypeOK, Record
<1>3. /\ pc'[e] = to /\ copy'[e] = task' /\ session'[e] = session[e] /\ err'[e] = err[e]
  BY DEF IInv, TypeOK, Persist, Continue, Goto, AtRest
<1>4. At(e)
  BY DEF Calm
<1>5. OwnSession(e)'
  BY <1>0, <1>2, <1>3, <1>4 DEF At, OwnSession, Unbound, AtRest, Places
<1>6. Unfinished(e)'
  BY <1>2, <1>3 DEF Unfinished
<1>7. Pausing(e)'
  BY <1>0, <1>2, <1>3 DEF Pausing, Waits, Pending
<1>8. Replying(e)'
  BY <1>3 DEF Replying
<1>9. Carried'
  BY <1>2 DEF Carried
<1> QED
  BY <1>0, <1>1, <1>5, <1>6, <1>7, <1>8, <1>9, FocusKeeps, StillAtWork DEF At

(* Writing it back for the last time.                                      *)
LEMMA LastPersistCalm ==
    ASSUME IInv, Calm, NEW e \in Executions,
           NEW from \in Places, NEW status \in {"completed", "failed"},
           Persist(e, from, status, "returned"),
           from \notin AtRest \union {"new"},
           status = "completed" => from = "completing"
    PROVE  Calm'
<1>0. /\ copy[e] \in Record /\ pc[e] = from
      /\ UNCHANGED <<approvals, presence, said, answer, held>>
  BY DEF IInv, TypeOK, Persist, Stays, presences, resolver
<1>1. Live(e) /\ Goto(e, "returned")
  BY <1>0 DEF Live, Persist, Continue
<1>2. /\ task'.status = status /\ task'.session = copy[e].session
  BY DEF Persist, IInv, TypeOK, Record
<1>3. status = "completed" => /\ copy[e].session = session[e]
                              /\ session[e] \in said /\ presence[session[e]] = "idle"
  BY <1>0 DEF Calm, At, OwnSession, Replying, Unbound
<1>4. Carried'
  BY <1>0, <1>2, <1>3 DEF Carried
<1>5. Quiet'
  BY <1>0, <1>2, <1>3 DEF Quiet, Waits
<1> QED
  BY <1>0, <1>1, <1>4, <1>5, FocusKeeps, NothingAtRest

(* Telling the session something on the way.                               *)
LEMMA TellCalm ==
    ASSUME IInv, Calm, NEW e \in Executions,
           NEW from \in Places \ Unbound, NEW p, NEW to \in Places \ Unbound,
           Tell(e, from, p, to),
           from # "saving", to # "saving",
           to \in {"waiting", "parking", "pausing", "showing", "recording", "settling",
                   "replied"} => FALSE,
           to = "refreshing" => from = "showing",
           to = "completing" => from = "replied" /\ p = "idle"
    PROVE  Calm'
<1>0. /\ pc[e] = from /\ session[e] \in Sessions
      /\ UNCHANGED <<approvals, said, task, answer, held>>
      /\ presence' = [presence EXCEPT ![session[e]] = p]
      /\ presence \in [Sessions -> {"idle", "queued", "typing", "waiting_approval"}]
  BY DEF IInv, TypeOK, Tell, Stays, SetPresence, resolver
<1>1. Live(e) /\ Goto(e, to)
  BY <1>0 DEF Live, Tell, GoOn, Continue, AtRest, Unbound
<1>2. /\ pc'[e] = to /\ copy'[e] = copy[e] /\ session'[e] = session[e] /\ err'[e] = err[e]
  BY DEF IInv, TypeOK, Tell, GoOn, Continue, Goto, Unbound
<1>3. At(e) /\ Carried
  BY DEF Calm
<1>4. OwnSession(e)'
  BY <1>0, <1>2, <1>3 DEF At, OwnSession, Unbound
<1>5. Unfinished(e)'
  BY <1>0, <1>2, <1>3 DEF At, Unfinished, AtRest, Unbound
<1>6. Pausing(e)'
  BY <1>0, <1>2, <1>3 DEF At, Pausing, Waits, Pending
<1>7. Replying(e)'
  BY <1>0, <1>2, <1>3 DEF At, Replying
<1>8. Carried'
  BY <1>0, <1>3 DEF Carried
<1>9. to \notin AtRest \union {"new"}
  BY DEF AtRest, Unbound
<1> QED
  BY <1>0, <1>1, <1>4, <1>5, <1>6, <1>7, <1>8, <1>9, FocusKeeps, StillAtWork DEF At

(* Pausing: the session shows that an approval is waited for.              *)
LEMMA PauseCalm ==
    ASSUME IInv, Calm, NEW e \in Executions, pc[e] \notin Unbound \union {"saving"},
           SetPresence(session[e], "waiting_approval"), GoOn(e, "returned"),
           Stays, UNCHANGED task, Waits, Pending
    PROVE  Calm'
<1>0. /\ session[e] \in Sessions
      /\ UNCHANGED <<approvals, said, task, answer, held>>
      /\ presence' = [presence EXCEPT ![session[e]] = "waiting_approval"]
      /\ presence \in [Sessions -> {"idle", "queued", "typing", "waiting_approval"}]
  BY DEF IInv, TypeOK, Stays, SetPresence, resolver
<1>1. Live(e) /\ Goto(e, "returned")
  BY DEF Live, GoOn, Continue, AtRest, Unbound
<1>2. task.session = session[e]
  BY DEF Calm, At, OwnSession
<1>3. Carried' /\ Quiet'
  BY <1>0, <1>2 DEF Carried, Quiet, Waits, Pending
<1> QED
  BY <1>0, <1>1, <1>3, FocusKeeps, NothingAtRest

(* A step that touches neither the session nor the record.                 *)
LEMMA QuietStepCalm ==
    ASSUME IInv, Calm, NEW e \in Executions, pc[e] \notin AtRest,
           NEW to \in Places \ (AtRest \union {"new"}), Goto(e, to),
           UNCHANGED <<task, presences, answer, held>>,
           At(e)'
    PROVE  Calm'
<1>1. Carried'
  BY DEF Calm, Carried, presences
<1>2. Quiet'
  BY StillAtWork
<1> QED
  BY <1>1, <1>2, FocusKeeps DEF Live

LEMMA ExecuteCalm ==
    ASSUME IInv, Calm, NEW e \in Executions, Execute(e)
    PROVE  Calm'
<1> USE DEF Places, Unbound, Bound, Cleared, AtWork, AtRest, Statuses
<1>0. /\ task \in Record /\ copy[e] \in Record
      /\ pc \in [Executions -> Places] /\ copy \in [Executions -> Record]
      /\ session \in [Executions -> Sessions \union {NoSession}]
      /\ err \in [Executions -> {"none", "error", "waiting"}]
      /\ session[e] \in Sessions \union {NoSession}
      /\ pc[e] \notin Unbound => session[e] \in Sessions
      /\ approvals \in Seq(Approval)
  BY DEF IInv, TypeOK
<1>1. At(e) /\ Carried /\ (~crashed => Quiet)
  BY DEF Calm
<1>2. CASE Begin(e)
  <2>1. CASE task.status = "completed"
    <3>1. /\ pc[e] = "new" /\ Goto(e, "returned")
          /\ UNCHANGED <<task, copy, session, err, presences, approvals, answer, held,
                         crashed>>
      BY <1>2, <2>1 DEF Begin, Stays, resolver, history
    <3>2. NoneYet
      BY <3>1 DEF Calm, Alone, NoneYet, Live
    <3>3. Carried' /\ (~crashed' => Quiet')
      BY <1>1, <2>1, <3>1, <3>2 DEF Carried, Quiet, Waits, presences
    <3> QED
      BY <3>1, <3>3, FocusKeeps, NothingAtRest DEF Live
  <2>2. CASE task.status # "completed"
    <3>1. /\ pc[e] = "new" /\ Goto(e, "starting")
          /\ copy' = [copy EXCEPT ![e] = task]
          /\ UNCHANGED <<task, session, err, presences, approvals, answer, held>>
      BY <1>2, <2>2 DEF Begin, Stays, resolver
    <3>2. pc'[e] = "starting" /\ copy'[e] = task
      BY <1>0, <3>1 DEF Goto
    <3>3. At(e)'
      BY <2>2, <3>1, <3>2 DEF At, OwnSession, Unfinished, Pausing, Replying
    <3> QED
      BY <3>1, <3>3, QuietStepCalm
  <2> QED
    BY <2>1, <2>2
<1>3. CASE MarkRunning(e) \/ SaveSession(e) \/ SaveReady(e)
  <2>1. Unfinished(e) /\ copy[e].status \in Statuses
    BY <1>0, <1>1 DEF At, Record
  <2>2. CASE MarkRunning(e)
    BY <2>2, PersistCalm DEF MarkRunning
  <2>3. CASE SaveSession(e)
    <3>1. copy[e].status # "completed"
      BY <2>1, <2>3 DEF SaveSession, Persist, Unfinished
    <3> QED
      BY <2>1, <2>3, <3>1, PersistCalm DEF SaveSession
  <2>4. CASE SaveReady(e)
    <3>1. copy[e].status # "completed"
      BY <2>1, <2>4 DEF SaveReady, Persist, Unfinished
    <3> QED
      BY <2>1, <2>4, <3>1, PersistCalm DEF SaveReady
  <2> QED
    BY <1>3, <2>2, <2>3, <2>4
<1>4. CASE FailUnavailable(e) \/ Complete(e) \/ FailTask(e)
  BY <1>4, LastPersistCalm DEF FailUnavailable, Complete, FailTask
<1>5. CASE SaveApproved(e)
  BY <1>5, PersistCalm DEF SaveApproved
<1>6. CASE SaveWaiting(e) \/ SavePause(e)
  <2>1. Pending
    BY <1>1, <1>6 DEF SaveWaiting, SavePause, Persist, At, Pausing
  <2> QED
    BY <1>6, <2>1, PersistCalm DEF SaveWaiting, SavePause
<1>7. CASE RecordActivities(e)
  <2>1. /\ copy[e].status \in Statuses /\ copy[e].status # "completed"
        /\ err[e] = "waiting" => Pending /\ copy[e].status = "waiting_approval"
    BY <1>0, <1>1, <1>7 DEF RecordActivities, Persist, At, Pausing, Unfinished, Record
  <2> QED
    BY <1>7, <2>1, PersistCalm DEF RecordActivities
<1>8. CASE ShowTyping(e) \/ ShowCleared(e) \/ ShowRefused(e) \/ ShowPause(e) \/ ShowIdle(e)
  BY <1>8, TellCalm DEF ShowTyping, ShowCleared, ShowRefused, ShowPause, ShowIdle
<1>9. CASE Park(e)
  <2>1. pc[e] = "parking" /\ Waits /\ Pending
    BY <1>1, <1>9 DEF Park, Tell, At, Pausing
  <2> QED
    BY <1>9, <2>1, PauseCalm DEF Park, Tell
<1>10. CASE BindSession(e)
  <2> DEFINE s == IF copy[e].session # NoSession THEN copy[e].session ELSE e
             to == IF copy[e].session # NoSession THEN "linking" ELSE "saving"
  <2>1. /\ pc[e] = "binding" /\ Goto(e, to)
        /\ copy' = [copy EXCEPT ![e] = [copy[e] EXCEPT !.session = s]]
        /\ session' = [session EXCEPT ![e] = s]
        /\ UNCHANGED <<task, err, presences, approvals, answer, held>>
    BY <1>10 DEF BindSession, Stays, resolver
  <2>2. /\ pc'[e] = to /\ session'[e] = s
        /\ copy'[e].session = s /\ copy'[e].status = copy[e].status
    BY <1>0, <2>1 DEF Goto, Record
  <2>3. to = "linking" => task.session = s
    BY <1>1, <2>1 DEF At, OwnSession
  <2> HIDE DEF s
  <2>4. At(e)'
    BY <1>1, <2>1, <2>2, <2>3 DEF At, OwnSession, Unfinished, Pausing, Replying
  <2> QED
    BY <2>1, <2>4, QuietStepCalm
<1>11. CASE Enqueue(e)
  <2>1. /\ pc[e] = "enqueuing" /\ Goto(e, "greeting")
        /\ UNCHANGED <<task, copy, session, err, said, approvals, answer, held>>
    BY <1>11 DEF Enqueue, EnqueueTurn, local, Stays, resolver
  <2>2. pc'[e] = "greeting"
    BY <1>0, <2>1 DEF Goto
  <2>3. At(e)'
    BY <1>1, <2>1, <2>2 DEF At, OwnSession, Unfinished, Pausing, Replying
  <2>4. Carried' /\ Quiet'
    BY <1>1, <2>1, StillAtWork DEF Carried
  <2> QED
    BY <2>1, <2>3, <2>4, FocusKeeps DEF Live
<1>12. CASE FetchRuntime(e)
  <2>1. PICK to \in {"gate", "unavailable"} : Goto(e, to)
    BY <1>12 DEF FetchRuntime
  <2>2. /\ pc[e] = "fetching"
        /\ UNCHANGED <<task, copy, session, err, presences, approvals, answer, held>>
    BY <1>12 DEF FetchRuntime, local, Stays, resolver
  <2>3. pc'[e] = to
    BY <1>0, <2>1 DEF Goto
  <2>4. At(e)'
    BY <1>1, <2>2, <2>3 DEF At, OwnSession, Unfinished, Pausing, Replying
  <2> QED
    BY <2>1, <2>2, <2>4, QuietStepCalm
<1>13. CASE CheckApproval(e)
  <2>1. /\ pc[e] = "gate" /\ Goto(e, AfterGate)
        /\ UNCHANGED <<task, copy, session, err, presences, approvals, answer, held>>
    BY <1>13 DEF CheckApproval, local, Stays, resolver
  <2>2. AfterGate \in {"executing", "approved", "refused", "waiting", "requesting"}
    BY DEF AfterGate
  <2>3. AfterGate = "waiting" => ExecutionIs("pending")
    BY DEF AfterGate
  <2>4. ExecutionIs("pending") => Pending
    BY DEF ExecutionIs, AskedFor, Pending
  <2>5. pc'[e] = AfterGate
    BY <1>0, <2>1 DEF Goto
  <2>6. Pending' = Pending
    BY <2>1 DEF Pending
  <2>7. At(e)'
    BY <1>1, <2>1, <2>2, <2>3, <2>4, <2>5, <2>6
    DEF At, OwnSession, Unfinished, Pausing, Replying
  <2> QED
    BY <2>1, <2>2, <2>7, QuietStepCalm
<1>14. ASSUME NEW kind \in {"execution", "tool"},
              approvals' = Append(approvals, [kind |-> kind, status |-> "pending"])
       PROVE  Pending'
  <2>1. /\ Len(approvals) \in Nat /\ Len(approvals') = Len(approvals) + 1
        /\ approvals'[Len(approvals) + 1] = [kind |-> kind, status |-> "pending"]
    BY <1>0, <1>14 DEF Approval
  <2> QED
    BY <2>1 DEF Pending
<1>15. CASE RequestExecution(e) \/ CallTool(e)
  <2>1. PICK to \in {"waiting", "pausing"} : Goto(e, to)
    BY <1>15 DEF RequestExecution, Ask, CallTool
  <2>2. /\ pc[e] \in {"requesting", "executing"}
        /\ UNCHANGED <<task, copy, session, presences, answer, held>>
        /\ Pending'
    BY <1>14, <1>15 DEF RequestExecution, Ask, CallTool, local, resolver
  <2>3. pc'[e] = to
    BY <1>0, <2>1 DEF Goto
  <2>4. At(e)'
    BY <1>1, <2>2, <2>3 DEF At, OwnSession, Unfinished, Pausing, Replying
  <2> QED
    BY <2>1, <2>2, <2>4, QuietStepCalm
<1>16. CASE RuntimeReturns(e)
  <2>1. PICK outcome \in {"none", "error"} : err' = [err EXCEPT ![e] = outcome]
    BY <1>16 DEF RuntimeReturns
  <2>2. /\ pc[e] = "executing" /\ Goto(e, "refreshing")
        /\ UNCHANGED <<task, copy, session, presences, approvals, answer, held>>
    BY <1>16 DEF RuntimeReturns, Stays, resolver
  <2>3. pc'[e] = "refreshing" /\ err'[e] # "waiting"
    BY <1>0, <2>1, <2>2 DEF Goto
  <2>4. At(e)'
    BY <1>1, <2>2, <2>3 DEF At, OwnSession, Unfinished, Pausing, Replying
  <2> QED
    BY <2>2, <2>4, QuietStepCalm
<1>17. CASE Refresh(e)
  <2>1. PICK to \in {"recording", "settling"} : Goto(e, to)
    BY <1>17 DEF Refresh
  <2>2. /\ pc[e] = "refreshing" /\ copy' = [copy EXCEPT ![e] = task]
        /\ UNCHANGED <<task, session, err, presences, approvals, answer, held>>
    BY <1>17 DEF Refresh, Stays, resolver
  <2>3. pc'[e] = to /\ copy'[e] = task
    BY <1>0, <2>1, <2>2 DEF Goto
  <2>4. At(e)'
    BY <1>1, <2>2, <2>3 DEF At, OwnSession, Unfinished, Pausing, Replying, Waits, Pending
  <2> QED
    BY <2>1, <2>2, <2>4, QuietStepCalm
<1>18. CASE Settle(e)
  <2>1. /\ pc[e] = "settling" /\ Stays /\ task' = task
        /\ UNCHANGED <<approvals, answer, held>>
    BY <1>18 DEF Settle, Stays, resolver
  <2>2. ASSUME err[e] = "waiting", SetPresence(session[e], "waiting_approval"),
               GoOn(e, "returned")
        PROVE  Calm'
    <3>1. Waits /\ Pending
      BY <1>1, <2>1, <2>2 DEF At, Pausing
    <3> QED
      BY <2>1, <2>2, <3>1, PauseCalm
  <2>3. ASSUME NEW to \in {"failing", "replied"}, GoOn(e, to),
               said \subseteq said', to = "replied" => session[e] \in said'
        PROVE  Calm'
    <3>1. /\ pc'[e] = to /\ copy'[e] = copy[e] /\ session'[e] = session[e]
          /\ Goto(e, to)
      BY <1>0, <2>3 DEF GoOn, Continue, Goto
    <3>2. At(e)'
      BY <1>1, <2>1, <2>3, <3>1 DEF At, OwnSession, Unfinished, Pausing, Replying
    <3>3. Carried' /\ Quiet'
      BY <1>1, <2>1, <2>3, <3>1, StillAtWork DEF Carried
    <3> QED
      BY <2>1, <3>1, <3>2, <3>3, FocusKeeps DEF Live
  <2> QED
    BY <1>18, <2>2, <2>3 DEF Settle, SetPresence, AddExchange
<1> QED
  BY <1>2, <1>3, <1>4, <1>5, <1>6, <1>7, <1>8, <1>9, <1>10, <1>11, <1>12, <1>13, <1>15, <1>16, <1>17, <1>18
  DEF Execute

-----------------------------------------------------------------------------
(* The answers.                                                            *)

(* A handler that works alone is seen by no execution.                     *)
LEMMA HandlerKeeps ==
    ASSUME IInv, Calm, NEW k \in Answers, NoneLive,
           \A j \in Answers : j # k => ~Busy(j) /\ answer'[j] = answer[j],
           UNCHANGED pc, Rejecting(k)', Carried', ~crashed' => Quiet'
    PROVE  Calm'
<1>1. \A e \in Executions : pc'[e] \in {"none", "returned"}
  BY DEF NoneLive, Live, AtRest
<1>2. \A e \in Executions : At(e)'
  BY <1>1 DEF At, OwnSession, Unfinished, Pausing, Replying, Unbound, AtRest
<1>3. \A j \in Answers : j # k => ~Busy(j)' /\ Rejecting(j)'
  BY DEF Busy, Rejecting
<1>4. Alone'
  BY <1>1, <1>3 DEF Alone, Live, AtRest
<1> QED
  BY <1>2, <1>3, <1>4 DEF Calm

LEMMA ReadCalm ==
    ASSUME IInv, Calm, NEW k \in Answers, ReadApproval(k), ~hasty'
    PROVE  Calm'
<1>0. NoneLive /\ NoneBusy
  <2>1. hasty' = (hasty \/ \E e \in Executions : Live(e) \/ \E j \in Answers : Busy(j))
    BY Zenon DEF ReadApproval
  <2>2. ~(\E e \in Executions : Live(e) \/ \E j \in Answers : Busy(j))
    BY <2>1, Zenon
  <2>3. Executions # {}
    BY BoundAssumption DEF Executions
  <2> QED
    BY <2>2, <2>3 DEF NoneLive, NoneBusy
<1>1. /\ answer' = [answer EXCEPT ![k] = "read"]
      /\ UNCHANGED <<task, approvals, pc, presence, said, crashed>>
  BY DEF ReadApproval, Kept, store, presences
<1>2. /\ \A j \in Answers : j # k => answer'[j] = answer[j]
      /\ answer'[k] = "read"
  BY <1>1 DEF IInv, TypeOK
<1>3. Rejecting(k)'
  BY <1>2 DEF Rejecting
<1>4. ~NoneBusy'
  BY <1>2 DEF NoneBusy, Busy
<1>5. Carried' /\ (~crashed' => Quiet')
  BY <1>0, <1>1, <1>4 DEF Calm, Carried, Quiet, NoneYet, NoneLive, Live, Waits
<1> QED
  BY <1>0, <1>1, <1>2, <1>3, <1>5, HandlerKeeps DEF NoneBusy

LEMMA HandleAnswerCalm ==
    ASSUME IInv, Calm, NEW k \in Answers, HandleAnswer(k)
    PROVE  Calm'
<1>0. /\ answer \in [Answers -> {"none", "read", "resolved", "rejecting", "telling", "done"}]
      /\ held \in [Answers -> Record] /\ task \in Record
      /\ pc \in [Executions -> Places]
  BY DEF IInv, TypeOK, Places
<1>1. answer[k] \in {"read", "resolved", "rejecting", "telling"}
  BY DEF HandleAnswer, Resolve, Resume, ReadRejected, SaveRejected, ShowRejected
<1>2. NoneLive /\ \A j \in Answers : j # k => ~Busy(j)
  BY <1>1 DEF Calm, Alone, NoneLive, Busy
<1>3. /\ Carried /\ Rejecting(k)
      /\ ~crashed => Quiet
  BY DEF Calm
<1>4. CASE Resolve(k)
  <2>1. /\ answer' = [answer EXCEPT ![k] = "resolved"]
        /\ UNCHANGED <<task, pc, presence, said, held, crashed>>
    BY <1>4 DEF Resolve, Kept, presences
  <2>2. answer'[k] = "resolved" /\ \A j \in Answers : j # k => answer'[j] = answer[j]
    BY <1>0, <2>1
  <2>3. ~NoneBusy'
    BY <2>2 DEF NoneBusy, Busy
  <2>4. Rejecting(k)' /\ Carried' /\ (~crashed' => Quiet')
    BY <1>3, <2>1, <2>2, <2>3
    DEF Rejecting, Carried, Quiet, NoneYet, NoneLive, Live, Waits
  <2> QED
    BY <1>2, <2>1, <2>2, <2>4, HandlerKeeps
<1>5. CASE Resume(k)
  <2>1. /\ answer' = [answer EXCEPT ![k] = "done"] /\ pc' = [pc EXCEPT ![k + 1] = "new"]
        /\ UNCHANGED <<task, approvals, presence, said, crashed>>
    BY <1>5 DEF Resume, AnswerEnds, Goto, Kept, store, presences
  <2>2. k + 1 \in Executions
    BY BoundAssumption DEF Answers, Executions
  <2>3. /\ \A j \in Answers : answer'[j] = IF j = k THEN "done" ELSE answer[j]
        /\ \A e \in Executions : pc'[e] = IF e = k + 1 THEN "new" ELSE pc[e]
        /\ \A e \in Executions : e # k + 1 => pc[e] \in {"none", "returned"}
    BY <1>0, <1>2, <2>1 DEF NoneLive, Live, AtRest
  <2>4. Alone'
    BY <1>2, <2>3 DEF Alone, Live, AtRest, Busy
  <2>5. \A e \in Executions : At(e)'
    BY <2>3 DEF At, OwnSession, Unfinished, Pausing, Replying, Unbound, AtRest
  <2>6. \A j \in Answers : Rejecting(j)'
    BY <1>2, <2>3 DEF Rejecting, Busy
  <2>7. ~NoneLive'
    BY <2>2, <2>3 DEF NoneLive, Live, AtRest
  <2>8. NoneYet
    BY <1>2 DEF NoneYet, NoneLive
  <2>9. Carried' /\ (~crashed' => Quiet')
    BY <1>3, <2>1, <2>7, <2>8 DEF Carried, Quiet
  <2> QED
    BY <2>4, <2>5, <2>6, <2>9 DEF Calm
<1>6. CASE ReadRejected(k)
  <2>1. /\ held' = [held EXCEPT ![k] = [task EXCEPT !.status = "failed"]]
        /\ answer' = [answer EXCEPT ![k] = "rejecting"]
        /\ UNCHANGED <<task, approvals, pc, presence, said, crashed>>
    BY <1>6 DEF ReadRejected, Kept, store, presences
  <2>2. /\ answer'[k] = "rejecting" /\ \A j \in Answers : j # k => answer'[j] = answer[j]
        /\ held'[k].status = "failed"
    BY <1>0, <2>1 DEF Record
  <2>3. ~NoneBusy'
    BY <2>2 DEF NoneBusy, Busy
  <2>4. Rejecting(k)' /\ Carried' /\ (~crashed' => Quiet')
    BY <1>3, <2>1, <2>2, <2>3
    DEF Rejecting, Carried, Quiet, NoneYet, NoneLive, Live, Waits
  <2> QED
    BY <1>2, <2>1, <2>2, <2>4, HandlerKeeps
<1>7. CASE SaveRejected(k)
  <2>1. /\ task' = held[k] /\ answer' = [answer EXCEPT ![k] = "telling"]
        /\ UNCHANGED <<pc, held>>
    BY <1>7 DEF SaveRejected, Kept
  <2>2. answer'[k] = "telling" /\ \A j \in Answers : j # k => answer'[j] = answer[j]
    BY <1>0, <2>1
  <2>3. held[k].status = "failed"
    BY <1>3, <1>7 DEF SaveRejected, Rejecting
  <2>4. Rejecting(k)' /\ Carried' /\ Quiet'
    BY <2>1, <2>2, <2>3 DEF Rejecting, Carried, Quiet, Waits
  <2> QED
    BY <1>2, <2>1, <2>2, <2>4, HandlerKeeps
<1>8. CASE ShowRejected(k)
  <2>1. /\ answer' = [answer EXCEPT ![k] = "done"]
        /\ UNCHANGED <<task, pc, said>>
    BY <1>8 DEF ShowRejected, AnswerEnds, SetPresence, Kept, store, presences
  <2>2. answer'[k] = "done" /\ \A j \in Answers : j # k => answer'[j] = answer[j]
    BY <1>0, <2>1
  <2>3. task.status = "failed"
    BY <1>3, <1>8 DEF ShowRejected, Rejecting
  <2>4. Rejecting(k)' /\ Carried' /\ Quiet'
    BY <2>1, <2>2, <2>3 DEF Rejecting, Carried, Quiet, Waits
  <2> QED
    BY <1>2, <2>1, <2>2, <2>4, HandlerKeeps
<1> QED
  BY <1>4, <1>5, <1>6, <1>7, <1>8 DEF HandleAnswer

(* After a crash nobody is at work, and Quiet promises nothing any more.   *)
LEMMA CrashCalm ==
    ASSUME IInv, Calm, Crash
    PROVE  Calm'
<1>1. /\ \A e \in Executions : pc'[e] \in {"none", "returned"}
      /\ \A k \in Answers : answer'[k] \in {"none", "done"}
      /\ UNCHANGED <<task, said>> /\ crashed'
  BY DEF Crash, Busy, IInv, TypeOK, store, presences
<1>2. \A e \in Executions : At(e)'
  BY <1>1 DEF At, OwnSession, Unfinished, Pausing, Replying, Unbound, AtRest
<1>3. Alone' /\ (\A k \in Answers : Rejecting(k)') /\ Carried'
  BY <1>1 DEF Alone, Live, AtRest, Busy, Rejecting, Calm, Carried
<1> QED
  BY <1>1, <1>2, <1>3 DEF Calm

LEMMA StepCalm == IInv /\ CalmInv /\ [Next]_vars => CalmInv'
<1> SUFFICES ASSUME IInv, CalmInv, [Next]_vars, ~hasty' PROVE Calm'
  BY DEF CalmInv
<1>1. CASE UNCHANGED vars
  <2>1. Calm
    BY <1>1 DEF CalmInv, vars, history
  <2> QED
    BY <1>1, <2>1
    DEF Calm, Alone, Live, Busy, At, OwnSession, Unfinished, Pausing, Replying,
        Rejecting, Carried, Quiet, NoneLive, NoneBusy, NoneYet, Waits, Pending,
        vars, store, local, presences, resolver, history
<1>2. ASSUME NEW e \in Executions, Execute(e) PROVE Calm'
  <2>1. hasty' = hasty
    BY <1>2 DEF Execute, Begin, MarkRunning, BindSession, SaveSession, SaveReady, Enqueue,
       ShowTyping, FetchRuntime, FailUnavailable, CheckApproval, SaveApproved,
       ShowCleared, ShowRefused, RequestExecution, SaveWaiting, Park, RuntimeReturns,
       CallTool, SavePause, ShowPause, Refresh, RecordActivities, Settle, ShowIdle,
       Complete, FailTask, Persist, Tell, Ask, Stays, history
  <2> QED
    BY <1>2, <2>1, ExecuteCalm DEF CalmInv
<1>3. ASSUME NEW k \in Answers, ReadApproval(k) PROVE Calm'
  <2>1. ~hasty
    BY <1>3 DEF ReadApproval
  <2> QED
    BY <1>3, <2>1, ReadCalm DEF CalmInv
<1>4. ASSUME NEW k \in Answers, HandleAnswer(k) PROVE Calm'
  <2>1. hasty' = hasty
    BY <1>4 DEF HandleAnswer, Resolve, Resume, ReadRejected, SaveRejected, ShowRejected
  <2> QED
    BY <1>4, <2>1, HandleAnswerCalm DEF CalmInv
<1>5. ASSUME Crash PROVE Calm'
  <2>1. hasty' = hasty
    BY <1>5 DEF Crash
  <2> QED
    BY <1>5, <2>1, CrashCalm DEF CalmInv
<1> QED
  BY <1>1, <1>2, <1>3, <1>4, <1>5 DEF Next

-----------------------------------------------------------------------------
(* Who works alone finds what it has read, and who speaks of a completion  *)
(* has a reply to show (Execute, MarkRejected and HandleResolved).         *)
THEOREM StatusInvariance == Spec => [](IInv /\ Spoken /\ CalmInv)
<1>1. Init => IInv /\ Spoken /\ CalmInv
  BY InitInv, InitSpoken, InitCalm DEF CalmInv
<1>2. IInv /\ Spoken /\ CalmInv /\ [Next]_vars => (IInv /\ Spoken /\ CalmInv)'
  BY StepInv, StepSpoken, StepCalm
<1> QED
  BY <1>1, <1>2, PTL DEF Spec

(* A completed task has its exchange in a session whatever overlaps, and   *)
(* before the first hasty answer in the session that its record names      *)
(* (Execute in tasks.go, which adds the exchange and completes the clone). *)
THEOREM RepliesKept == Spec => []CompletedHasReply
<1>1. Spoken /\ CalmInv => CompletedHasReply
  BY DEF Spoken, CalmInv, Calm, Carried, CompletedHasReply
<1> QED
  BY <1>1, StatusInvariance, PTL

(* Without a hasty answer or a restart, a task that nobody works on is     *)
(* neither queued nor running, waits only where an answer is still         *)
(* possible, and its session shows the same (persistTask and               *)
(* updateSessionPresence at every exit of Execute, MarkRejected).          *)
THEOREM StatusesTrue == Spec => []StatusTrue
<1>1. CalmInv => StatusTrue
  BY DEF CalmInv, Calm, Quiet, StatusTrue, AtWorkNow, NoneLive, NoneBusy, NoneYet,
         Waits, Pending
<1> QED
  BY <1>1, StatusInvariance, PTL
=============================================================================
