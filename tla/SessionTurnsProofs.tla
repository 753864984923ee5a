--------------------------- MODULE SessionTurnsProofs ---------------------------
(***************************************************************************)
(* Proofs about SessionTurns for any number of turns, answers and tools:   *)
(* the queue depth counts no turn twice, no message is lost, a call which  *)
(* needs approval only runs under one, and typing stops.                   *)
(*                                                                         *)
(* The first two are made inductive by saying where a run is when its slot *)
(* is taken (SlotInv) and when its message is in the session               *)
(* (RecordedInv), and that a user message that comes last is in it         *)
(* (LastInv), which is what EnsurePendingUserMessage relies on.            *)
(***************************************************************************)
EXTENDS SessionTurns, FiniteSetTheorems, TLAPS

Recorded == {"waiting", "paused", "replying", "releasing", "clearing", "returned"}

TypeInv == /\ pc \in [Runs -> Resting \union Working]
           /\ depth \in Nat
           /\ open \subseteq Turns
           /\ turn = [r \in Runs |-> turn[r]]
           /\ \A t \in Turns : turn[t] = t
           /\ \A r \in Runs : pc[r] = "new" => r \in Turns

SlotInv == \A t \in Turns : pc[t] = "new" => t \notin open

RecordedInv == \A t \in Turns : pc[t] \in Recorded => t \in said

LastInv == last # NoRun => last \in said

IInv == TypeInv /\ SlotInv /\ DepthBound /\ RecordedInv /\ LastInv

-----------------------------------------------------------------------------
LEMMA RunsSplit ==
    /\ Turns \subseteq Runs
    /\ Resumes \subseteq Runs
    /\ Turns \intersect Resumes = {}
    /\ NoRun \notin Turns
    /\ \A k \in Answers : MaxTurns + k \in Resumes
BY BoundAssumption DEF Turns, Resumes, Runs, Answers, NoRun

LEMMA TurnsFinite == IsFiniteSet(Turns)
BY BoundAssumption, FS_Interval DEF Turns

(* Taking a turn out of open lowers the count of the open turns by at most *)
(* one, and leaves it above the decremented depth.                         *)
LEMMA ReleaseKeepsBound ==
    ASSUME TypeInv, DepthBound, NEW t
    PROVE  Decrement(depth) <= Cardinality(open \ {t})
<1>0. depth \in Nat /\ depth <= Cardinality(open)
  BY DEF TypeInv, DepthBound
<1>1. IsFiniteSet(open)
  BY TurnsFinite, FS_Subset DEF TypeInv
<1>2. Cardinality(open) \in Nat
  BY <1>1, FS_CardinalityType
<1>3. CASE t \in open
  <2>1. Cardinality(open \ {t}) = Cardinality(open) - 1
    BY <1>1, <1>3, FS_RemoveElement
  <2>2. Cardinality(open \ {t}) \in Nat
    BY <1>1, FS_RemoveElement, FS_CardinalityType, FS_Subset
  <2> QED
    BY <1>0, <1>2, <2>1, <2>2 DEF Decrement
<1>4. CASE t \notin open
  <2>1. open \ {t} = open
    BY <1>4
  <2> QED
    BY <1>0, <1>2, <2>1 DEF Decrement
<1> QED
  BY <1>3, <1>4

LEMMA EnqueueKeepsBound ==
    ASSUME TypeInv, DepthBound, NEW t \in Turns, t \notin open,
           NEW d \in {1, depth + 1}
    PROVE  d <= Cardinality(open \union {t})
<1>1. IsFiniteSet(open)
  BY TurnsFinite, FS_Subset DEF TypeInv
<1>2. Cardinality(open) \in Nat /\ Cardinality(open \union {t}) = Cardinality(open) + 1
  BY <1>1, FS_CardinalityType, FS_AddElement
<1> QED
  BY <1>2 DEF DepthBound, TypeInv

(* The effect of a method of SessionManager on its part of the invariant.  *)
SessionKept ==
    /\ depth' \in Nat
    /\ open' \subseteq open
    /\ depth' <= Cardinality(open')
    /\ said \subseteq said'
    /\ last' # NoRun => last' \in said'

LEMMA PresenceKeeps ==
    ASSUME IInv, NEW p, NEW t, SetPresence(p, t)
    PROVE  SessionKept
BY DEF IInv, TypeInv, DepthBound, LastInv, SetPresence, SessionKept

LEMMA RecordKeeps ==
    ASSUME IInv, NEW t, EnsurePendingUserMessage(t)
    PROVE  SessionKept /\ (t # NoRun => t \in said')
BY DEF IInv, TypeInv, DepthBound, LastInv, EnsurePendingUserMessage, SessionKept

LEMMA ReplyKeeps ==
    ASSUME IInv, NEW t, AddAssistantMessage(t) \/ AddExchange(t)
    PROVE  SessionKept
<1>1. depth' = Decrement(depth) /\ open' = open \ {t} /\ last' = NoRun
      /\ said \subseteq said'
  BY DEF AddAssistantMessage, AddExchange
<1>2. Decrement(depth) \in Nat
  BY DEF Decrement, IInv, TypeInv
<1>3. depth' <= Cardinality(open')
  BY <1>1, ReleaseKeepsBound DEF IInv
<1> QED
  BY <1>1, <1>2, <1>3 DEF SessionKept

(* A step that only moves run r, not to "new", and after which the message *)
(* of r is in the session when its new place says so.                      *)
LEMMA MoveKeeps ==
    ASSUME IInv, SessionKept, NEW r \in Runs,
           NEW l \in (Resting \union Working) \ {"new"},
           Goto(r, l), turn' = turn,
           r \in Turns /\ l \in Recorded => r \in said'
    PROVE  IInv'
<1>1. pc' = [pc EXCEPT ![r] = l]
  BY DEF Goto
<1>2. TypeInv'
  BY <1>1 DEF IInv, TypeInv, SessionKept
<1>3. \A t \in Turns : t \in Runs
  BY RunsSplit
<1>4. SlotInv'
  BY <1>1, <1>3 DEF IInv, TypeInv, SlotInv, SessionKept
<1>5. RecordedInv'
  BY <1>1, <1>3 DEF IInv, TypeInv, RecordedInv, SessionKept
<1> QED
  BY <1>2, <1>4, <1>5 DEF IInv, SessionKept, DepthBound, LastInv

LEMMA StayKeeps ==
    ASSUME IInv, SessionKept, pc' = pc, turn' = turn
    PROVE  IInv'
BY DEF IInv, TypeInv, SlotInv, RecordedInv, SessionKept, DepthBound, LastInv

LEMMA NothingKeeps ==
    ASSUME IInv, UNCHANGED session
    PROVE  SessionKept
BY DEF IInv, TypeInv, DepthBound, LastInv, session, SessionKept

-----------------------------------------------------------------------------
LEMMA InitInv == Init => IInv
<1> SUFFICES ASSUME Init PROVE IInv
  OBVIOUS
<1>1. TypeInv
  BY RunsSplit DEF Init, TypeInv, Resting
<1>2. Cardinality(open) = 0
  BY FS_EmptySet DEF Init
<1> QED
  BY <1>1, <1>2, RunsSplit
  DEF Init, IInv, SlotInv, DepthBound, RecordedInv, Recorded, LastInv

(* The first steps of a run.                                               *)
LEMMA StartKeeps ==
    ASSUME IInv, NEW r \in Runs,
           EnqueueTurn(r) \/ StartTyping(r) \/ Execute(r) \/ ResumeCall(r)
    PROVE  IInv'
<1>1. CASE EnqueueTurn(r)
  <2>1. r \in Turns /\ r \notin open
    BY <1>1 DEF EnqueueTurn, IInv, TypeInv, SlotInv
  <2>2. depth' \in {1, depth + 1} /\ open' = open \union {r}
    BY <1>1 DEF EnqueueTurn
  <2>3. DepthBound'
    BY <2>1, <2>2, EnqueueKeepsBound DEF IInv, DepthBound
  <2>4. pc' = [pc EXCEPT ![r] = "enqueued"] /\ UNCHANGED <<turn, said, last>>
    BY <1>1 DEF EnqueueTurn, Goto
  <2>5. TypeInv'
    BY <2>1, <2>2, <2>4 DEF IInv, TypeInv, Resting
  <2>6. SlotInv' /\ RecordedInv'
    BY <2>2, <2>4, RunsSplit
    DEF IInv, TypeInv, SlotInv, RecordedInv, Recorded
  <2> QED
    BY <2>3, <2>4, <2>5, <2>6 DEF IInv, LastInv
<1>2. CASE StartTyping(r)
  <2>1. SessionKept
    BY <1>2, PresenceKeeps DEF StartTyping
  <2> QED
    BY <1>2, <2>1, MoveKeeps DEF StartTyping, Resting, Working, Recorded
<1>3. CASE Execute(r)
  <2>1. SessionKept
    BY <1>3, NothingKeeps DEF Execute
  <2>2. \E l \in {"calling", "completing", "failing", "replying", "abandoned"} :
          /\ Goto(r, l)
          /\ r \in Turns => l # "replying"
    BY <1>3 DEF Execute, Failing
  <2> QED
    BY <1>3, <2>1, <2>2, MoveKeeps DEF Execute, Resting, Working, Recorded
<1>4. CASE ResumeCall(r)
  <2>1. SessionKept
    BY <1>4, NothingKeeps DEF ResumeCall
  <2>2. r \notin Turns
    BY <1>4, RunsSplit DEF ResumeCall
  <2>3. \E l \in {"completing", "replying"} : Goto(r, l)
    BY <1>4 DEF ResumeCall
  <2> QED
    BY <1>4, <2>1, <2>2, <2>3, MoveKeeps DEF ResumeCall, Resting, Working
<1> QED
  BY <1>1, <1>2, <1>3, <1>4

(* Asking for an approval, and finding one.                                *)
LEMMA ApprovalKeeps ==
    ASSUME IInv, NEW r \in Runs, Approving(r)
    PROVE  IInv'
<1>1. SessionKept /\ turn' = turn
  BY NothingKeeps DEF Approving, CheckApproval, RequestWithSignature
<1>2. CASE CheckApproval(r)
  <2>1. \E l \in {"completing", "failing", "replying", "pausing", "asking"} :
          /\ Goto(r, l)
          /\ r \in Turns => l # "replying"
    BY <1>2 DEF CheckApproval, Failing
  <2> QED
    BY <1>1, <2>1, MoveKeeps DEF Resting, Working, Recorded
<1>3. CASE RequestWithSignature(r)
  BY <1>1, <1>3, MoveKeeps DEF RequestWithSignature, Resting, Working, Recorded
<1> QED
  BY <1>2, <1>3 DEF Approving

(* A run that waits: its message is in the session from RecordMessage on.  *)
LEMMA UnwindingKeeps ==
    ASSUME IInv, NEW r \in Runs, Unwinding(r)
    PROVE  IInv'
<1>1. turn' = turn
  BY DEF Unwinding, Pause, FindPending, SaveResumeState, RecordMessage, Wait
<1>2. CASE Pause(r)
  <2>1. SessionKept
    BY <1>2, PresenceKeeps DEF Pause
  <2> QED
    BY <1>1, <1>2, <2>1, MoveKeeps DEF Pause, Resting, Working, Recorded
<1>3. CASE FindPending(r)
  <2>1. SessionKept
    BY <1>3, NothingKeeps DEF FindPending
  <2>2. \E l \in {"saving", "recording"} : Goto(r, l)
    BY <1>3 DEF FindPending
  <2> QED
    BY <1>1, <2>1, <2>2, MoveKeeps DEF Resting, Working, Recorded
<1>4. CASE SaveResumeState(r)
  <2>1. SessionKept
    BY <1>4, NothingKeeps DEF SaveResumeState
  <2> QED
    BY <1>1, <1>4, <2>1, MoveKeeps DEF SaveResumeState, Resting, Working, Recorded
<1>5. CASE RecordMessage(r)
  <2>1. SessionKept /\ (turn[r] # NoRun => turn[r] \in said')
    BY <1>5, RecordKeeps DEF RecordMessage
  <2>2. r \in Turns => r \in said'
    BY <2>1, RunsSplit DEF IInv, TypeInv
  <2> QED
    BY <1>1, <1>5, <2>1, <2>2, MoveKeeps DEF RecordMessage, Resting, Working
<1>6. CASE Wait(r)
  <2>1. SessionKept
    BY <1>6, PresenceKeeps DEF Wait
  <2>2. r \in Turns => r \in said'
    BY <1>6, <2>1 DEF Wait, IInv, RecordedInv, Recorded, SessionKept
  <2> QED
    BY <1>1, <1>6, <2>1, <2>2, MoveKeeps DEF Wait, Resting, Working
<1> QED
  BY <1>2, <1>3, <1>4, <1>5, <1>6 DEF Unwinding

(* A run that ends: a failed turn has its message kept before the reply, a *)
(* completed one has it in the exchange.                                   *)
LEMMA EndingKeeps ==
    ASSUME IInv, NEW r \in Runs, Ending(r)
    PROVE  IInv'
<1>1. turn' = turn
  BY DEF Ending, KeepMessage, ReplyFailure, FailTurn, Complete, ClearPresence
<1>2. CASE KeepMessage(r)
  <2>1. SessionKept /\ (turn[r] # NoRun => turn[r] \in said')
    BY <1>2, RecordKeeps DEF KeepMessage
  <2>2. r \in Turns => r \in said'
    BY <2>1, RunsSplit DEF IInv, TypeInv
  <2> QED
    BY <1>1, <1>2, <2>1, <2>2, MoveKeeps DEF KeepMessage, Resting, Working
<1>3. CASE ReplyFailure(r)
  <2>1. SessionKept
    BY <1>3, ReplyKeeps DEF ReplyFailure
  <2>2. r \in Turns => r \in said'
    BY <1>3, <2>1 DEF ReplyFailure, IInv, RecordedInv, Recorded, SessionKept
  <2> QED
    BY <1>1, <1>3, <2>1, <2>2, MoveKeeps DEF ReplyFailure, Resting, Working
<1>4. CASE FailTurn(r)
  <2>1. depth' = Decrement(depth) /\ UNCHANGED <<open, said, last>>
    BY <1>4 DEF FailTurn
  <2>2. IsFiniteSet(open)
    BY TurnsFinite, FS_Subset DEF IInv, TypeInv
  <2>3. Cardinality(open) \in Nat
    BY <2>2, FS_CardinalityType
  <2>4. SessionKept
    BY <2>1, <2>3
    DEF Decrement, IInv, TypeInv, DepthBound, LastInv, SessionKept
  <2>5. r \in Turns => r \in said'
    BY <1>4, <2>1 DEF FailTurn, IInv, RecordedInv, Recorded
  <2> QED
    BY <1>1, <1>4, <2>4, <2>5, MoveKeeps DEF FailTurn, Resting, Working
<1>5. CASE Complete(r)
  <2>1. SessionKept
    BY <1>5, ReplyKeeps DEF Complete
  <2>2. r \in Turns => r \in said'
    BY <1>5 DEF Complete, AddExchange
  <2> QED
    BY <1>1, <1>5, <2>1, <2>2, MoveKeeps DEF Complete, Resting, Working
<1>6. CASE ClearPresence(r)
  <2>1. SessionKept
    BY <1>6, PresenceKeeps DEF ClearPresence
  <2>2. r \in Turns => r \in said'
    BY <1>6, <2>1 DEF ClearPresence, IInv, RecordedInv, Recorded, SessionKept
  <2> QED
    BY <1>1, <1>6, <2>1, <2>2, MoveKeeps DEF ClearPresence, Resting, Working
<1> QED
  BY <1>2, <1>3, <1>4, <1>5, <1>6 DEF Ending

(* The resolve requests: a resumed run enters with the turn of the         *)
(* approval, and takes no slot.                                            *)
LEMMA ResolverKeeps ==
    ASSUME IInv, NEW k \in Answers,
           \/ \E a \in Runs, approved \in BOOLEAN : ReadApproval(k, a, approved)
           \/ Resolve(k) \/ HandleApproved(k) \/ HandleRejected(k)
    PROVE  IInv'
<1>1. CASE \E a \in Runs, approved \in BOOLEAN : ReadApproval(k, a, approved)
  <2>1. SessionKept /\ pc' = pc /\ turn' = turn
    BY <1>1, NothingKeeps DEF ReadApproval, runs
  <2> QED
    BY <2>1, StayKeeps
<1>2. CASE Resolve(k)
  <2>1. SessionKept /\ pc' = pc /\ turn' = turn
    BY <1>2, NothingKeeps DEF Resolve, runs
  <2> QED
    BY <2>1, StayKeeps
<1>3. CASE HandleApproved(k)
  <2> DEFINE r == MaxTurns + k
  <2>1. SessionKept
    BY <1>3, NothingKeeps DEF HandleApproved
  <2>2. r \in Runs /\ r \notin Turns
    BY RunsSplit
  <2>3. /\ pc' = [pc EXCEPT ![r] = "enqueued"]
        /\ turn' = [turn EXCEPT ![r] = turn[target[k]]]
    BY <1>3 DEF HandleApproved, Goto
  <2> HIDE DEF r
  <2>4. TypeInv'
    BY <2>1, <2>2, <2>3, RunsSplit DEF IInv, TypeInv, SessionKept, Resting
  <2>5. SlotInv' /\ RecordedInv'
    BY <2>1, <2>2, <2>3, RunsSplit
    DEF IInv, TypeInv, SlotInv, RecordedInv, SessionKept
  <2> QED
    BY <2>1, <2>4, <2>5 DEF IInv, SessionKept, DepthBound, LastInv
<1>4. CASE HandleRejected(k)
  <2>1. SessionKept
    BY <1>4, ReplyKeeps DEF HandleRejected
  <2>2. pc' = pc /\ turn' = turn
    BY <1>4 DEF HandleRejected, runs
  <2> QED
    BY <2>1, <2>2, StayKeeps
<1> QED
  BY <1>1, <1>2, <1>3, <1>4

LEMMA StepInv == IInv /\ [Next]_vars => IInv'
<1> SUFFICES ASSUME IInv, [Next]_vars PROVE IInv'
  OBVIOUS
<1>1. ASSUME NEW r \in Runs, Run(r) PROVE IInv'
  BY <1>1, StartKeeps, ApprovalKeeps, UnwindingKeeps, EndingKeeps DEF Run
<1>2. ASSUME NEW r \in Runs, Expire(r) PROVE IInv'
  <2>1. SessionKept /\ pc' = pc /\ turn' = turn
    BY <1>2, NothingKeeps DEF Expire, runs
  <2> QED
    BY <2>1, StayKeeps
<1>3. CASE UNCHANGED vars
  <2>1. SessionKept /\ pc' = pc /\ turn' = turn
    BY <1>3, NothingKeeps DEF vars, runs
  <2> QED
    BY <2>1, StayKeeps
<1> QED
  BY <1>1, <1>2, <1>3, ResolverKeeps DEF Next

(* In every behaviour of the session the inductive invariant holds.        *)
THEOREM Invariance == Spec => []IInv
BY InitInv, StepInv, PTL DEF Spec

(* The queue depth of a session never exceeds the number of turns that are *)
(* enqueued and not yet answered, failed or cancelled.                     *)
THEOREM DepthBounded == Spec => []DepthBound
<1>1. IInv => DepthBound
  BY DEF IInv
<1> QED
  BY <1>1, Invariance, PTL

(* Every request that returned has its message in the session.             *)
THEOREM MessagesKept == Spec => []MessageKept
<1>1. IInv => MessageKept
  BY DEF IInv, RecordedInv, Recorded, MessageKept
<1> QED
  BY <1>1, Invariance, PTL

-----------------------------------------------------------------------------
(* Type correctness, and that a call which needs approval only runs under  *)
(* one that some user answered with yes.                                   *)
(*                                                                         *)
(* CallsAnswered holds of the state after the call; to carry it there the  *)
(* invariant says that an approval is approved only after a yes (Granted), *)
(* that a resumed run works on the turn its answer approved (Resumed), and *)
(* that a clone somebody is about to write back is one of an approval that *)
(* exists (Saving, Aimed).                                                 *)

Answered(a) == \E k \in Answers : /\ target[k] = a
                                  /\ verdict[k]
                                  /\ answer[k] \in {"acting", "done"}

Covers(a, r) == \/ CallOf(a) = CallOf(r)
                \/ CallOf(a) \in Desktop /\ CallOf(r) \in Desktop

Placed  == \A r \in Runs : /\ pc[r] # "none" => turn[r] \in Turns
                           /\ pc[r] = "new" => r \in Turns
Asked   == \A a \in Runs : status[a] # "none" => pc[a] # "none"
Saving  == \A r \in Runs : pc[r] = "saving" =>
              pending[r] \in Runs /\ status[pending[r]] # "none"
Aimed   == \A k \in Answers : answer[k] # "none" =>
              target[k] \in Runs /\ status[target[k]] # "none"
Granted == \A a \in Runs : status[a] = "approved" => Answered(a)
Resumed == \A k \in Answers : pc[MaxTurns + k] # "none" =>
              /\ answer[k] = "done"
              /\ verdict[k]
              /\ turn[MaxTurns + k] = turn[target[k]]
Called  == \A r \in Runs : via[r] # NoRun =>
              /\ pc[r] # "none"
              /\ status[via[r]] # "none"
              /\ Answered(via[r])
              /\ Covers(via[r], r)

AInv == /\ TypeOK
        /\ Placed /\ Asked /\ Saving /\ Aimed /\ Granted /\ Resumed /\ Called

SessionOK == /\ depth \in Nat
             /\ presence \in {"idle", "queued", "typing", "waiting_approval"}
             /\ typing \in BOOLEAN
             /\ said \subseteq Turns
             /\ last \in Turns \union {NoRun}
             /\ open \subseteq Turns

-----------------------------------------------------------------------------
LEMMA RunNumbers ==
    /\ Turns \subseteq Runs
    /\ NoRun \notin Runs
    /\ \A k \in Answers : MaxTurns + k \in Runs /\ MaxTurns + k \notin Turns
    /\ \A j, k \in Answers : MaxTurns + j = MaxTurns + k => j = k
    /\ \A r \in Resumes : r - MaxTurns \in Answers /\ MaxTurns + (r - MaxTurns) = r
BY BoundAssumption DEF Turns, Resumes, Runs, Answers, NoRun

(* The methods of SessionManager keep the session in its types.            *)
LEMMA DecrementNat == ASSUME NEW d \in Nat PROVE Decrement(d) \in Nat
BY DEF Decrement

LEMMA SessionTyped ==
    ASSUME SessionOK, NEW t \in Turns,
           \/ EnsurePendingUserMessage(t)
           \/ AddAssistantMessage(t)
           \/ AddExchange(t)
    PROVE  SessionOK'
<1>1. Decrement(depth) \in Nat
  BY DecrementNat DEF SessionOK
<1> QED
  BY <1>1
  DEF SessionOK, EnsurePendingUserMessage, AddAssistantMessage, AddExchange

LEMMA PresenceTyped ==
    ASSUME SessionOK, NEW t \in BOOLEAN,
           NEW p \in {"idle", "queued", "typing", "waiting_approval"},
           SetPresence(p, t)
    PROVE  SessionOK'
BY DEF SessionOK, SetPresence

(* What a step of a run may do to the rest of the invariant: it neither    *)
(* starts nor forgets a run, approves nothing, and makes a call only under *)
(* an approval that was answered and covers it.                            *)
LEMMA RunFrame ==
    ASSUME AInv, TypeOK', UNCHANGED <<call, turn, resolver>>,
           \A i \in Runs : /\ pc[i] # "none" <=> pc'[i] # "none"
                           /\ pc'[i] = "new" => pc[i] = "new",
           \A i \in Runs : /\ status[i] # "none" => status'[i] # "none"
                           /\ status'[i] # "none" => pc'[i] # "none"
                           /\ status'[i] = "approved" => status[i] = "approved",
           Saving',
           \A i \in Runs : \/ via'[i] = via[i]
                           \/ /\ pc[i] # "none"
                              /\ via'[i] \in Runs
                              /\ status[via'[i]] # "none"
                              /\ Answered(via'[i])
                              /\ Covers(via'[i], i)
    PROVE  AInv'
<1>1. UNCHANGED <<call, turn, answer, target, verdict>>
  BY DEF resolver
<1>2. Placed' /\ Asked' /\ Aimed' /\ Resumed'
  BY <1>1, RunNumbers DEF AInv, Placed, Asked, Aimed, Resumed
<1>3. Granted'
  BY <1>1 DEF AInv, Granted, Answered
<1>4. Called'
  <2> SUFFICES ASSUME NEW i \in Runs, via'[i] # NoRun
               PROVE  /\ pc'[i] # "none"
                      /\ status'[via'[i]] # "none"
                      /\ Answered(via[i])'
                      /\ Covers(via[i], i)'
    BY DEF Called
  <2>1. /\ pc[i] # "none"
        /\ via'[i] \in Runs
        /\ status[via'[i]] # "none"
        /\ Answered(via'[i])
        /\ Covers(via'[i], i)
    BY DEF AInv, TypeOK, Called
  <2>2. Answered(via[i])' /\ Covers(via[i], i)'
    BY <1>1, <2>1 DEF Answered, Covers, CallOf
  <2> QED
    BY <2>1, <2>2
<1> QED
  BY <1>2, <1>3, <1>4 DEF AInv

(* The frequent case: r moves on, and the approvals are left alone.        *)
LEMMA MoveFrame ==
    ASSUME AInv, SessionOK', NEW r \in Runs, pc[r] # "none",
           NEW l \in (Resting \union Working) \ {"none", "new", "saving"}, Goto(r, l),
           UNCHANGED <<call, turn, pending, via, approval, resolver>>
    PROVE  AInv'
<1>1. pc' = [pc EXCEPT ![r] = l]
  BY DEF Goto
<1>2. UNCHANGED <<asked, status, resumable, answer, target, verdict>>
  BY DEF approval, resolver
<1>3. TypeOK'
  BY <1>1, <1>2 DEF AInv, TypeOK, SessionOK
<1>4. \A i \in Runs : /\ pc[i] # "none" <=> pc'[i] # "none"
                      /\ pc'[i] = "new" => pc[i] = "new"
  BY <1>1 DEF AInv, TypeOK
<1>5. Saving'
  BY <1>1, <1>2 DEF AInv, TypeOK, Saving
<1> QED
  BY <1>2, <1>3, <1>4, <1>5, RunFrame DEF AInv, Asked

-----------------------------------------------------------------------------
LEMMA InitAInv == Init => AInv
<1> SUFFICES ASSUME Init PROVE AInv
  OBVIOUS
<1>1. TypeOK
  <2>1. /\ pc \in [Runs -> Resting \union Working]
        /\ turn \in [Runs -> Turns \union {NoRun}]
        /\ pending \in [Runs -> Runs \union {NoRun}]
        /\ via \in [Runs -> Runs \union {NoRun}]
    BY DEF Init, Resting
  <2>2. asked \in Seq(Runs)
    BY DEF Init
  <2>3. /\ status \in [Runs -> {"none", "pending", "approved", "rejected", "expired"}]
        /\ answer \in [Answers -> {"none", "resolving", "acting", "done"}]
        /\ target \in [Answers -> Runs \union {NoRun}]
        /\ verdict \in [Answers -> BOOLEAN]
    BY DEF Init
  <2> QED
    BY <2>1, <2>2, <2>3 DEF Init, TypeOK
<1>2. Placed /\ Asked /\ Saving /\ Aimed /\ Granted /\ Called
  BY RunNumbers
  DEF Init, Placed, Asked, Saving, Aimed, Granted, Called
<1>3. Resumed
  BY RunNumbers DEF Init, Resumed
<1> QED
  BY <1>1, <1>2, <1>3 DEF AInv

(* The steps that only move a run and touch the session.                   *)
LEMMA PlainSteps ==
    ASSUME AInv, NEW r \in Runs,
           \/ EnqueueTurn(r) \/ StartTyping(r) \/ Execute(r)
           \/ Pause(r) \/ RecordMessage(r) \/ Wait(r)
           \/ Ending(r)
    PROVE  AInv'
<1>1. /\ SessionOK
      /\ pc[r] # "none" => turn[r] \in Turns
  BY DEF AInv, TypeOK, SessionOK, Placed
<1>2. CASE EnqueueTurn(r)
  <2>1. r \in Turns
    BY <1>2 DEF EnqueueTurn, AInv, Placed
  <2>2. SessionOK'
    BY <1>1, <1>2, <2>1 DEF EnqueueTurn, SessionOK
  <2> QED
    BY <1>2, <2>2, MoveFrame DEF EnqueueTurn, Resting, Working
<1>3. CASE StartTyping(r)
  <2>1. SessionOK'
    BY <1>1, <1>3, PresenceTyped DEF StartTyping
  <2> QED
    BY <1>3, <2>1, MoveFrame DEF StartTyping, Resting, Working
<1>4. CASE Execute(r)
  <2>1. SessionOK'
    BY <1>1, <1>4 DEF Execute, session, SessionOK
  <2>2. \E l \in {"calling", "completing", "failing", "replying", "abandoned"} :
          Goto(r, l)
    BY <1>4 DEF Execute, Failing
  <2> QED
    BY <1>4, <2>1, <2>2, MoveFrame DEF Execute, Resting, Working
<1>5. CASE Pause(r)
  <2>1. SessionOK'
    BY <1>1, <1>5, PresenceTyped DEF Pause
  <2> QED
    BY <1>5, <2>1, MoveFrame DEF Pause, Resting, Working
<1>6. CASE RecordMessage(r)
  <2>1. SessionOK'
    BY <1>1, <1>6, SessionTyped DEF RecordMessage
  <2> QED
    BY <1>6, <2>1, MoveFrame DEF RecordMessage, Resting, Working
<1>7. CASE Wait(r)
  <2>1. SessionOK'
    BY <1>1, <1>7, PresenceTyped DEF Wait
  <2> QED
    BY <1>7, <2>1, MoveFrame DEF Wait, Resting, Working
<1>8. CASE KeepMessage(r)
  <2>1. SessionOK'
    BY <1>1, <1>8, SessionTyped DEF KeepMessage
  <2> QED
    BY <1>8, <2>1, MoveFrame DEF KeepMessage, Resting, Working
<1>9. CASE ReplyFailure(r)
  <2>1. SessionOK'
    BY <1>1, <1>9, SessionTyped DEF ReplyFailure
  <2> QED
    BY <1>9, <2>1, MoveFrame DEF ReplyFailure, Resting, Working
<1>10. CASE FailTurn(r)
  <2>1. SessionOK'
    BY <1>1, <1>10, DecrementNat DEF FailTurn, SessionOK
  <2> QED
    BY <1>10, <2>1, MoveFrame DEF FailTurn, Resting, Working
<1>11. CASE Complete(r)
  <2>1. SessionOK'
    BY <1>1, <1>11, SessionTyped DEF Complete
  <2> QED
    BY <1>11, <2>1, MoveFrame DEF Complete, Resting, Working
<1>12. CASE ClearPresence(r)
  <2>1. SessionOK'
    BY <1>1, <1>12, PresenceTyped DEF ClearPresence
  <2> QED
    BY <1>12, <2>1, MoveFrame DEF ClearPresence, Resting, Working
<1> QED
  BY <1>2, <1>3, <1>4, <1>5, <1>6, <1>7, <1>8, <1>9, <1>10, <1>11, <1>12
  DEF Ending

(* A call is made under an approval the check found, or under the one a    *)
(* resumed run was started for.                                            *)
LEMMA CallSteps ==
    ASSUME AInv, NEW r \in Runs, ResumeCall(r) \/ CheckApproval(r)
    PROVE  AInv'
<1> DEFINE Under(a) == /\ a \in Runs
                       /\ status[a] # "none"
                       /\ Answered(a)
                       /\ Covers(a, r)
<1>1. /\ pc[r] \notin {"none", "new"}
      /\ UNCHANGED <<call, turn, pending, session, asked, status, resumable,
                     resolver>>
  BY DEF ResumeCall, CheckApproval, approval
<1>2. \E l \in {"completing", "failing", "replying", "pausing", "asking"} : Goto(r, l)
  BY DEF ResumeCall, CheckApproval, Failing
<1>3. via' = via \/ \E a : Under(a) /\ via' = [via EXCEPT ![r] = a]
  <2>1. CASE ResumeCall(r)
    <3> DEFINE k == r - MaxTurns
    <3>1. k \in Answers /\ MaxTurns + k = r
      BY <2>1, RunNumbers DEF ResumeCall
    <3>2. via' = via \/ via' = [via EXCEPT ![r] = target[k]]
      BY <2>1 DEF ResumeCall
    <3> HIDE DEF k
    <3>3. answer[k] = "done" /\ verdict[k] /\ turn[r] = turn[target[k]]
      BY <1>1, <3>1 DEF AInv, Resumed
    <3>4. target[k] \in Runs /\ status[target[k]] # "none"
      BY <3>1, <3>3 DEF AInv, Aimed
    <3>5. Answered(target[k]) /\ Covers(target[k], r)
      BY <3>1, <3>3 DEF Answered, Covers, CallOf
    <3> QED
      BY <3>2, <3>4, <3>5
  <2>2. CASE CheckApproval(r)
    <3>1. \/ via' = via
          \/ \E a \in Matching(r) : /\ status[a] = "approved"
                                    /\ via' = [via EXCEPT ![r] = a]
      BY <2>2 DEF CheckApproval
    <3>2. ASSUME NEW a \in Matching(r), status[a] = "approved"
          PROVE  Under(a)
      BY <3>2 DEF Matching, SameCall, Covers, AInv, Granted
    <3> QED
      BY <3>1, <3>2
  <2> QED
    BY <2>1, <2>2
<1> HIDE DEF Under
<1>4. PICK l \in {"completing", "failing", "replying", "pausing", "asking"} :
        pc' = [pc EXCEPT ![r] = l]
  BY <1>2 DEF Goto
<1>5. \A a : Under(a) => a \in Runs
  BY DEF Under
<1>6. via' \in [Runs -> Runs \union {NoRun}]
  BY <1>3, <1>5 DEF AInv, TypeOK
<1>7. TypeOK'
  <2>1. pc' \in [Runs -> Resting \union Working]
    BY <1>4 DEF AInv, TypeOK, Resting, Working
  <2> QED
    BY <1>1, <1>6, <2>1 DEF AInv, TypeOK, session, resolver
<1>8. \A i \in Runs : /\ pc[i] # "none" <=> pc'[i] # "none"
                      /\ pc'[i] = "new" => pc[i] = "new"
                      /\ pc'[i] = "saving" => pc[i] = "saving"
  BY <1>1, <1>4 DEF AInv, TypeOK
<1>9. Saving'
  BY <1>1, <1>8 DEF AInv, Saving
<1>10. \A i \in Runs : via'[i] = via[i] \/ (i = r /\ Under(via'[i]))
  <2>1. ASSUME NEW a, Under(a), via' = [via EXCEPT ![r] = a], NEW i \in Runs
        PROVE  via'[i] = via[i] \/ (i = r /\ via'[i] = a)
    BY <2>1 DEF AInv, TypeOK
  <2> QED
    BY <1>3, <2>1
<1>11. \A i \in Runs : \/ via'[i] = via[i]
                       \/ /\ pc[i] # "none"
                          /\ via'[i] \in Runs
                          /\ status[via'[i]] # "none"
                          /\ Answered(via'[i])
                          /\ Covers(via'[i], i)
  BY <1>1, <1>10 DEF Under
<1>12. \A i \in Runs : /\ status[i] # "none" => status'[i] # "none"
                       /\ status'[i] # "none" => pc'[i] # "none"
                       /\ status'[i] = "approved" => status[i] = "approved"
  BY <1>1, <1>8 DEF AInv, Asked
<1> QED
  BY <1>1, <1>7, <1>8, <1>9, <1>11, <1>12, RunFrame

(* The steps that write an approval: a new one is pending, a clone written *)
(* back is pending, a grant that ran out is expired.                       *)
LEMMA RequestStep ==
    ASSUME AInv, NEW r \in Runs, RequestWithSignature(r)
    PROVE  AInv'
<1>1. /\ pc[r] = "asking"
      /\ pc' = [pc EXCEPT ![r] = "pausing"]
      /\ status' = [status EXCEPT ![r] = "pending"]
      /\ asked' = Append(asked, r)
      /\ UNCHANGED <<call, turn, pending, via, session, resumable, resolver>>
  BY DEF RequestWithSignature, Goto
<1>2. TypeOK'
  <2>1. asked' \in Seq(Runs)
    BY <1>1 DEF AInv, TypeOK
  <2>2. pc' \in [Runs -> Resting \union Working]
    BY <1>1 DEF AInv, TypeOK, Working
  <2>3. status' \in [Runs -> {"none", "pending", "approved", "rejected", "expired"}]
    BY <1>1 DEF AInv, TypeOK
  <2> QED
    BY <1>1, <2>1, <2>2, <2>3 DEF AInv, TypeOK, session, resolver
<1>3. \A i \in Runs : /\ pc[i] # "none" <=> pc'[i] # "none"
                      /\ pc'[i] = "new" => pc[i] = "new"
                      /\ pc'[i] = "saving" => pc[i] = "saving"
  BY <1>1 DEF AInv, TypeOK
<1>4. \A i \in Runs : /\ status[i] # "none" => status'[i] # "none"
                      /\ status'[i] # "none" => pc'[i] # "none"
                      /\ status'[i] = "approved" => status[i] = "approved"
  BY <1>1, <1>3 DEF AInv, TypeOK, Asked
<1>5. Saving'
  BY <1>1, <1>3, <1>4 DEF AInv, Saving
<1> QED
  BY <1>1, <1>2, <1>3, <1>4, <1>5, RunFrame

LEMMA FindStep ==
    ASSUME AInv, NEW r \in Runs, FindPending(r)
    PROVE  AInv'
<1>1. /\ pc[r] = "unwinding"
      /\ UNCHANGED <<call, turn, via, session, asked, status, resumable, resolver>>
      /\ \/ \E a \in Runs : /\ status[a] = "pending"
                           /\ pending' = [pending EXCEPT ![r] = a]
                           /\ pc' = [pc EXCEPT ![r] = "saving"]
         \/ pending' = pending /\ pc' = [pc EXCEPT ![r] = "recording"]
  BY DEF FindPending, SameCall, Goto, approval
<1>2. TypeOK'
  <2>1. pc' \in [Runs -> Resting \union Working]
    BY <1>1 DEF AInv, TypeOK, Working
  <2>2. pending' \in [Runs -> Runs \union {NoRun}]
    BY <1>1 DEF AInv, TypeOK
  <2> QED
    BY <1>1, <2>1, <2>2 DEF AInv, TypeOK, session, resolver
<1>3. \A i \in Runs : /\ pc[i] # "none" <=> pc'[i] # "none"
                      /\ pc'[i] = "new" => pc[i] = "new"
  BY <1>1 DEF AInv, TypeOK
<1>4. Saving'
  BY <1>1 DEF AInv, TypeOK, Saving
<1> QED
  BY <1>1, <1>2, <1>3, <1>4, RunFrame DEF AInv, Asked

LEMMA SaveStep ==
    ASSUME AInv, NEW r \in Runs, SaveResumeState(r)
    PROVE  AInv'
<1>1. /\ pc[r] = "saving"
      /\ pc' = [pc EXCEPT ![r] = "recording"]
      /\ status' = [status EXCEPT ![pending[r]] = "pending"]
      /\ resumable' = resumable \union {pending[r]}
      /\ pending' = [pending EXCEPT ![r] = NoRun]
      /\ UNCHANGED <<call, turn, via, session, asked, resolver>>
  BY DEF SaveResumeState, Goto
<1>2. pending[r] \in Runs /\ status[pending[r]] # "none"
  BY <1>1 DEF AInv, Saving
<1>3. TypeOK'
  <2>1. pc' \in [Runs -> Resting \union Working]
    BY <1>1 DEF AInv, TypeOK, Working
  <2>2. pending' \in [Runs -> Runs \union {NoRun}]
    BY <1>1 DEF AInv, TypeOK
  <2>3. status' \in [Runs -> {"none", "pending", "approved", "rejected", "expired"}]
    BY <1>1 DEF AInv, TypeOK
  <2> QED
    BY <1>1, <1>2, <2>1, <2>2, <2>3 DEF AInv, TypeOK, session, resolver
<1>4. \A i \in Runs : /\ pc[i] # "none" <=> pc'[i] # "none"
                      /\ pc'[i] = "new" => pc[i] = "new"
                      /\ pc'[i] = "saving" => i # r /\ pc[i] = "saving"
  BY <1>1 DEF AInv, TypeOK
<1>5. \A i \in Runs : /\ status[i] # "none" => status'[i] # "none"
                      /\ status'[i] # "none" => status[i] # "none"
                      /\ status'[i] = "approved" => status[i] = "approved"
  BY <1>1, <1>2 DEF AInv, TypeOK
<1>6. Saving'
  BY <1>1, <1>4, <1>5 DEF AInv, TypeOK, Saving
<1> QED
  BY <1>1, <1>3, <1>4, <1>5, <1>6, RunFrame DEF AInv, Asked

LEMMA ExpireStep ==
    ASSUME AInv, NEW a \in Runs, Expire(a)
    PROVE  AInv'
<1>1. /\ status[a] = "approved"
      /\ status' = [status EXCEPT ![a] = "expired"]
      /\ UNCHANGED <<call, pc, turn, pending, via, session, asked, resumable,
                     resolver>>
  BY DEF Expire, runs
<1>2. TypeOK'
  <2>1. status' \in [Runs -> {"none", "pending", "approved", "rejected", "expired"}]
    BY <1>1 DEF AInv, TypeOK
  <2> QED
    BY <1>1, <2>1 DEF AInv, TypeOK, session, resolver
<1>3. \A i \in Runs : /\ status[i] # "none" <=> status'[i] # "none"
                      /\ status'[i] = "approved" => status[i] = "approved"
  BY <1>1 DEF AInv, TypeOK
<1>4. Saving'
  BY <1>1, <1>3 DEF AInv, Saving
<1> QED
  BY <1>1, <1>2, <1>3, <1>4, RunFrame DEF AInv, Asked

-----------------------------------------------------------------------------
(* An answer that was given stays given: a resolve request only moves on.  *)
LEMMA AnswersGrow ==
    ASSUME AInv, NEW k \in Answers,
           \A j \in Answers \ {k} : /\ target'[j] = target[j]
                                   /\ verdict'[j] = verdict[j]
                                   /\ answer'[j] = answer[j],
           \/ answer[k] \in {"none", "resolving"}
           \/ /\ target'[k] = target[k]
              /\ verdict'[k] = verdict[k]
              /\ answer'[k] = "done"
    PROVE  \A a : Answered(a) => \E j \in Answers : /\ target'[j] = a
                                                    /\ verdict'[j]
                                                    /\ answer'[j] \in {"acting", "done"}
BY DEF Answered

LEMMA ReadStep ==
    ASSUME AInv, NEW k \in Answers, NEW a \in Runs, NEW approved \in BOOLEAN,
           ReadApproval(k, a, approved)
    PROVE  AInv'
<1>1. /\ answer[k] = "none"
      /\ status[a] # "none"
      /\ target' = [target EXCEPT ![k] = a]
      /\ verdict' = [verdict EXCEPT ![k] = approved]
      /\ UNCHANGED <<call, pc, turn, pending, via, session, asked, status, resumable>>
      /\ answer' = [answer EXCEPT ![k] = answer'[k]]
      /\ answer'[k] \in {"resolving", "acting"}
  <2>1. /\ answer' = [answer EXCEPT ![k] = IF status[a] = "pending" THEN "resolving"
                                                                   ELSE "acting"]
        /\ answer \in [Answers -> {"none", "resolving", "acting", "done"}]
    BY DEF ReadApproval, AInv, TypeOK
  <2>2. /\ answer' = [answer EXCEPT ![k] = answer'[k]]
        /\ answer'[k] \in {"resolving", "acting"}
    BY <2>1
  <2> QED
    BY <2>2 DEF ReadApproval, runs, approval
<1>2. TypeOK'
  <2>1. /\ answer' \in [Answers -> {"none", "resolving", "acting", "done"}]
        /\ target' \in [Answers -> Runs \union {NoRun}]
        /\ verdict' \in [Answers -> BOOLEAN]
    BY <1>1 DEF AInv, TypeOK
  <2> QED
    BY <1>1, <2>1 DEF AInv, TypeOK, session
<1>3. \A j \in Answers \ {k} : /\ target'[j] = target[j]
                              /\ verdict'[j] = verdict[j]
                              /\ answer'[j] = answer[j]
  BY <1>1 DEF AInv, TypeOK
<1>4. \A x : Answered(x) => \E j \in Answers : /\ target'[j] = x
                                              /\ verdict'[j]
                                              /\ answer'[j] \in {"acting", "done"}
  BY <1>1, <1>3, AnswersGrow
<1>5. Placed' /\ Asked' /\ Saving'
  BY <1>1 DEF AInv, Placed, Asked, Saving
<1>6. Aimed'
  BY <1>1, <1>3 DEF AInv, TypeOK, Aimed
<1>7. Granted'
  BY <1>1, <1>4 DEF AInv, Granted, Answered
<1>8. Resumed'
  BY <1>1, <1>3 DEF AInv, Resumed
<1>9. Called'
  BY <1>1, <1>4 DEF AInv, Called, Answered, Covers, CallOf
<1> QED
  BY <1>2, <1>5, <1>6, <1>7, <1>8, <1>9 DEF AInv

LEMMA ResolveStep ==
    ASSUME AInv, NEW k \in Answers, Resolve(k)
    PROVE  AInv'
<1>1. /\ answer[k] = "resolving"
      /\ status' = [status EXCEPT ![target[k]] =
                       IF verdict[k] THEN "approved" ELSE "rejected"]
      /\ resumable' = resumable \union {target[k]} \/ resumable' = resumable \ {target[k]}
      /\ answer' = [answer EXCEPT ![k] = "acting"]
      /\ UNCHANGED <<call, pc, turn, pending, via, session, asked, target, verdict>>
  BY DEF Resolve, runs
<1>2. target[k] \in Runs /\ status[target[k]] # "none"
  BY <1>1 DEF AInv, Aimed
<1>3. TypeOK'
  <2>1. /\ answer' \in [Answers -> {"none", "resolving", "acting", "done"}]
        /\ status' \in [Runs -> {"none", "pending", "approved", "rejected", "expired"}]
        /\ resumable' \subseteq Runs
    BY <1>1, <1>2 DEF AInv, TypeOK
  <2> QED
    BY <1>1, <2>1 DEF AInv, TypeOK, session
<1>4. \A j \in Answers \ {k} : answer'[j] = answer[j]
  BY <1>1 DEF AInv, TypeOK
<1>5. answer'[k] = "acting"
  BY <1>1 DEF AInv, TypeOK
<1>6. \A x : Answered(x) => \E j \in Answers : /\ target'[j] = x
                                              /\ verdict'[j]
                                              /\ answer'[j] \in {"acting", "done"}
  BY <1>1, <1>4, AnswersGrow
<1>7. \A i \in Runs : /\ status[i] # "none" <=> status'[i] # "none"
                      /\ status'[i] = "approved" =>
                            status[i] = "approved" \/ (i = target[k] /\ verdict[k])
  BY <1>1, <1>2 DEF AInv, TypeOK
<1>8. Placed' /\ Asked' /\ Saving'
  BY <1>1, <1>7 DEF AInv, Placed, Asked, Saving
<1>9. Aimed'
  BY <1>1, <1>2, <1>4, <1>7 DEF AInv, Aimed
<1>10. Granted'
  BY <1>1, <1>5, <1>6, <1>7 DEF AInv, Granted, Answered
<1>11. Resumed'
  BY <1>1, <1>4 DEF AInv, Resumed
<1>12. Called'
  <2>1. \A i \in Runs : via[i] # NoRun => via[i] \in Runs
    BY DEF AInv, TypeOK
  <2> QED
    BY <1>1, <1>6, <1>7, <2>1 DEF AInv, Called, Answered, Covers, CallOf
<1> QED
  BY <1>3, <1>8, <1>9, <1>10, <1>11, <1>12 DEF AInv

LEMMA ApprovedStep ==
    ASSUME AInv, NEW k \in Answers, HandleApproved(k)
    PROVE  AInv'
<1> DEFINE r == MaxTurns + k
<1>1. /\ answer[k] = "acting" /\ verdict[k]
      /\ pc' = [pc EXCEPT ![r] = "enqueued"]
      /\ turn' = [turn EXCEPT ![r] = turn[target[k]]]
      /\ answer' = [answer EXCEPT ![k] = "done"]
      /\ UNCHANGED <<call, pending, via, session, asked, status, resumable, target,
                     verdict>>
  BY DEF HandleApproved, Goto, approval
<1>2. /\ r \in Runs
      /\ pc[r] = "none"
      /\ \A j \in Answers \ {k} : MaxTurns + j \in Runs /\ MaxTurns + j # r
  BY <1>1, RunNumbers DEF AInv, Resumed
<1>3. /\ target[k] \in Runs
      /\ pc[target[k]] # "none"
      /\ turn[target[k]] \in Turns
  BY <1>1 DEF AInv, Aimed, Asked, Placed
<1>4. \A j \in Answers : answer[j] # "none" => target[j] \in Runs /\ target[j] # r
  BY <1>2 DEF AInv, Aimed, Asked
<1>5. \A i \in Runs : via[i] # NoRun => i # r /\ via[i] \in Runs /\ via[i] # r
  BY <1>2 DEF AInv, TypeOK, Called, Asked
<1>6. \A j \in Answers \ {k} : answer'[j] = answer[j]
  BY <1>1 DEF AInv, TypeOK
<1>7. answer'[k] = "done"
  BY <1>1 DEF AInv, TypeOK
<1>8. MaxTurns + k = r
  OBVIOUS
<1> HIDE DEF r
<1>9. /\ \A i \in Runs \ {r} : pc'[i] = pc[i] /\ turn'[i] = turn[i]
      /\ pc'[r] = "enqueued" /\ turn'[r] = turn[target[k]]
  BY <1>1, <1>2 DEF AInv, TypeOK
<1>10. TypeOK'
  <2>1. /\ pc' \in [Runs -> Resting \union Working]
        /\ turn' \in [Runs -> Turns \union {NoRun}]
        /\ answer' \in [Answers -> {"none", "resolving", "acting", "done"}]
    BY <1>1, <1>3 DEF AInv, TypeOK, Resting
  <2> QED
    BY <1>1, <2>1 DEF AInv, TypeOK, session
<1>11. Placed' /\ Asked' /\ Saving'
  BY <1>1, <1>3, <1>9 DEF AInv, Placed, Asked, Saving
<1>12. Aimed' /\ Granted'
  BY <1>1, <1>6, <1>7 DEF AInv, Aimed, Granted, Answered
<1>13. Resumed'
  <2>1. ASSUME NEW j \in Answers \ {k}, pc'[MaxTurns + j] # "none"
        PROVE  answer'[j] = "done" /\ verdict'[j]
               /\ turn'[MaxTurns + j] = turn'[target'[j]]
    <3>1. pc[MaxTurns + j] # "none" /\ turn'[MaxTurns + j] = turn[MaxTurns + j]
      BY <1>2, <1>9, <2>1
    <3>2. answer[j] = "done" /\ verdict[j] /\ turn[MaxTurns + j] = turn[target[j]]
      BY <3>1 DEF AInv, Resumed
    <3> QED
      BY <1>1, <1>4, <1>6, <1>9, <3>1, <3>2
  <2>2. verdict'[k] /\ turn'[r] = turn'[target'[k]]
    BY <1>1, <1>4, <1>9
  <2> QED
    BY <1>7, <1>8, <2>1, <2>2 DEF Resumed
<1>14. Called'
  <2>1. \A a : Answered(a) => \E j \in Answers : /\ target'[j] = a
                                                /\ verdict'[j]
                                                /\ answer'[j] \in {"acting", "done"}
    BY <1>1, <1>6, <1>7, AnswersGrow
  <2> QED
    BY <1>1, <1>5, <1>9, <2>1 DEF AInv, Called, Answered, Covers, CallOf
<1> QED
  BY <1>10, <1>11, <1>12, <1>13, <1>14 DEF AInv

LEMMA RejectedStep ==
    ASSUME AInv, NEW k \in Answers, HandleRejected(k)
    PROVE  AInv'
<1>1. /\ answer[k] = "acting"
      /\ AddAssistantMessage(turn[target[k]])
      /\ answer' = [answer EXCEPT ![k] = "done"]
      /\ UNCHANGED <<call, pc, turn, pending, via, asked, status, resumable, target,
                     verdict>>
  BY DEF HandleRejected, runs, approval
<1>2. turn[target[k]] \in Turns
  BY <1>1 DEF AInv, Aimed, Asked, Placed
<1>3. SessionOK'
  <2>1. SessionOK
    BY DEF AInv, TypeOK, SessionOK
  <2> QED
    BY <1>1, <1>2, <2>1, SessionTyped
<1>4. /\ \A j \in Answers \ {k} : answer'[j] = answer[j]
      /\ answer'[k] = "done"
  BY <1>1 DEF AInv, TypeOK
<1>5. TypeOK'
  BY <1>1, <1>3 DEF AInv, TypeOK, SessionOK
<1>6. Placed' /\ Asked' /\ Saving' /\ Aimed' /\ Resumed'
  BY <1>1, <1>4 DEF AInv, Placed, Asked, Saving, Aimed, Resumed
<1>7. Granted' /\ Called'
  <2>1. \A a : Answered(a) => \E j \in Answers : /\ target'[j] = a
                                                /\ verdict'[j]
                                                /\ answer'[j] \in {"acting", "done"}
    BY <1>1, <1>4, AnswersGrow
  <2> QED
    BY <1>1, <2>1 DEF AInv, Granted, Called, Answered, Covers, CallOf
<1> QED
  BY <1>5, <1>6, <1>7 DEF AInv

-----------------------------------------------------------------------------
LEMMA StepAInv == AInv /\ [Next]_vars => AInv'
<1> SUFFICES ASSUME AInv, [Next]_vars PROVE AInv'
  OBVIOUS
<1>1. ASSUME NEW r \in Runs, Run(r) PROVE AInv'
  BY <1>1, PlainSteps, CallSteps, RequestStep, FindStep, SaveStep
  DEF Run, Approving, Unwinding
<1>2. CASE UNCHANGED vars
  BY <1>2
  DEF vars, runs, session, approval, resolver, AInv, TypeOK, Placed, Asked, Saving,
      Aimed, Granted, Resumed, Called, Answered, Covers, CallOf
<1> QED
  BY <1>1, <1>2, ExpireStep, ReadStep, ResolveStep, ApprovedStep, RejectedStep
  DEF Next

(* The strengthened invariant holds in every behaviour of the session.     *)
THEOREM AnswersInvariance == Spec => []AInv
BY InitAInv, StepAInv, PTL DEF Spec

(* Every variable of the session keeps its type.                           *)
THEOREM SessionTypes == Spec => []TypeOK
<1>1. AInv => TypeOK
  BY DEF AInv
<1> QED
  BY <1>1, AnswersInvariance, PTL

(* A call that needs approval runs only under an approval of that call, or *)
(* of another desktop call, that a user answered with yes.                 *)
THEOREM CallsWereAnswered == Spec => []CallsAnswered
<1>1. AInv => CallsAnswered
  BY DEF AInv, Called, Answered, Covers, CallsAnswered
<1> QED
  BY <1>1, AnswersInvariance, PTL

-----------------------------------------------------------------------------
(* TypingStops: a step that leaves the session typing leaves some run at   *)
(* work, or abandoned; one after which a run rests stops the typing.       *)
Busy == \/ \E r \in Runs : pc[r] \in Working
        \/ \E t \in Turns : pc[t] = "abandoned"

TypingInv == typing = FALSE \/ Busy

LEMMA RunTyping ==
    ASSUME NEW r \in Runs, Run(r)
    PROVE  \/ typing' = FALSE
           \/ \E l \in Working : Goto(r, l)
           \/ r \in Turns /\ Goto(r, "abandoned")
           \/ typing' = typing /\ pc[r] = "new" /\ Goto(r, "enqueued")
<1>1. CASE EnqueueTurn(r)
  BY <1>1 DEF EnqueueTurn
<1>2. CASE StartTyping(r) \/ Execute(r) \/ ResumeCall(r)
  BY <1>2 DEF StartTyping, Execute, ResumeCall, Failing, Working
<1>3. CASE Approving(r)
  BY <1>3 DEF Approving, CheckApproval, RequestWithSignature, Failing, Working
<1>4. CASE Unwinding(r)
  BY <1>4 DEF Unwinding, Pause, FindPending, SaveResumeState, RecordMessage, Wait,
              SetPresence, Working
<1>5. CASE Ending(r)
  BY <1>5 DEF Ending, KeepMessage, ReplyFailure, FailTurn, Complete, ClearPresence,
              SetPresence, Working
<1> QED
  BY <1>1, <1>2, <1>3, <1>4, <1>5 DEF Run

LEMMA TypingStep == AInv /\ TypingInv /\ [Next]_vars => TypingInv'
<1> SUFFICES ASSUME AInv, TypingInv, [Next]_vars, typing' # FALSE PROVE Busy'
  BY DEF TypingInv
<1>1. ASSUME NEW r \in Runs, Run(r) PROVE Busy'
  <2>1. DOMAIN pc = Runs /\ Turns \subseteq Runs
    BY RunNumbers DEF AInv, TypeOK
  <2>2. CASE \E l \in Working : Goto(r, l)
    BY <2>1, <2>2 DEF Goto, Busy
  <2>3. CASE r \in Turns /\ Goto(r, "abandoned")
    BY <2>1, <2>3 DEF Goto, Busy
  <2>4. CASE typing' = typing /\ pc[r] = "new" /\ Goto(r, "enqueued")
    <3>1. \A i \in Runs : pc[i] # "new" => pc'[i] = pc[i]
      BY <2>1, <2>4 DEF Goto
    <3> QED
      BY <2>1, <2>4, <3>1 DEF TypingInv, Busy, Working
  <2> QED
    BY <1>1, <2>2, <2>3, <2>4, RunTyping
<1>2. ASSUME typing' = typing, pc' = pc PROVE Busy'
  BY <1>2 DEF TypingInv, Busy
<1>3. ASSUME NEW k \in Answers, HandleApproved(k) PROVE Busy'
  <2>1. /\ typing' = typing
        /\ pc' = [pc EXCEPT ![MaxTurns + k] = "enqueued"]
        /\ answer[k] # "done"
    BY <1>3 DEF HandleApproved, session, Goto
  <2>2. pc[MaxTurns + k] = "none"
    BY <2>1 DEF AInv, Resumed
  <2>3. \A i \in Runs : pc[i] # "none" => pc'[i] = pc[i]
    BY <2>1, <2>2 DEF AInv, TypeOK
  <2> QED
    BY <2>1, <2>3, RunNumbers DEF TypingInv, Busy, Working
<1>4. ASSUME NEW k \in Answers, HandleRejected(k) PROVE FALSE
  BY <1>4 DEF HandleRejected, AddAssistantMessage
<1>5. ASSUME NEW r \in Runs, Expire(r) PROVE Busy'
  BY <1>2, <1>5 DEF Expire, runs, session
<1>6. ASSUME NEW k \in Answers, NEW a \in Runs, NEW approved \in BOOLEAN,
             ReadApproval(k, a, approved) \/ Resolve(k)
      PROVE  Busy'
  BY <1>2, <1>6 DEF ReadApproval, Resolve, runs, session
<1>7. CASE UNCHANGED vars
  BY <1>2, <1>7 DEF vars, runs, session
<1>8. CASE \E k \in Answers, a \in Runs, approved \in BOOLEAN :
              ReadApproval(k, a, approved)
  BY <1>6, <1>8
<1>9. CASE \E k \in Answers : Resolve(k) \/ HandleApproved(k) \/ HandleRejected(k)
  <2> PICK k \in Answers : Resolve(k) \/ HandleApproved(k) \/ HandleRejected(k)
    BY <1>9
  <2>1. CASE Resolve(k)
    BY <1>2, <2>1 DEF Resolve, runs, session
  <2> QED
    BY <2>1, <1>3, <1>4
<1> QED
  BY <1>1, <1>5, <1>7, <1>8, <1>9 DEF Next

(* When nothing works on the session it does not show as typing, unless a  *)
(* channel request was abandoned.                                          *)
THEOREM TypingEnds == Spec => []TypingStops
<1>1. Init => TypingInv
  BY DEF Init, TypingInv
<1>2. Spec => []TypingInv
  BY <1>1, TypingStep, AnswersInvariance, PTL DEF Spec
<1>3. Resting \intersect Working = {}
  BY DEF Resting, Working
<1>4. TypingInv => TypingStops
  BY <1>3 DEF TypingInv, Busy, TypingStops
<1> QED
  BY <1>2, <1>4, PTL
=============================================================================
