----------------------------- MODULE JobQueueProofs -----------------------------
(***************************************************************************)
(* Proofs about JobQueue for every number of jobs, workers and restarts,   *)
(* every channel capacity, and every number of records the store keeps.    *)
(*                                                                         *)
(* The inductive invariant adds: what a job that does not exist yet looks  *)
(* like (Born), that the channel holds each queued closure once (Queued),  *)
(* how far the closure's copy is at each point of its work (Progress),     *)
(* that the stored record is the closure's unless a cancel was answered    *)
(* (Recorded), and that an answered cancel is still marked as long as the  *)
(* closure can look at the mark (Marked).                                  *)
(***************************************************************************)
EXTENDS JobQueue, FiniteSetTheorems, SequenceTheorems, TLAPS

Waiting == {"validating", "sending", "queued", "received", "starting"}

Born ==
    /\ \A j \in Jobs : work[j] = "none" <=> created < j
    /\ \A j \in Jobs : j <= created => request[j] \in Requests
    /\ \A j \in Jobs : created < j => /\ record[j] = "queued"
                                      /\ outcome[j] = "queued"
                                      /\ position[j] = 0
                                      /\ failures[j] = 0
                                      /\ j \notin answered
                                      /\ canceller[j] = "none"

Queued ==
    /\ \A i \in 1 .. Len(jobQueue) : work[jobQueue[i]] = "queued"
    /\ \A i, k \in 1 .. Len(jobQueue) : jobQueue[i] = jobQueue[k] => i = k

Progress ==
    \A j \in Jobs :
        /\ work[j] \in Waiting =>
              outcome[j] = "queued" /\ position[j] = 0 /\ failures[j] = 0
        /\ work[j] \in {"looping", "item"} => outcome[j] = "running"
        /\ failures[j] <= position[j]
        /\ j <= created /\ Direct(j) => position[j] <= request[j].size
        /\ work[j] = "item" => position[j] < Loop(j)
        /\ work[j] = "validating" => ~ Direct(j)

Recorded ==
    \A j \in Jobs :
        Kept(j) /\ work[j] # "lost" =>
            record[j] = outcome[j] \/ (record[j] = "cancelled" /\ j \in answered)

Marked ==
    /\ \A j \in Jobs : canceller[j] = "marked" => j \in jobCancel
    /\ \A j \in answered : ~ Idle(j) => j \in jobCancel
    /\ \A j \in answered :
          Kept(j) /\ work[j] \in {"validating", "sending", "queued", "received"} =>
              record[j] = "cancelled"

IInv == /\ TypeOK
        /\ idle \in Nat
        /\ Born
        /\ Queued
        /\ Progress
        /\ Recorded
        /\ Marked
        /\ CompletedMeansDone
        /\ CancelStands

Busy == {j \in Jobs : AtWork(j)}

-----------------------------------------------------------------------------
LEMMA BusyFinite == IsFiniteSet(Busy)
<1>1. IsFiniteSet(1 .. MaxJobs)
  BY BoundAssumption, FS_Interval
<1> QED
  BY <1>1, FS_Subset DEF Busy, Jobs

LEMMA SameBusy ==
    ASSUME \A j \in Jobs : AtWork(j)' = AtWork(j)
    PROVE  Busy' = Busy
BY DEF Busy

LEMMA OneMoreBusy ==
    ASSUME NEW j \in Jobs, ~ AtWork(j), AtWork(j)',
           \A i \in Jobs \ {j} : AtWork(i)' = AtWork(i)
    PROVE  Cardinality(Busy') = Cardinality(Busy) + 1
<1>1. Busy' = Busy \union {j} /\ j \notin Busy
  BY DEF Busy
<1> QED
  BY <1>1, BusyFinite, FS_AddElement

LEMMA OneLessBusy ==
    ASSUME NEW j \in Jobs, AtWork(j), ~ AtWork(j)',
           \A i \in Jobs \ {j} : AtWork(i)' = AtWork(i)
    PROVE  Cardinality(Busy') = Cardinality(Busy) - 1
<1>1. Busy' = Busy \ {j} /\ j \in Busy
  BY DEF Busy
<1>2. Cardinality(Busy \ {j}) = Cardinality(Busy) - 1
  BY <1>1, BusyFinite, FS_RemoveElement
<1> QED
  BY <1>1, <1>2

(* UpdateJob changes the record of one job, and of that one when the store *)
(* still has it.                                                           *)
LEMMA UpdateOne ==
    ASSUME TypeOK, NEW j \in Jobs, NEW s \in Statuses, UpdateJob(j, s)
    PROVE  /\ record' \in [Jobs -> Statuses]
           /\ \A i \in Jobs \ {j} : record'[i] = record[i]
           /\ record'[j] \in {record[j], s}
           /\ Kept(j) => record'[j] = s
BY DEF UpdateJob, TypeOK

LEMMA SizesNat ==
    ASSUME TypeOK, NEW j \in Jobs
    PROVE  request[j].size \in Nat /\ Loop(j) \in Nat
<1>1. CASE request[j] \in Requests
  <2>1. request[j].size \in Sizes
    BY <1>1 DEF Requests
  <2> QED
    BY <2>1, BoundAssumption DEF Loop
<1>2. CASE request[j] = [kind |-> "move", size |-> 0, retryOf |-> NoJob]
  BY <1>2 DEF Loop
<1> QED
  BY <1>1, <1>2 DEF TypeOK

(* The types that most steps need.                                         *)
Typed == /\ created \in Nat
         /\ work \in [Jobs -> {"none", "validating", "sending", "queued",
                               "received", "starting", "looping", "item",
                               "ended", "lost"}]
         /\ record \in [Jobs -> Statuses]
         /\ outcome \in [Jobs -> Statuses]
         /\ position \in [Jobs -> Nat]
         /\ failures \in [Jobs -> Nat]

LEMMA TypesHold == ASSUME TypeOK PROVE Typed
BY BoundAssumption DEF TypeOK, Typed, Statuses

LEMMA ResultStatus == ASSUME NEW j PROVE Result(j) \in {"queued", "failed", "completed"}
BY DEF Result

-----------------------------------------------------------------------------
LEMMA InitIInv == ASSUME Init PROVE IInv
<1>1. TypeOK
  <2>1. Busy = {}
    BY DEF Init, Busy, AtWork
  <2>2. Cardinality({j \in Jobs : AtWork(j)}) = 0
    BY <2>1, FS_EmptySet DEF Busy
  <2>3. created \in 0 .. MaxJobs /\ restarts \in 0 .. MaxRestarts
    BY BoundAssumption DEF Init
  <2>4. jobQueue \in Seq(Jobs) /\ Len(jobQueue) <= QueueCapacity
    BY QueueAssumption DEF Init
  <2> QED
    BY <2>2, <2>3, <2>4, QueueAssumption DEF Init, TypeOK, Statuses
<1>2. Born
  BY <1>1 DEF Init, Born, TypeOK, Jobs
<1>3. Queued
  BY DEF Init, Queued
<1>4. Progress /\ Recorded /\ Marked
  BY DEF Init, Progress, Recorded, Marked, Waiting, Kept, Jobs
<1>5. CompletedMeansDone /\ CancelStands
  BY DEF Init, CompletedMeansDone, CancelStands
<1> QED
  BY <1>1, <1>2, <1>3, <1>4, <1>5, QueueAssumption DEF IInv, Init

-----------------------------------------------------------------------------
(* The closure.                                                            *)
LEMMA BeginStep ==
    ASSUME IInv, NEW j \in Jobs, Begin(j)
    PROVE  IInv'
<1> USE DEF IInv, progress, channel, cancels
<1>1. TypeOK' /\ idle' \in Nat
  <2>1. CASE work' = [work EXCEPT ![j] = "ended"]
    <3>1. AtWork(j) /\ ~ AtWork(j)' /\ \A i \in Jobs \ {j} : AtWork(i)' = AtWork(i)
      BY <2>1 DEF Begin, AtWork, TypeOK
    <3>2. Cardinality(Busy') = Cardinality(Busy) - 1
      BY <3>1, OneLessBusy
    <3>3. idle' = idle + 1 /\ Cardinality(Busy) \in Nat
      BY <2>1, BusyFinite, FS_CardinalityType DEF Begin, TypeOK
    <3>4. idle' + Cardinality(Busy') = Workers
      BY <3>2, <3>3 DEF TypeOK, Busy
    <3> QED
      BY <2>1, <3>3, <3>4 DEF Begin, TypeOK, Busy
  <2>2. CASE work' = [work EXCEPT ![j] = "starting"] /\ UNCHANGED idle
    <3>1. Busy' = Busy
      BY <2>2, SameBusy DEF Begin, AtWork, TypeOK
    <3> QED
      BY <2>2, <3>1 DEF Begin, TypeOK, Busy
  <2> QED
    BY <2>1, <2>2 DEF Begin
<1>2. Born' /\ Queued'
  BY SMTT(30) DEF Begin, Born, Queued, TypeOK
<1>3. Progress'
  BY DEF Begin, Progress, Waiting, Direct, Loop, TypeOK
<1>4. Recorded' /\ CompletedMeansDone'
  BY DEF Begin, Recorded, CompletedMeansDone, Kept, Direct, TypeOK
<1>5. Marked'
  BY DEF Begin, Marked, Kept, Direct, Idle, TypeOK
<1>6. CancelStands'
  BY DEF Begin, CancelStands, Marked, Kept, Direct, TypeOK
<1> QED
  BY <1>1, <1>2, <1>3, <1>4, <1>5, <1>6

LEMMA MarkRunningStep ==
    ASSUME IInv, NEW j \in Jobs, MarkRunning(j)
    PROVE  IInv'
<1> USE DEF IInv, progress, channel, cancels
<1>0. /\ record' \in [Jobs -> Statuses]
      /\ \A i \in Jobs \ {j} : record'[i] = record[i]
      /\ Kept(j) => record'[j] = "running"
      /\ record'[j] \in {record[j], "running"}
  BY UpdateOne DEF MarkRunning, Statuses
<1>1. TypeOK' /\ idle' \in Nat
  <2>1. Busy' = Busy
    BY SameBusy DEF MarkRunning, AtWork, TypeOK
  <2> QED
    BY <1>0, <2>1 DEF MarkRunning, TypeOK, Busy, Statuses
<1>2. Born' /\ Queued'
  BY <1>0 DEF MarkRunning, Born, Queued, TypeOK, Kept, Jobs
<1>3. Progress'
  BY DEF MarkRunning, Progress, Waiting, Direct, Loop, TypeOK
<1>4. Recorded' /\ CompletedMeansDone'
  BY <1>0 DEF MarkRunning, Recorded, CompletedMeansDone, Kept, Direct, TypeOK
<1>5. Marked'
  BY <1>0 DEF MarkRunning, Marked, Kept, Direct, Idle, TypeOK
<1>6. CancelStands'
  BY <1>0 DEF MarkRunning, CancelStands, Kept, Direct, TypeOK
<1> QED
  BY <1>1, <1>2, <1>3, <1>4, <1>5, <1>6

LEMMA NextItemStep ==
    ASSUME IInv, NEW j \in Jobs, NextItem(j)
    PROVE  IInv'
<1> USE DEF IInv, progress, channel, cancels
<1>1. TypeOK' /\ idle' \in Nat
  <2>1. Busy' = Busy
    BY SameBusy DEF NextItem, AtWork, TypeOK
  <2> QED
    BY <2>1 DEF NextItem, TypeOK, Busy, Statuses
<1>2. Born' /\ Queued'
  BY DEF NextItem, Born, Queued, TypeOK, Kept, Jobs
<1>3. Progress'
  BY DEF NextItem, Progress, Waiting, Direct, Loop, TypeOK
<1>4. Recorded' /\ CompletedMeansDone'
  BY DEF NextItem, Recorded, Progress, CompletedMeansDone, Kept, Direct, Loop, TypeOK
<1>5. Marked'
  BY DEF NextItem, Marked, Kept, Direct, Idle, TypeOK
<1>6. CancelStands'
  BY DEF NextItem, CancelStands, Progress, Marked, Kept, Direct, Loop, TypeOK
<1> QED
  BY <1>1, <1>2, <1>3, <1>4, <1>5, <1>6

LEMMA StopStep ==
    ASSUME IInv, NEW j \in Jobs, Stop(j)
    PROVE  IInv'
<1> USE DEF IInv, progress, channel, cancels
<1>0. /\ record' \in [Jobs -> Statuses]
      /\ \A i \in Jobs \ {j} : record'[i] = record[i]
      /\ Kept(j) => record'[j] = "cancelled"
      /\ record'[j] \in {record[j], "cancelled"}
  BY UpdateOne DEF Stop, Statuses
<1>1. TypeOK' /\ idle' \in Nat
  <2>1. AtWork(j) /\ ~ AtWork(j)' /\ \A i \in Jobs \ {j} : AtWork(i)' = AtWork(i)
    BY DEF Stop, AtWork, TypeOK
  <2>2. Cardinality(Busy') = Cardinality(Busy) - 1
    BY <2>1, OneLessBusy
  <2>3. idle' = idle + 1 /\ Cardinality(Busy) \in Nat
    BY BusyFinite, FS_CardinalityType DEF Stop
  <2>4. idle' + Cardinality(Busy') = Workers
    BY <2>2, <2>3 DEF TypeOK, Busy
  <2>5. /\ outcome' \in [Jobs -> Statuses]
        /\ UNCHANGED <<created, request, decoded, position, failures, jobQueue,
                       jobCancel, canceller, answered, restarts>>
        /\ work' = [work EXCEPT ![j] = "ended"]
    BY ResultStatus DEF Stop, TypeOK, Statuses
  <2> QED
    BY <1>0, <2>3, <2>4, <2>5 DEF TypeOK, Busy
<1>2. Born' /\ Queued'
  BY <1>0 DEF Stop, Born, Queued, TypeOK, Kept, Jobs
<1>3. Progress'
  BY <1>0 DEF Stop, Progress, Waiting, Direct, Loop, TypeOK
<1>4. Recorded' /\ CompletedMeansDone'
  BY SMTT(30), <1>0 DEF Stop, Recorded, Progress, CompletedMeansDone, Kept, Direct, Loop, TypeOK
<1>5. Marked'
  BY <1>0 DEF Stop, Marked, Kept, Direct, Idle, TypeOK
<1>6. CancelStands'
  BY <1>0 DEF Stop, CancelStands, Progress, Marked, Kept, Direct, Loop, TypeOK
<1> QED
  BY <1>1, <1>2, <1>3, <1>4, <1>5, <1>6

LEMMA ProcessStep ==
    ASSUME IInv, NEW j \in Jobs, Process(j)
    PROVE  IInv'
<1> USE DEF IInv, progress, channel, cancels
<1>0. /\ position' = [position EXCEPT ![j] = position[j] + 1]
      /\ failures' \in [Jobs -> Nat]
      /\ \A i \in Jobs \ {j} : failures'[i] = failures[i]
      /\ failures'[j] <= failures[j] + 1
  <2>1. CASE UNCHANGED failures
    BY <2>1, TypesHold DEF Process, Typed
  <2>2. CASE failures' = [failures EXCEPT ![j] = @ + 1]
    BY <2>2, TypesHold DEF Process, Typed
  <2> QED
    BY <2>1, <2>2 DEF Process
<1>a. Loop(j) \in Nat /\ position[j] < Loop(j) /\ (Direct(j) => Loop(j) = request[j].size)
  BY SizesNat DEF Process, Progress, Loop
<1>1. TypeOK' /\ idle' \in Nat
  <2>1. Busy' = Busy
    BY SameBusy DEF Process, AtWork, TypeOK
  <2>2. /\ position' \in [Jobs -> Nat]
        /\ work' = [work EXCEPT ![j] = "looping"]
        /\ UNCHANGED <<created, request, decoded, record, outcome, jobQueue,
                       idle, jobCancel, canceller, answered, restarts>>
    BY <1>0, TypesHold DEF Process, Typed
  <2> QED
    BY <1>0, <2>1, <2>2 DEF TypeOK, Busy
<1>2. Born' /\ Queued'
  BY <1>0 DEF Process, Born, Queued, TypeOK, Kept, Jobs
<1>3. Progress'
  BY <1>0, <1>a, TypesHold DEF Process, Progress, Waiting, Direct, Loop, Typed
<1>b. Recorded'
  BY DEF Process, Recorded, Kept, TypeOK
<1>4. CompletedMeansDone'
  <2>1. /\ \A i \in Jobs : Kept(i)' = Kept(i) /\ Direct(i)' = Direct(i)
        /\ UNCHANGED <<record, request>>
    BY DEF Process, Kept, Direct
  <2>2. Kept(j) => record[j] # "completed"
    BY DEF Process, Recorded, Progress
  <2>3. \A i \in Jobs \ {j} : position'[i] = position[i] /\ failures'[i] = failures[i]
    BY <1>0 DEF TypeOK
  <2> QED
    BY <2>1, <2>2, <2>3 DEF CompletedMeansDone, Kept, Direct
<1>5. Marked'
  BY DEF Process, Marked, Kept, Direct, Idle, TypeOK
<1>6. CancelStands'
  BY SMTT(30), <1>0, <1>a DEF Process, CancelStands, Progress, Marked, Kept, Direct, Loop, TypeOK
<1> QED
  BY <1>1, <1>2, <1>3, <1>4, <1>5, <1>6, <1>b

LEMMA FinishStep ==
    ASSUME IInv, NEW j \in Jobs, Finish(j)
    PROVE  IInv'
<1> USE DEF IInv, progress, channel, cancels
<1>0. /\ record' \in [Jobs -> Statuses]
      /\ \A i \in Jobs \ {j} : record'[i] = record[i]
      /\ Kept(j) => record'[j] = Result(j)
      /\ record'[j] \in {record[j], Result(j)}
  BY ResultStatus, UpdateOne DEF Finish, Statuses
<1>a. Loop(j) \in Nat /\ position[j] = Loop(j) /\ (Direct(j) => Loop(j) = request[j].size)
  BY SizesNat DEF Finish, Loop
<1>b. Result(j) = "completed" /\ Loop(j) > 0 => failures[j] < Loop(j)
  BY <1>a, TypesHold DEF Result, Progress, Typed
<1>c. Recorded'
  BY <1>0, TypesHold DEF Finish, Recorded, Kept, Typed
<1>1. TypeOK' /\ idle' \in Nat
  <2>1. AtWork(j) /\ ~ AtWork(j)' /\ \A i \in Jobs \ {j} : AtWork(i)' = AtWork(i)
    BY DEF Finish, AtWork, TypeOK
  <2>2. Cardinality(Busy') = Cardinality(Busy) - 1
    BY <2>1, OneLessBusy
  <2>3. idle' = idle + 1 /\ Cardinality(Busy) \in Nat
    BY BusyFinite, FS_CardinalityType DEF Finish
  <2>4. idle' + Cardinality(Busy') = Workers
    BY <2>2, <2>3 DEF TypeOK, Busy
  <2>5. /\ outcome' \in [Jobs -> Statuses]
        /\ UNCHANGED <<created, request, decoded, position, failures, jobQueue,
                       jobCancel, canceller, answered, restarts>>
        /\ work' = [work EXCEPT ![j] = "ended"]
    BY ResultStatus DEF Finish, TypeOK, Statuses
  <2> QED
    BY <1>0, <2>3, <2>4, <2>5 DEF TypeOK, Busy
<1>2. Born' /\ Queued'
  BY <1>0 DEF Finish, Born, Queued, TypeOK, Kept, Jobs
<1>3. Progress'
  BY <1>0 DEF Finish, Progress, Waiting, Direct, Loop, TypeOK
<1>4. CompletedMeansDone'
  BY <1>0, <1>a, <1>b, TypesHold DEF Finish, CompletedMeansDone, Kept, Direct, Typed
<1>5. Marked'
  BY <1>0 DEF Finish, Marked, Kept, Direct, Idle, TypeOK
<1>6. CancelStands'
  BY <1>0 DEF Finish, CancelStands, Progress, Marked, Kept, Direct, Loop, TypeOK
<1> QED
  BY <1>1, <1>2, <1>3, <1>4, <1>5, <1>6, <1>c

LEMMA CancelReadStep ==
    ASSUME IInv, NEW j \in Jobs, CancelRead(j)
    PROVE  IInv'
<1> USE DEF IInv, progress, channel, cancels
<1>1. TypeOK' /\ idle' \in Nat
  <2>1. Busy' = Busy
    BY SameBusy DEF CancelRead, AtWork, TypeOK
  <2> QED
    BY <2>1 DEF CancelRead, TypeOK, Busy, Statuses
<1>2. Born' /\ Queued'
  BY DEF CancelRead, Born, Queued, TypeOK, Kept, Jobs
<1>3. Progress'
  BY DEF CancelRead, Progress, Waiting, Direct, Loop, TypeOK
<1>4. Recorded' /\ CompletedMeansDone'
  BY DEF CancelRead, Recorded, Progress, CompletedMeansDone, Kept, Direct, Loop, TypeOK
<1>5. Marked'
  BY DEF CancelRead, Marked, Kept, Direct, Idle, TypeOK
<1>6. CancelStands'
  BY DEF CancelRead, CancelStands, Progress, Marked, Kept, Direct, Loop, TypeOK
<1> QED
  BY <1>1, <1>2, <1>3, <1>4, <1>5, <1>6

LEMMA CancelMarkStep ==
    ASSUME IInv, NEW j \in Jobs, CancelMark(j)
    PROVE  IInv'
<1> USE DEF IInv, progress, channel, cancels
<1>1. TypeOK' /\ idle' \in Nat
  <2>1. Busy' = Busy
    BY SameBusy DEF CancelMark, AtWork, TypeOK
  <2> QED
    BY <2>1 DEF CancelMark, TypeOK, Busy, Statuses
<1>2. Born' /\ Queued'
  BY DEF CancelMark, Born, Queued, TypeOK, Kept, Jobs
<1>3. Progress'
  BY DEF CancelMark, Progress, Waiting, Direct, Loop, TypeOK
<1>4. Recorded' /\ CompletedMeansDone'
  BY DEF CancelMark, Recorded, Progress, CompletedMeansDone, Kept, Direct, Loop, TypeOK
<1>5. Marked'
  BY DEF CancelMark, Marked, Kept, Direct, Idle, TypeOK
<1>6. CancelStands'
  BY DEF CancelMark, CancelStands, Progress, Marked, Kept, Direct, Loop, TypeOK
<1> QED
  BY <1>1, <1>2, <1>3, <1>4, <1>5, <1>6

LEMMA CancelWriteStep ==
    ASSUME IInv, NEW j \in Jobs, CancelWrite(j)
    PROVE  IInv'
<1> USE DEF IInv, progress, channel, cancels
<1>0. /\ record' \in [Jobs -> Statuses]
      /\ \A i \in Jobs \ {j} : record'[i] = record[i]
      /\ Kept(j) => record'[j] = "cancelled"
      /\ record'[j] \in {record[j], "cancelled"}
  BY UpdateOne DEF CancelWrite, Statuses
<1>1. TypeOK' /\ idle' \in Nat
  <2>1. Busy' = Busy
    BY SameBusy DEF CancelWrite, AtWork, TypeOK
  <2> QED
    BY <1>0, <2>1 DEF CancelWrite, TypeOK, Busy, Statuses
<1>2. Born' /\ Queued'
  BY <1>0 DEF CancelWrite, Born, Queued, TypeOK, Kept, Jobs
<1>3. Progress'
  BY <1>0 DEF CancelWrite, Progress, Waiting, Direct, Loop, TypeOK
<1>4. Recorded' /\ CompletedMeansDone'
  BY <1>0 DEF CancelWrite, Recorded, Progress, CompletedMeansDone, Kept, Direct, Loop, TypeOK
<1>5. Marked'
  BY <1>0 DEF CancelWrite, Marked, Kept, Direct, Idle, TypeOK
<1>6. CancelStands'
  BY <1>0 DEF CancelWrite, CancelStands, Progress, Marked, Kept, Direct, Loop, TypeOK
<1> QED
  BY <1>1, <1>2, <1>3, <1>4, <1>5, <1>6

-----------------------------------------------------------------------------
(* The handlers, the channel and the restart.                              *)
LEMMA ValidateStep ==
    ASSUME IInv, NEW j \in Jobs, Validate(j)
    PROVE  IInv'
<1> USE DEF IInv, progress, channel, cancels
<1>a. CASE work' = [work EXCEPT ![j] = "sending"] /\ UNCHANGED <<record, outcome>>
  <2>1. TypeOK' /\ idle' \in Nat
    <3>1. Busy' = Busy
      BY <1>a, SameBusy DEF Validate, AtWork, TypeOK
    <3> QED
      BY <1>a, <3>1 DEF Validate, TypeOK, Busy
  <2>2. Born' /\ Queued'
    BY <1>a DEF Validate, Born, Queued, TypeOK
  <2>3. Progress'
    BY <1>a DEF Validate, Progress, Waiting, Direct, Loop, TypeOK
  <2>4. Recorded' /\ CompletedMeansDone' /\ CancelStands'
    BY <1>a DEF Validate, Recorded, CompletedMeansDone, CancelStands, Kept, Direct, TypeOK
  <2>5. Marked'
    BY <1>a DEF Validate, Marked, Progress, Recorded, Waiting, Kept, Idle, TypeOK
  <2> QED
    BY <2>1, <2>2, <2>3, <2>4, <2>5
<1>b. CASE /\ UpdateJob(j, "failed")
           /\ outcome' = [outcome EXCEPT ![j] = "failed"]
           /\ work' = [work EXCEPT ![j] = "ended"]
  <2>0. /\ record' \in [Jobs -> Statuses]
        /\ \A i \in Jobs \ {j} : record'[i] = record[i]
        /\ Kept(j) => record'[j] = "failed"
        /\ record'[j] \in {record[j], "failed"}
    BY <1>b, UpdateOne DEF Statuses
  <2>1. TypeOK' /\ idle' \in Nat
    <3>1. Busy' = Busy
      BY <1>b, SameBusy DEF Validate, AtWork, TypeOK
    <3> QED
      BY <1>b, <2>0, <3>1 DEF Validate, TypeOK, Busy, Statuses
  <2>2. Born' /\ Queued'
    BY <1>b, <2>0 DEF Validate, Born, Queued, TypeOK, Kept, Jobs
  <2>3. Progress'
    BY <1>b DEF Validate, Progress, Waiting, Direct, Loop, TypeOK
  <2>4. Recorded' /\ CompletedMeansDone'
    BY <1>b, <2>0 DEF Validate, Recorded, CompletedMeansDone, Kept, Direct, TypeOK
  <2>5. Marked' /\ CancelStands'
    BY <1>b, <2>0 DEF Validate, Marked, Progress, CancelStands, Kept, Direct, Idle, TypeOK
  <2> QED
    BY <2>1, <2>2, <2>3, <2>4, <2>5
<1> QED
  BY <1>a, <1>b DEF Validate

LEMMA SendStep ==
    ASSUME IInv, NEW j \in Jobs, Send(j)
    PROVE  IInv'
<1> USE DEF IInv, progress, channel, cancels
<1>1. TypeOK' /\ idle' \in Nat
  <2>1. Busy' = Busy
    BY SameBusy DEF Send, AtWork, TypeOK
  <2>2. jobQueue' \in Seq(Jobs) /\ Len(jobQueue') <= QueueCapacity
    BY QueueAssumption DEF Send, TypeOK
  <2> QED
    BY <2>1, <2>2 DEF Send, TypeOK, Busy
<1>2. Queued'
  <2>1. /\ Len(jobQueue') = Len(jobQueue) + 1
        /\ \A i \in 1 .. Len(jobQueue) : jobQueue'[i] = jobQueue[i]
        /\ jobQueue'[Len(jobQueue) + 1] = j
    BY DEF Send, TypeOK
  <2>2. \A i \in 1 .. Len(jobQueue) : jobQueue[i] \in Jobs /\ jobQueue[i] # j
    BY DEF Send, Queued, TypeOK
  <2>3. /\ Len(jobQueue) \in Nat
        /\ \A i \in 1 .. Len(jobQueue') : i \in 1 .. Len(jobQueue) \/ i = Len(jobQueue) + 1
    BY <2>1 DEF TypeOK
  <2>4. work' = [work EXCEPT ![j] = "queued"] /\ work'[j] = "queued"
    BY DEF Send, TypeOK
  <2>5. ASSUME NEW i \in 1 .. Len(jobQueue')
        PROVE  work'[jobQueue'[i]] = "queued"
    <3>1. CASE i \in 1 .. Len(jobQueue)
      <4>1. jobQueue'[i] = jobQueue[i] /\ jobQueue[i] \in Jobs /\ jobQueue[i] # j
        BY <2>1, <2>2, <3>1
      <4>2. work[jobQueue[i]] = "queued"
        BY <3>1 DEF Queued
      <4> QED
        BY <2>4, <4>1, <4>2 DEF TypeOK
    <3>2. CASE i = Len(jobQueue) + 1
      BY <2>1, <2>4, <3>2
    <3> QED
      BY <2>3, <3>1, <3>2
  <2>6. ASSUME NEW i \in 1 .. Len(jobQueue'), NEW k \in 1 .. Len(jobQueue'),
               jobQueue'[i] = jobQueue'[k]
        PROVE  i = k
    <3>1. CASE i \in 1 .. Len(jobQueue) /\ k \in 1 .. Len(jobQueue)
      BY <2>1, <2>6, <3>1 DEF Queued
    <3>2. CASE i = Len(jobQueue) + 1 \/ k = Len(jobQueue) + 1
      BY <2>1, <2>2, <2>3, <2>6, <3>2
    <3> QED
      BY <2>3, <3>1, <3>2
  <2> QED
    BY <2>5, <2>6 DEF Queued
<1>3. Born' /\ Progress'
  BY DEF Send, Born, Progress, Waiting, Direct, Loop, TypeOK
<1>4. Recorded' /\ CompletedMeansDone' /\ CancelStands'
  BY DEF Send, Recorded, CompletedMeansDone, CancelStands, Kept, Direct, TypeOK
<1>5. Marked'
  BY DEF Send, Marked, Kept, Idle, TypeOK
<1> QED
  BY <1>1, <1>2, <1>3, <1>4, <1>5

LEMMA ReceiveStep ==
    ASSUME IInv, NEW j \in Jobs, Receive, j = Head(jobQueue)
    PROVE  IInv'
<1> USE DEF IInv, progress, channel, cancels
<1>0. /\ jobQueue \in Seq(Jobs) /\ jobQueue # <<>>
      /\ j = jobQueue[1] /\ work[j] = "queued"
      /\ Len(jobQueue') = Len(jobQueue) - 1
      /\ Len(jobQueue) \in Nat \ {0}
      /\ \A i \in 1 .. Len(jobQueue') : jobQueue'[i] = jobQueue[i + 1]
      /\ jobQueue' \in Seq(Jobs)
  BY DEF Receive, TypeOK, Queued
<1>a. work' = [work EXCEPT ![j] = "received"]
  BY DEF Receive
<1>1. TypeOK' /\ idle' \in Nat
  <2>1. ~ AtWork(j) /\ AtWork(j)' /\ \A i \in Jobs \ {j} : AtWork(i)' = AtWork(i)
    BY <1>0, <1>a DEF AtWork, TypeOK
  <2>2. Cardinality(Busy') = Cardinality(Busy) + 1
    BY <1>0, <2>1, OneMoreBusy
  <2>3. /\ idle' = idle - 1 /\ idle' \in Nat
        /\ Cardinality(Busy) \in Nat
    BY BusyFinite, FS_CardinalityType DEF Receive
  <2>4. idle' + Cardinality(Busy') = Workers
    BY <2>2, <2>3 DEF TypeOK, Busy
  <2>5. /\ UNCHANGED <<created, request, decoded, record, outcome, position,
                       failures, jobCancel, canceller, answered, restarts>>
        /\ Len(jobQueue') <= QueueCapacity
    BY <1>0, QueueAssumption DEF Receive, TypeOK
  <2> QED
    BY <1>0, <1>a, <2>3, <2>4, <2>5 DEF TypeOK, Busy
<1>2. Queued'
  <2>1. \A i \in 1 .. Len(jobQueue') :
           i + 1 \in 1 .. Len(jobQueue) /\ jobQueue'[i] # j
    <3> SUFFICES ASSUME NEW i \in 1 .. Len(jobQueue')
                 PROVE  i + 1 \in 1 .. Len(jobQueue) /\ jobQueue'[i] # j
      OBVIOUS
    <3>1. /\ i \in Nat \ {0} /\ i + 1 \in 1 .. Len(jobQueue)
          /\ 1 \in 1 .. Len(jobQueue) /\ i + 1 # 1
      BY <1>0
    <3>2. jobQueue[i + 1] # jobQueue[1]
      BY <3>1 DEF Queued
    <3> QED
      BY <1>0, <3>1, <3>2
  <2>2. ASSUME NEW i \in 1 .. Len(jobQueue')
        PROVE  work'[jobQueue'[i]] = "queued"
    <3>1. i + 1 \in 1 .. Len(jobQueue) /\ jobQueue[i + 1] # j
      BY <1>0, <2>1
    <3>2. work[jobQueue[i + 1]] = "queued" /\ jobQueue[i + 1] \in Jobs
      BY <1>0, <3>1 DEF Queued
    <3> QED
      BY <1>0, <1>a, <3>1, <3>2 DEF TypeOK
  <2>3. ASSUME NEW i \in 1 .. Len(jobQueue'), NEW k \in 1 .. Len(jobQueue'),
               jobQueue'[i] = jobQueue'[k]
        PROVE  i = k
    <3>1. i + 1 \in 1 .. Len(jobQueue) /\ k + 1 \in 1 .. Len(jobQueue)
      BY <2>1
    <3>2. jobQueue[i + 1] = jobQueue[k + 1]
      BY <1>0, <2>3
    <3>3. i + 1 = k + 1
      BY <3>1, <3>2 DEF Queued
    <3> QED
      BY <3>3
  <2> QED
    BY <2>2, <2>3 DEF Queued
<1>3. Born' /\ Progress'
  BY <1>0, <1>a DEF Receive, Born, Progress, Waiting, Direct, Loop, TypeOK
<1>4. Recorded' /\ CompletedMeansDone' /\ CancelStands'
  BY <1>0, <1>a DEF Receive, Recorded, CompletedMeansDone, CancelStands, Kept, Direct, TypeOK
<1>5. Marked'
  BY <1>0, <1>a DEF Receive, Marked, Kept, Idle, TypeOK
<1> QED
  BY <1>1, <1>2, <1>3, <1>4, <1>5

LEMMA RestartStep ==
    ASSUME IInv, Restart
    PROVE  IInv'
<1> USE DEF IInv, progress, channel, cancels
<1>1. TypeOK' /\ idle' \in Nat
  <2>1. Busy' = {}
    BY DEF Restart, Busy, AtWork, Idle, TypeOK
  <2>2. Cardinality(Busy') = 0
    BY <2>1, FS_EmptySet
  <2>3. restarts' \in 0 .. MaxRestarts
    BY BoundAssumption DEF Restart, TypeOK
  <2>4. jobQueue' \in Seq(Jobs) /\ Len(jobQueue') <= QueueCapacity
    BY QueueAssumption DEF Restart
  <2> QED
    BY <2>2, <2>3, <2>4, QueueAssumption DEF Restart, TypeOK, Busy
<1>2. Born' /\ Queued'
  BY DEF Restart, Born, Queued, Idle, TypeOK, Jobs
<1>3. Progress'
  BY DEF Restart, Progress, Waiting, Idle, Direct, Loop, TypeOK
<1>4. Recorded' /\ CompletedMeansDone' /\ CancelStands'
  BY DEF Restart, Recorded, CompletedMeansDone, CancelStands, Kept, Direct, Idle, TypeOK
<1>5. Marked'
  BY DEF Restart, Marked, Kept, Idle, TypeOK
<1> QED
  BY <1>1, <1>2, <1>3, <1>4, <1>5
(* A new job: its record joins the store and another may fall out of it.   *)
LEMMA NewJobStep ==
    ASSUME IInv, NEW j \in Jobs, NEW r \in Requests,
           NEW w \in {"sending", "validating"},
           w = "validating" => r.retryOf # NoJob,
           j = created + 1, created' = j,
           request' = [request EXCEPT ![j] = r],
           work' = [work EXCEPT ![j] = w],
           decoded' \subseteq Jobs,
           \A i \in Jobs \ {j} : i \in decoded' <=> i \in decoded,
           UNCHANGED <<record, progress, channel, cancels, restarts>>
    PROVE  IInv'
<1> USE DEF IInv, progress, channel, cancels
<1>c. /\ created \in Nat /\ created' \in 0 .. MaxJobs
      /\ KeptJobs \in Nat /\ Jobs \subseteq Nat
  BY BoundAssumption, StoreAssumption DEF TypeOK, Jobs
<1>d. \A i \in Jobs : Kept(i)' => i = j \/ Kept(i)
  BY <1>c DEF Kept
<1>0. /\ work[j] = "none"
      /\ \A i \in Jobs \ {j} : /\ Direct(i)' = Direct(i)
                               /\ Loop(i)' = Loop(i)
                               /\ request'[i] = request[i]
                               /\ work'[i] = work[i]
      /\ work'[j] = w /\ request'[j] = r
      /\ \A i \in Jobs : created' < i <=> created < i /\ i # j
      /\ \A i \in Jobs : i <= created' <=> i <= created \/ i = j
  BY <1>c DEF TypeOK, Born, Direct, Loop
<1>a. /\ record[j] = "queued" /\ outcome[j] = "queued" /\ position[j] = 0
      /\ failures[j] = 0 /\ j \notin answered /\ canceller[j] = "none"
  BY <1>0 DEF Born
<1>b. r.size \in Nat
  BY BoundAssumption DEF Requests
<1>1. TypeOK' /\ idle' \in Nat
  <2>1. Busy' = Busy
    BY <1>0, SameBusy DEF AtWork
  <2> QED
    BY <1>0, <1>c, <2>1 DEF TypeOK, Busy
<1>2. Born'
  BY <1>0, <1>a DEF Born
<1>3. Queued'
  BY <1>0 DEF Queued, TypeOK
<1>4. Progress'
  <2> SUFFICES ASSUME NEW i \in Jobs
               PROVE  (/\ work[i] \in Waiting =>
                            outcome[i] = "queued" /\ position[i] = 0 /\ failures[i] = 0
                       /\ work[i] \in {"looping", "item"} => outcome[i] = "running"
                       /\ failures[i] <= position[i]
                       /\ i <= created /\ Direct(i) => position[i] <= request[i].size
                       /\ work[i] = "item" => position[i] < Loop(i)
                       /\ work[i] = "validating" => ~ Direct(i))'
    BY DEF Progress, Waiting
  <2>1. CASE i = j
    BY <2>1, <1>0, <1>a, <1>b DEF Direct
  <2>2. CASE i # j
    BY <2>2, <1>0 DEF Progress
  <2> QED
    BY <2>1, <2>2
<1>5. Recorded' /\ CompletedMeansDone' /\ CancelStands'
  <2> SUFFICES ASSUME NEW i \in Jobs, Kept(i)'
               PROVE  /\ work'[i] # "lost" =>
                            record[i] = outcome[i]
                            \/ (record[i] = "cancelled" /\ i \in answered)
                      /\ Direct(i)' /\ record[i] = "completed" =>
                            /\ position[i] = request'[i].size
                            /\ request'[i].size > 0 => failures[i] < request'[i].size
                      /\ i \in answered /\ Direct(i)' /\ work'[i] = "ended" =>
                            record[i] = "cancelled" \/ position[i] = request'[i].size
    BY DEF Recorded, CompletedMeansDone, CancelStands, TypeOK
  <2>1. CASE i = j
    BY <2>1, <1>a
  <2>2. CASE i # j
    <3>1. Kept(i) /\ work'[i] = work[i] /\ request'[i] = request[i] /\ Direct(i)' = Direct(i)
      BY <2>2, <1>0, <1>d
    <3> QED
      BY <3>1 DEF Recorded, CompletedMeansDone, CancelStands
  <2> QED
    BY <2>1, <2>2
<1>6. Marked'
  <2>1. ASSUME NEW i \in answered
        PROVE  /\ ~ Idle(i)' => i \in jobCancel
               /\ Kept(i)' /\ work'[i] \in {"validating", "sending", "queued", "received"} =>
                     record[i] = "cancelled"
    <3>1. i \in Jobs /\ i # j /\ work'[i] = work[i]
      BY <1>0, <1>a DEF TypeOK
    <3> QED
      BY <3>1, <1>d DEF Marked, Idle
  <2> QED
    BY <2>1 DEF Marked
<1> QED
  BY <1>1, <1>2, <1>3, <1>4, <1>5, <1>6

LEMMA SubmitStep ==
    ASSUME IInv, NEW kind \in {"move", "refresh"}, NEW n \in Sizes, Submit(kind, n)
    PROVE  IInv'
<1>1. /\ created + 1 \in Jobs
      /\ [kind |-> kind, size |-> n, retryOf |-> NoJob] \in Requests
      /\ decoded' \subseteq Jobs
  BY BoundAssumption DEF IInv, Submit, TypeOK, Jobs, Requests
<1> QED
  BY <1>1, NewJobStep DEF Submit

LEMMA RetryStep ==
    ASSUME IInv, NEW source \in Jobs, Retry(source)
    PROVE  IInv'
<1> DEFINE r == [request[source] EXCEPT !.retryOf = source]
           w == IF request[source].kind = "move" THEN "validating" ELSE "sending"
<1>1. created + 1 \in Jobs /\ created' = created + 1
  BY BoundAssumption DEF IInv, Retry, TypeOK, Jobs
<1>2. r \in Requests /\ r.retryOf # NoJob
  <2>1. request[source] \in Requests /\ source # NoJob
    BY DEF IInv, Retry, Kept, Born, Jobs, NoJob
  <2> QED
    BY <2>1 DEF Requests
<1>3. /\ decoded' \subseteq Jobs
      /\ \A i \in Jobs \ {created + 1} : i \in decoded' <=> i \in decoded
  BY <1>1 DEF IInv, Retry, TypeOK
<1>4. /\ request' = [request EXCEPT ![created + 1] = r]
      /\ work' = [work EXCEPT ![created + 1] = w]
      /\ w \in {"sending", "validating"}
      /\ UNCHANGED <<record, progress, channel, cancels, restarts>>
  BY DEF Retry
<1> HIDE DEF r, w
<1> QED
  BY <1>1, <1>2, <1>3, <1>4, NewJobStep

-----------------------------------------------------------------------------
LEMMA NextIInv == ASSUME IInv, [Next]_vars PROVE IInv'
<1>1. CASE \E kind \in {"move", "refresh"}, n \in Sizes : Submit(kind, n)
  BY <1>1, SubmitStep
<1>2. CASE \E j \in Jobs : Retry(j) \/ Validate(j) \/ Send(j)
  BY <1>2, RetryStep, ValidateStep, SendStep
<1>3. CASE Receive
  <2>1. Head(jobQueue) \in Jobs
    BY <1>3 DEF Receive, IInv, TypeOK
  <2> QED
    BY <1>3, <2>1, ReceiveStep
<1>4. CASE \E j \in Jobs : Closure(j)
  BY <1>4, BeginStep, MarkRunningStep, NextItemStep, StopStep, ProcessStep,
     FinishStep DEF Closure
<1>5. CASE \E j \in Jobs : Cancel(j)
  BY <1>5, CancelReadStep, CancelMarkStep, CancelWriteStep DEF Cancel
<1>6. CASE Restart
  BY <1>6, RestartStep
<1>7. CASE UNCHANGED vars
  <2> USE <1>7 DEF vars, progress, channel, cancels
  <2>1. TypeOK' /\ (idle \in Nat)'
    BY DEF IInv, TypeOK, AtWork
  <2>2. Born' /\ Queued' /\ Progress'
    BY DEF IInv, Born, Queued, Progress, Direct, Loop
  <2>3. Recorded' /\ Marked' /\ CompletedMeansDone' /\ CancelStands'
    BY DEF IInv, Recorded, Marked, CompletedMeansDone, CancelStands, Kept, Direct, Idle
  <2> QED
    BY <2>1, <2>2, <2>3 DEF IInv
<1> QED
  BY <1>1, <1>2, <1>3, <1>4, <1>5, <1>6, <1>7 DEF Next

(* The invariant of the batch jobs, at every state the gateway reaches.    *)
THEOREM Invariance == Spec => []IInv
<1>1. Init => IInv
  BY InitIInv
<1>2. IInv /\ [Next]_vars => IInv'
  BY NextIInv
<1> QED
  BY <1>1, <1>2, PTL DEF Spec

(* Every variable keeps its type and no worker is lost: those waiting on   *)
(* the channel and those inside a closure are together JobWorkerCount.     *)
THEOREM RecordsTyped == Spec => []TypeOK
<1>1. IInv => TypeOK
  BY DEF IInv
<1> QED
  BY <1>1, Invariance, PTL

(* A batch recorded as completed was tried item by item, with at least one *)
(* success, however cancels, retries and restarts fell around it.          *)
THEOREM BatchesDone == Spec => []CompletedMeansDone
<1>1. IInv => CompletedMeansDone
  BY DEF IInv
<1> QED
  BY <1>1, Invariance, PTL

(* A cancel that was answered is not undone by the closure it interrupts,  *)
(* except when the closure had gone through every item already.            *)
THEOREM CancelsStand == Spec => []CancelStands
<1>1. IInv => CancelStands
  BY DEF IInv
<1> QED
  BY <1>1, Invariance, PTL

(* The record of a closure that is over is the one it wrote or that of an  *)
(* answered cancel: the clones of the handlers restore no other status.    *)
THEOREM OutcomesKept == Spec => []OutcomeKept
<1>1. IInv => OutcomeKept
  BY DEF IInv, Recorded, OutcomeKept
<1> QED
  BY <1>1, Invariance, PTL
=============================================================================
