---------------------------- MODULE SchedulerProofs ----------------------------
(***************************************************************************)
(* Proofs about Scheduler, for every set of tasks, every number of runs,   *)
(* retries and history entries: type correctness with the bound on the     *)
(* history, that the end of a run is recorded, in memory and in the file,  *)
(* and that a reported result is the one of the last attempt.              *)
(*                                                                         *)
(* The invariant adds which statuses a goroutine may have at each place    *)
(* and what the retry loop has counted there (LocalInv); that no entry of  *)
(* the file is of a run yet to be recorded, that the entries of one run    *)
(* were written together, and that a goroutine past its save has left no   *)
(* older entry (SavedInv); and that whatever the history or a snapshot     *)
(* refers to has been recorded (KeptHasStatus).                            *)
(***************************************************************************)
EXTENDS Scheduler, SequenceTheorems, TLAPS

Places == Idle \union Holding \union {"spawned"}

LocalInv ==
    \A g \in Slots :
        /\ runStatus[g] = "running" => pc[g] \in Running \union {"lost"}
        /\ runStatus[g] \in {"success", "failed"} => pc[g] \in Idle \union Finished
        /\ pc[g] = "quit" => runStatus[g] = "cancelled"
        /\ pc[g] = "waiting" => tries[g] < MaxRetries
        /\ pc[g] = "finishing" => \/ outcome[g] = "ok"
                                  \/ outcome[g] = "error" /\ tries[g] = MaxRetries

SavedInv ==
    /\ \A entry \in Saved :
          /\ pc[entry.slot] # "spawned"
          /\ entry.status \in {"success", "failed"} =>
                pc[entry.slot] \in Idle \union Finished
          /\ pc[entry.slot] \in PastSave =>
                runStatus[entry.slot] \in {entry.status, "cancelled"}
    /\ \A e, f \in Saved : e.slot = f.slot => e.status = f.status

KeptSlots == Runs(history) \union UNION {Runs(snapshot[g]) : g \in Slots}

KeptHasStatus == \A h \in KeptSlots : runStatus[h] # "none" /\ pc[h] # "spawned"

(* TypeOK in two parts, as the actions disturb them.                       *)
PlainTypes ==
    /\ tasks \in [Tasks -> TaskStates] /\ tasksFile \in [Tasks -> TaskStates]
    /\ nextRun \in [Tasks -> {"nil", "ahead", "past"}]
    /\ running \in BOOLEAN /\ looping \in BOOLEAN
    /\ toStart \subseteq Tasks
    /\ pc \in [Slots -> Places]
    /\ owner \in [Slots -> Tasks]
    /\ tries \in [Slots -> 0 .. MaxRetries]
    /\ outcome \in [Slots -> Results \union {"none"}]
    /\ runStatus \in [Slots -> Statuses \union {"none"}]
    /\ stale \subseteq Slots
    /\ cancelling \subseteq Slots
    /\ cancelFuncs \subseteq {g \in Slots : pc[g] \in Running \union Finished}
    /\ edits \in 0 .. MaxEdits

HistoryTypes ==
    /\ history \in Histories /\ snapshot \in [Slots -> Histories]
    /\ runsFile \in [Tasks -> Seq(Entries)]
    /\ \A t \in Tasks : /\ Len(history[t]) <= RunHistorySize
                        /\ Len(runsFile[t]) <= RunHistorySize
                        /\ \A g \in Slots : Len(snapshot[g][t]) <= RunHistorySize

IInv == /\ PlainTypes
        /\ HistoryTypes
        /\ LocalInv
        /\ SavedInv
        /\ ResultTrue
        /\ KeptHasStatus

-----------------------------------------------------------------------------
(* Trimming bounds a history and adds nothing to it.                       *)
LEMMA TrimmedBound ==
    ASSUME NEW S, NEW runs \in Seq(S)
    PROVE  /\ Trimmed(runs) \in Seq(S)
           /\ Len(Trimmed(runs)) <= RunHistorySize
           /\ \A i \in 1 .. Len(Trimmed(runs)) :
                 \E j \in 1 .. Len(runs) : Trimmed(runs)[i] = runs[j]
<1>0. Len(runs) \in Nat /\ RunHistorySize \in Nat
  BY BoundAssumption
<1>1. CASE Len(runs) <= RunHistorySize
  BY <1>0, <1>1 DEF Trimmed
<1>2. CASE Len(runs) > RunHistorySize
  <2> DEFINE m == Len(runs) - RunHistorySize + 1
             n == Len(runs)
  <2>1. m \in Int /\ n \in Int /\ m >= 1 /\ m + RunHistorySize = n + 1
    BY <1>0, <1>2
  <2>2. \A i \in m .. n : runs[i] \in S
    BY <2>1
  <2>3. Trimmed(runs) = SubSeq(runs, m, n)
    BY <1>2 DEF Trimmed
  <2> HIDE DEF m, n
  <2>4. /\ SubSeq(runs, m, n) \in Seq(S)
        /\ Len(SubSeq(runs, m, n)) = IF m <= n THEN n - m + 1 ELSE 0
        /\ \A i \in 1 .. n - m + 1 : SubSeq(runs, m, n)[i] = runs[m + i - 1]
    BY <2>1, <2>2, SubSeqProperties
  <2>5. Len(SubSeq(runs, m, n)) = RunHistorySize /\ n - m + 1 = RunHistorySize
    BY <1>0, <2>1, <2>4, BoundAssumption
  <2>6. \A i \in 1 .. RunHistorySize : m + i - 1 \in 1 .. n
    BY <1>0, <2>1
  <2>7. ASSUME NEW i \in 1 .. RunHistorySize
        PROVE  \E j \in 1 .. n : Trimmed(runs)[i] = runs[j]
    <3>1. Trimmed(runs)[i] = runs[m + i - 1]
      BY <2>3, <2>4, <2>5
    <3> QED
      BY <2>6, <3>1
  <2>8. Len(Trimmed(runs)) = RunHistorySize /\ Trimmed(runs) \in Seq(S)
    BY <2>3, <2>4, <2>5
  <2> QED
    BY <1>0, <2>7, <2>8 DEF n
<1> QED
  BY <1>0, <1>1, <1>2

LEMMA SavedSame == UNCHANGED runsFile => Saved' = Saved
BY DEF Saved

LEMMA KeptSame == UNCHANGED <<history, snapshot>> => KeptSlots' = KeptSlots
BY DEF KeptSlots, Runs

LEMMA KeptAfter ==
    KeptSlots' = Runs(history') \union UNION {Runs(snapshot'[g]) : g \in Slots}
BY DEF KeptSlots, Runs

LEMMA SavedEntries ==
    ASSUME HistoryTypes, NEW entry \in Saved
    PROVE  entry \in Entries
BY DEF HistoryTypes, Saved

LEMMA HistorySame ==
    ASSUME HistoryTypes, UNCHANGED <<history, snapshot, runsFile>>
    PROVE  HistoryTypes'
BY DEF HistoryTypes, Histories, Entries

(* A step that only concerns the table of tasks, the loop or the calls.    *)
LEMMA TableKeeps ==
    ASSUME IInv, PlainTypes',
           UNCHANGED <<pc, tries, outcome, runStatus, history, snapshot, runsFile>>
    PROVE  IInv'
<1>1. HistoryTypes' /\ Saved' = Saved /\ KeptSlots' = KeptSlots
  BY HistorySame, SavedSame, KeptSame DEF IInv
<1> QED
  BY <1>1 DEF IInv, LocalInv, SavedInv, ResultTrue, Report, KeptHasStatus

(* What a step of goroutine g may do with its own place, status, outcome   *)
(* and count.                                                              *)
Fits(g, place, r, o, n) ==
    /\ r = "running" => place \in Running \union {"lost"}
    /\ r \in {"success", "failed"} => place \in Idle \union Finished
    /\ place = "quit" => r = "cancelled"
    /\ place = "waiting" => n < MaxRetries
    /\ place = "finishing" => \/ o = "ok"
                              \/ o = "error" /\ n = MaxRetries
    /\ place \notin Idle => /\ r = "success" => o = "ok"
                            /\ r = "failed" => o = "error" /\ n = MaxRetries
    /\ pc[g] \in Idle \union Finished =>
          /\ place \in Idle \union Finished
          /\ place \notin Idle => pc[g] \notin Idle /\ o = outcome[g] /\ n = tries[g]
    /\ place # "spawned"
    /\ place \in PastSave => \/ r = "cancelled"
                             \/ pc[g] = "spawned"
                             \/ pc[g] \in PastSave /\ r = runStatus[g]

LEMMA RunnerKeeps ==
    ASSUME IInv, PlainTypes', NEW g \in Slots, NEW place, NEW r, NEW o, NEW n,
           Fits(g, place, r, o, n),
           Goto(g, place), runStatus' = [runStatus EXCEPT ![g] = r],
           outcome' = [outcome EXCEPT ![g] = o], tries' = [tries EXCEPT ![g] = n],
           UNCHANGED runsFile
    PROVE  LocalInv' /\ SavedInv' /\ ResultTrue'
<1>1. /\ pc'[g] = place /\ runStatus'[g] = r /\ outcome'[g] = o /\ tries'[g] = n
      /\ \A h \in Slots \ {g} : /\ pc'[h] = pc[h] /\ runStatus'[h] = runStatus[h]
                                /\ outcome'[h] = outcome[h] /\ tries'[h] = tries[h]
  BY DEF IInv, PlainTypes, Goto
<1>2. LocalInv'
  BY <1>1 DEF IInv, LocalInv, Fits
<1>3. \A entry \in Saved : entry.slot \in Slots
  BY SavedEntries DEF IInv, Entries
<1>4. SavedInv'
  <2>1. ASSUME NEW entry \in Saved
        PROVE  /\ pc'[entry.slot] # "spawned"
               /\ entry.status \in {"success", "failed"} =>
                     pc'[entry.slot] \in Idle \union Finished
               /\ pc'[entry.slot] \in PastSave =>
                     runStatus'[entry.slot] \in {entry.status, "cancelled"}
    <3>1. CASE entry.slot # g
      BY <1>1, <1>3, <3>1 DEF IInv, SavedInv
    <3>2. CASE entry.slot = g
      BY <1>1, <3>2 DEF IInv, SavedInv, Fits
    <3> QED
      BY <3>1, <3>2
  <2> QED
    BY <2>1, SavedSame DEF IInv, SavedInv
<1>5. ResultTrue'
  <2>1. \A h \in Slots : Report(h, runStatus[h])'
    BY <1>1 DEF IInv, ResultTrue, Report, Fits
  <2>2. ASSUME NEW entry \in Saved PROVE Report(entry.slot, entry.status)'
    <3>1. CASE entry.slot # g
      BY <1>1, <1>3, <3>1 DEF IInv, ResultTrue, Report
    <3>2. CASE entry.slot = g
      BY <1>1, <3>2 DEF IInv, SavedInv, ResultTrue, Report, Fits
    <3> QED
      BY <3>1, <3>2
  <2> QED
    BY <2>1, <2>2, SavedSame DEF ResultTrue
<1> QED
  BY <1>2, <1>4, <1>5

(* The same for a step that leaves the history and the snapshots alone.    *)
LEMMA QuietRunnerKeeps ==
    ASSUME IInv, PlainTypes', NEW g \in Slots, NEW place, NEW r, NEW o, NEW n,
           Fits(g, place, r, o, n), r # "none" \/ runStatus[g] = "none",
           Goto(g, place), runStatus' = [runStatus EXCEPT ![g] = r],
           outcome' = [outcome EXCEPT ![g] = o], tries' = [tries EXCEPT ![g] = n],
           UNCHANGED <<history, snapshot, runsFile>>
    PROVE  IInv'
<1>1. LocalInv' /\ SavedInv' /\ ResultTrue'
  BY RunnerKeeps
<1>2. HistoryTypes' /\ KeptSlots' = KeptSlots
  BY HistorySame, KeptSame DEF IInv
<1>3. KeptHasStatus'
  BY <1>2 DEF IInv, KeptHasStatus, PlainTypes, Goto, Fits
<1> QED
  BY <1>1, <1>2, <1>3 DEF IInv

-----------------------------------------------------------------------------
LEMMA InitInv == Init => IInv
<1> SUFFICES ASSUME Init PROVE IInv
  OBVIOUS
<1>1. PlainTypes
  <2>1. (CHOOSE t \in Tasks : TRUE) \in Tasks
    BY TaskAssumption
  <2>2. pc \in [Slots -> Places]
    BY DEF Init, Places, Idle
  <2> QED
    BY <2>1, <2>2, BoundAssumption DEF Init, PlainTypes
<1>2. NoRuns \in Histories /\ \A t \in Tasks : NoRuns[t] = << >> /\ Len(NoRuns[t]) = 0
  BY DEF NoRuns, Histories
<1>3. HistoryTypes
  <2>1. NoRuns \in [Tasks -> Seq(Entries)]
    BY DEF NoRuns
  <2> QED
    BY <1>2, <2>1, BoundAssumption DEF Init, HistoryTypes
<1>4. Saved = {} /\ KeptSlots = {}
  BY <1>2 DEF Init, Saved, KeptSlots, Runs
<1> QED
  BY <1>1, <1>3, <1>4
  DEF Init, IInv, LocalInv, SavedInv, ResultTrue, Report, KeptHasStatus

-----------------------------------------------------------------------------
(* Record appends to the history, and trims it.                            *)
LEMMA RecordKeeps ==
    ASSUME IInv, PlainTypes', NEW g \in Slots, Record(g)
    PROVE  IInv'
<1>1. /\ pc[g] = "checked" /\ owner[g] \in Tasks
      /\ history' = [history EXCEPT ![owner[g]] = Trimmed(Append(@, g))]
      /\ runStatus' = [runStatus EXCEPT ![g] = "running"]
      /\ UNCHANGED <<snapshot, runsFile>>
  BY DEF Record, files, IInv, PlainTypes
<1>2. LocalInv' /\ SavedInv' /\ ResultTrue'
  <2>1. Fits(g, "registering", "running", outcome[g], tries[g])
    BY <1>1 DEF Fits, Running, Finished, Idle, PastSave
  <2>2. /\ Goto(g, "registering")
        /\ outcome' = [outcome EXCEPT ![g] = outcome[g]]
        /\ tries' = [tries EXCEPT ![g] = tries[g]]
    BY DEF Record, progress, IInv, PlainTypes
  <2> QED
    BY <1>1, <2>1, <2>2, RunnerKeeps
<1> DEFINE old == history[owner[g]]
           new == Trimmed(Append(old, g))
<1>3. /\ old \in Seq(Slots) /\ history \in [Tasks -> Seq(Slots)]
      /\ Append(old, g) \in Seq(Slots)
  BY <1>1 DEF IInv, HistoryTypes, Histories
<1>4. /\ new \in Seq(Slots) /\ Len(new) <= RunHistorySize
      /\ \A i \in 1 .. Len(new) : \E j \in 1 .. Len(Append(old, g)) :
            new[i] = Append(old, g)[j]
  BY <1>3, TrimmedBound
<1>5. \A i \in 1 .. Len(new) : new[i] = g \/ \E j \in 1 .. Len(old) : new[i] = old[j]
  BY <1>3, <1>4
<1>6. /\ history' \in [Tasks -> Seq(Slots)]
      /\ \A t \in Tasks : history'[t] = IF t = owner[g] THEN new ELSE history[t]
  BY <1>1, <1>3, <1>4
<1> HIDE DEF new
<1>7. HistoryTypes'
  BY <1>1, <1>4, <1>6 DEF IInv, HistoryTypes, Histories, Entries
<1>8. Runs(history') \subseteq Runs(history) \union {g}
  BY <1>1, <1>5, <1>6 DEF Runs
<1>9. KeptHasStatus'
  <2>1. KeptSlots' \subseteq KeptSlots \union {g}
    <3>1. \A h \in Slots : Runs(snapshot'[h]) \subseteq KeptSlots
      BY <1>1 DEF KeptSlots
    <3>2. Runs(history) \subseteq KeptSlots
      BY DEF KeptSlots
    <3> QED
      BY <1>8, <3>1, <3>2, KeptAfter
  <2> QED
    BY <1>1, <2>1 DEF IInv, KeptHasStatus, PlainTypes, Record, Goto
<1> QED
  BY <1>2, <1>7, <1>9 DEF IInv

LEMMA CollectKeeps ==
    ASSUME IInv, PlainTypes', NEW g \in Slots, Collect(g)
    PROVE  IInv'
<1>1. /\ pc[g] = "collecting" /\ Goto(g, "writing")
      /\ snapshot' = [snapshot EXCEPT ![g] = history]
      /\ UNCHANGED <<history, runsFile>>
      /\ runStatus' = [runStatus EXCEPT ![g] = runStatus[g]]
      /\ outcome' = [outcome EXCEPT ![g] = outcome[g]]
      /\ tries' = [tries EXCEPT ![g] = tries[g]]
  BY DEF Collect, files, progress, IInv, PlainTypes
<1>2. Fits(g, "writing", runStatus[g], outcome[g], tries[g])
  BY <1>1
  DEF Fits, IInv, LocalInv, ResultTrue, Report, Running, Finished, Idle, PastSave
<1>3. LocalInv' /\ SavedInv' /\ ResultTrue'
  BY <1>1, <1>2, RunnerKeeps
<1>4. HistoryTypes'
  BY <1>1 DEF IInv, HistoryTypes, Histories, Entries
<1>5. KeptSlots' \subseteq KeptSlots
  <2>1. \A h \in Slots : snapshot'[h] \in {snapshot[h], history}
    BY <1>1 DEF IInv, HistoryTypes
  <2>2. Runs(history)' = Runs(history)
    BY <1>1 DEF Runs
  <2>3. \A h \in Slots : Runs(snapshot'[h]) \subseteq KeptSlots
    BY <2>1 DEF KeptSlots
  <2> QED
    BY <2>2, <2>3 DEF KeptSlots, Runs
<1>6. KeptHasStatus'
  BY <1>1, <1>5 DEF IInv, KeptHasStatus, PlainTypes, Goto
<1> QED
  BY <1>3, <1>4, <1>6 DEF IInv

(* SaveRuns writes the statuses of the moment into the file.               *)
LEMMA WriteKeeps ==
    ASSUME IInv, PlainTypes', NEW g \in Slots, Write(g)
    PROVE  IInv'
<1>1. /\ pc[g] = "writing" /\ pc' = [pc EXCEPT ![g] = "cleanup"]
      /\ runsFile' = [t \in Tasks |-> [i \in 1 .. Len(snapshot[g][t]) |->
                                         Entry(snapshot[g][t][i])]]
      /\ snapshot' = [snapshot EXCEPT ![g] = NoRuns]
      /\ UNCHANGED <<history, runStatus, outcome, tries>>
  BY DEF Write, Goto, progress
<1>2. /\ pc'[g] = "cleanup" /\ \A h \in Slots \ {g} : pc'[h] = pc[h]
  BY <1>1 DEF IInv, PlainTypes
<1>3. LocalInv'
  BY <1>1, <1>2 DEF IInv, LocalInv, Running, Finished, Idle
<1>4. snapshot[g] \in [Tasks -> Seq(Slots)] /\ Runs(snapshot[g]) \subseteq KeptSlots
  BY DEF IInv, HistoryTypes, Histories, KeptSlots
<1>5. \A t \in Tasks : \A i \in 1 .. Len(snapshot[g][t]) :
         /\ snapshot[g][t][i] \in Slots
         /\ snapshot[g][t][i] \in Runs(snapshot[g])
  BY <1>4 DEF Runs
<1>6. \A h \in Slots : h \in KeptSlots => Entry(h) \in Entries
  BY DEF IInv, PlainTypes, KeptHasStatus, Entry, Entries
<1>7. ASSUME NEW t \in Tasks
      PROVE  /\ runsFile'[t] \in Seq(Entries)
             /\ Len(runsFile'[t]) = Len(snapshot[g][t])
             /\ \A i \in 1 .. Len(snapshot[g][t]) :
                   runsFile'[t][i] = Entry(snapshot[g][t][i])
  <2>1. runsFile'[t] = [i \in 1 .. Len(snapshot[g][t]) |-> Entry(snapshot[g][t][i])]
    BY <1>1
  <2>2. Len(snapshot[g][t]) \in Nat
    BY <1>4
  <2>3. \A i \in 1 .. Len(snapshot[g][t]) : Entry(snapshot[g][t][i]) \in Entries
    BY <1>4, <1>5, <1>6
  <2> QED
    BY <2>1, <2>2, <2>3, IsASeq
<1>8. \A t \in Tasks : NoRuns[t] = << >> /\ Len(NoRuns[t]) = 0
  BY DEF NoRuns
<1>9. HistoryTypes'
  <2>1. NoRuns \in Histories
    BY DEF NoRuns, Histories
  <2>2. snapshot' \in [Slots -> Histories] /\ \A h \in Slots : snapshot'[h] \in {snapshot[h], NoRuns}
    BY <1>1, <2>1 DEF IInv, HistoryTypes
  <2>3. runsFile' \in [Tasks -> Seq(Entries)]
    BY <1>1, <1>7
  <2>4. \A t \in Tasks : Len(runsFile'[t]) <= RunHistorySize
    BY <1>7 DEF IInv, HistoryTypes
  <2>5. \A t \in Tasks, h \in Slots : Len(snapshot'[h][t]) <= RunHistorySize
    BY <1>8, <2>2, BoundAssumption DEF IInv, HistoryTypes
  <2> QED
    BY <1>1, <2>2, <2>3, <2>4, <2>5 DEF IInv, HistoryTypes, Histories, Entries
<1>10. ASSUME NEW entry \in Saved'
       PROVE  /\ entry.slot \in Slots /\ entry.status = runStatus[entry.slot]
              /\ pc[entry.slot] # "spawned"
  <2>1. PICK t \in Tasks : \E i \in 1 .. Len(runsFile'[t]) : entry = runsFile'[t][i]
    BY DEF Saved
  <2>2. PICK i \in 1 .. Len(snapshot[g][t]) : entry = Entry(snapshot[g][t][i])
    BY <1>7, <2>1
  <2>3. entry.slot \in Slots /\ entry.slot \in KeptSlots
    BY <1>4, <1>5, <2>2 DEF Entry
  <2> QED
    BY <2>2, <2>3 DEF Entry, IInv, KeptHasStatus
<1>11. SavedInv'
  BY <1>1, <1>2, <1>10 DEF IInv, SavedInv, LocalInv, Running, Finished, Idle
<1>12. \A h \in Slots : Report(h, runStatus[h])'
  BY <1>1, <1>2 DEF IInv, ResultTrue, Report, Idle
<1>13. ResultTrue'
  BY <1>1, <1>10, <1>12 DEF ResultTrue
<1>14. KeptHasStatus'
  <2>1. \A h \in Slots : snapshot'[h] \in {snapshot[h], NoRuns}
    BY <1>1 DEF IInv, HistoryTypes
  <2>2. Runs(NoRuns) = {}
    BY <1>8 DEF Runs
  <2>3. \A h \in Slots : Runs(snapshot'[h]) \subseteq KeptSlots
    BY <2>1, <2>2 DEF KeptSlots
  <2>4. KeptSlots' \subseteq KeptSlots
    <3>1. Runs(history') \subseteq KeptSlots
      BY <1>1 DEF KeptSlots
    <3> QED
      BY <2>3, <3>1, KeptAfter
  <2> QED
    BY <1>1, <1>2, <2>4 DEF IInv, KeptHasStatus
<1> QED
  BY <1>3, <1>9, <1>11, <1>13, <1>14 DEF IInv

(* A new run takes a slot that nothing refers to.                          *)
LEMMA StartKeeps ==
    ASSUME IInv, PlainTypes', NEW t \in Tasks, NEW g \in Slots, Start(t, g)
    PROVE  IInv'
<1>1. /\ pc[g] \in Idle /\ g \notin KeptSlots /\ \A entry \in Saved : entry.slot # g
  BY DEF Start, Free, KeptSlots
<1>2. /\ pc' = [pc EXCEPT ![g] = "spawned"]
      /\ runStatus' = [runStatus EXCEPT ![g] = "none"]
      /\ UNCHANGED <<tries, outcome, history, snapshot, runsFile>>
  BY DEF Start, files
<1>3. /\ pc'[g] = "spawned" /\ runStatus'[g] = "none"
      /\ \A h \in Slots \ {g} : pc'[h] = pc[h] /\ runStatus'[h] = runStatus[h]
  BY <1>2 DEF IInv, PlainTypes
<1>4. HistoryTypes' /\ Saved' = Saved /\ KeptSlots' = KeptSlots
  BY <1>2, HistorySame, SavedSame, KeptSame DEF IInv
<1>5. LocalInv'
  BY <1>2, <1>3 DEF IInv, LocalInv
<1>6. \A entry \in Saved : entry.slot \in Slots \ {g}
  BY <1>1, SavedEntries DEF IInv, Entries
<1>7. SavedInv' /\ ResultTrue'
  BY <1>2, <1>3, <1>4, <1>6 DEF IInv, SavedInv, ResultTrue, Report
<1>8. KeptHasStatus'
  <2>1. \A h \in KeptSlots : runStatus'[h] = runStatus[h] /\ pc'[h] = pc[h]
    BY <1>1, <1>2 DEF IInv, PlainTypes
  <2> QED
    BY <1>4, <2>1 DEF IInv, KeptHasStatus
<1> QED
  BY <1>4, <1>5, <1>7, <1>8 DEF IInv

LEMMA RestartKeeps ==
    ASSUME IInv, PlainTypes', Restart
    PROVE  IInv'
<1>1. /\ pc' = [g \in Slots |-> IF Loaded(g) = {} THEN "free" ELSE "lost"]
      /\ runStatus' = [g \in Slots |-> IF Loaded(g) = {} THEN "none"
                                       ELSE (CHOOSE e \in Loaded(g) : TRUE).status]
      /\ history' = [t \in Tasks |-> [i \in 1 .. Len(runsFile[t]) |->
                                       runsFile[t][i].slot]]
      /\ snapshot' = [g \in Slots |-> NoRuns]
      /\ UNCHANGED runsFile
  BY DEF Restart, files
<1>2. /\ runsFile \in [Tasks -> Seq(Entries)]
      /\ \A t \in Tasks : Len(runsFile[t]) <= RunHistorySize
  BY DEF IInv, HistoryTypes
<1>3. ASSUME NEW t \in Tasks
      PROVE  /\ history'[t] \in Seq(Slots) /\ Len(history'[t]) = Len(runsFile[t])
             /\ \A i \in 1 .. Len(runsFile[t]) :
                   history'[t][i] = runsFile[t][i].slot /\ runsFile[t][i] \in Saved
  <2>1. Len(runsFile[t]) \in Nat /\ \A i \in 1 .. Len(runsFile[t]) : runsFile[t][i] \in Entries
    BY <1>2
  <2>2. history'[t] = [i \in 1 .. Len(runsFile[t]) |-> runsFile[t][i].slot]
    BY <1>1
  <2>3. \A i \in 1 .. Len(runsFile[t]) : runsFile[t][i].slot \in Slots
    BY <2>1 DEF Entries
  <2>4. \A i \in 1 .. Len(runsFile[t]) : runsFile[t][i] \in Saved
    BY DEF Saved
  <2> QED
    BY <2>1, <2>2, <2>3, <2>4, IsASeq
<1>4. \A t \in Tasks : NoRuns[t] = << >> /\ Len(NoRuns[t]) = 0
  BY DEF NoRuns
<1>5. HistoryTypes'
  <2>1. NoRuns \in Histories
    BY DEF NoRuns, Histories
  <2>2. history' \in Histories
    BY <1>1, <1>3 DEF Histories
  <2>3. snapshot' \in [Slots -> Histories]
    BY <1>1, <2>1
  <2> QED
    <3>1. \A t \in Tasks : Len(history'[t]) <= RunHistorySize
      BY <1>2, <1>3
    <3>2. \A t \in Tasks, g \in Slots : Len(snapshot'[g][t]) <= RunHistorySize
      BY <1>1, <1>4, BoundAssumption
    <3> QED
      BY <1>1, <1>2, <2>2, <2>3, <3>1, <3>2 DEF HistoryTypes, Histories, Entries
<1>6. \A entry \in Saved : entry.slot \in Slots /\ entry \in Loaded(entry.slot)
  BY SavedEntries DEF IInv, Entries, Loaded
<1>7. \A g \in Slots : pc'[g] \in Idle
  BY <1>1 DEF Idle
<1>8. LocalInv'
  BY <1>1, <1>7 DEF LocalInv, Idle
<1>9. SavedInv'
  <2>1. ASSUME NEW entry \in Saved PROVE runStatus'[entry.slot] = entry.status
    <3>1. entry.slot \in Slots /\ Loaded(entry.slot) # {}
      BY <1>6
    <3>2. (CHOOSE e \in Loaded(entry.slot) : TRUE) \in Loaded(entry.slot)
      BY <3>1
    <3>3. \A e \in Loaded(entry.slot) : e.status = entry.status
      BY DEF IInv, SavedInv, Loaded
    <3> QED
      BY <1>1, <3>1, <3>2, <3>3
  <2>2. Saved' = Saved
    BY <1>1, SavedSame
  <2>3. \A e, f \in Saved : e.slot = f.slot => e.status = f.status
    BY DEF IInv, SavedInv
  <2>4. \A entry \in Saved : pc'[entry.slot] \in Idle
    BY <1>6, <1>7
  <2> QED
    BY <2>1, <2>2, <2>3, <2>4 DEF SavedInv, Idle
<1>10. ResultTrue'
  BY <1>1, <1>6, <1>7, SavedSame DEF ResultTrue, Report
<1>11. KeptHasStatus'
  <2>1. Runs(NoRuns) = {}
    BY <1>4 DEF Runs
  <2>2. Runs(history') \subseteq {entry.slot : entry \in Saved}
    BY <1>3 DEF Runs
  <2>3. KeptSlots' \subseteq {entry.slot : entry \in Saved}
    <3>1. \A g \in Slots : Runs(snapshot'[g]) = {}
      BY <1>1, <2>1
    <3> QED
      BY <2>2, <3>1, KeptAfter
  <2>4. ASSUME NEW entry \in Saved
        PROVE  runStatus'[entry.slot] # "none" /\ pc'[entry.slot] # "spawned"
    <3>1. entry.slot \in Slots /\ Loaded(entry.slot) # {}
      BY <1>6
    <3>2. (CHOOSE e \in Loaded(entry.slot) : TRUE) \in Loaded(entry.slot)
      BY <3>1
    <3>3. (CHOOSE e \in Loaded(entry.slot) : TRUE) \in Entries
      BY <3>2, SavedEntries DEF IInv, Loaded
    <3> QED
      BY <1>1, <3>1, <3>3 DEF Entries, Statuses
  <2> QED
    BY <2>3, <2>4 DEF KeptHasStatus
<1> QED
  BY <1>5, <1>8, <1>9, <1>10, <1>11 DEF IInv

-----------------------------------------------------------------------------
(* The goroutine of a run.                                                 *)
LEMMA CancelledKeeps ==
    ASSUME IInv, NEW g \in Slots, pc[g] \in {"loop", "waiting"}, EndCancelled(g)
    PROVE  IInv'
<1>1. /\ runStatus' = [runStatus EXCEPT ![g] = "cancelled"] /\ Goto(g, "quit")
      /\ outcome' = [outcome EXCEPT ![g] = outcome[g]]
      /\ tries' = [tries EXCEPT ![g] = tries[g]]
      /\ UNCHANGED <<history, snapshot, runsFile>>
  BY DEF EndCancelled, progress, files, IInv, PlainTypes
<1>2. Fits(g, "quit", "cancelled", outcome[g], tries[g])
  BY DEF Fits, Idle, Finished, PastSave
<1>3. PlainTypes'
  BY DEF IInv, PlainTypes, EndCancelled, Goto, table, loop, progress, files, outside,
         Places, Idle, Holding, Running, Finished, Statuses
<1> QED
  BY <1>1, <1>2, <1>3, QuietRunnerKeeps

LEMMA RunTaskKeeps ==
    ASSUME IInv, NEW g \in Slots, RunTask(g)
    PROVE  IInv'
<1> USE DEF Places, Idle, Holding, Running, Finished, PastSave
<1>0. /\ runStatus = [runStatus EXCEPT ![g] = runStatus[g]]
      /\ outcome = [outcome EXCEPT ![g] = outcome[g]]
      /\ tries = [tries EXCEPT ![g] = tries[g]]
      /\ owner[g] \in Tasks /\ tries[g] \in 0 .. MaxRetries
      /\ outcome[g] \in Results \union {"none"}
      /\ \A value \in {"nil", "ahead"} :
            SetNextRun(g, value) => nextRun' \in [Tasks -> {"nil", "ahead", "past"}]
  BY DEF IInv, PlainTypes, SetNextRun
<1>1. CASE Lookup(g)
  <2>1. PlainTypes'
    BY <1>0, <1>1 DEF IInv, PlainTypes, Goto, table, loop, progress, files, outside, Lookup
  <2>2. pc[g] = "spawned" /\ UNCHANGED <<runStatus, outcome, tries, history, snapshot, runsFile>>
    BY <1>1 DEF Lookup, progress, files
  <2>3. PICK place \in {"checked", "free"} : Goto(g, place)
    BY <1>1 DEF Lookup
  <2>4. Fits(g, place, runStatus[g], outcome[g], tries[g])
    BY <2>2 DEF Fits, IInv, LocalInv, SavedInv
  <2> QED
    BY <1>0, <2>1, <2>2, <2>3, <2>4, QuietRunnerKeeps
<1>2. CASE Record(g)
  <2>1. PlainTypes'
    BY <1>0, <1>2 DEF IInv, PlainTypes, Goto, table, loop, progress, files, outside, Record, Statuses
  <2> QED
    BY <1>2, <2>1, RecordKeeps
<1>3. CASE Register(g)
  <2>1. PlainTypes'
    BY <1>0, <1>3 DEF IInv, PlainTypes, Goto, table, loop, progress, files, outside, Register
  <2>2. /\ pc[g] = "registering" /\ Goto(g, "loop")
        /\ UNCHANGED <<runStatus, outcome, tries, history, snapshot, runsFile>>
    BY <1>3 DEF Register, progress, files
  <2>3. Fits(g, "loop", runStatus[g], outcome[g], tries[g])
    BY <2>2 DEF Fits, IInv, LocalInv
  <2> QED
    BY <1>0, <2>1, <2>2, <2>3, QuietRunnerKeeps
<1>4. CASE LoopHead(g)
  <2>1. CASE EndCancelled(g)
    BY <1>4, <2>1, CancelledKeeps DEF LoopHead
  <2>2. CASE /\ Goto(g, "executing")
             /\ UNCHANGED <<table, loop, progress, runStatus, history, cancelFuncs,
                            outside, snapshot, files>>
    <3>1. PlainTypes'
      BY <1>4, <2>2 DEF IInv, PlainTypes, Goto, table, loop, progress, files, outside, LoopHead
    <3>2. Fits(g, "executing", runStatus[g], outcome[g], tries[g])
      BY <1>4 DEF Fits, IInv, LocalInv, LoopHead
    <3>3. UNCHANGED <<runStatus, outcome, tries, history, snapshot, runsFile>>
      BY <2>2 DEF progress, files
    <3> QED
      BY <1>0, <2>2, <3>1, <3>2, <3>3, QuietRunnerKeeps
  <2> QED
    BY <1>4, <2>1, <2>2 DEF LoopHead
<1>5. ASSUME NEW result \in Results, ExecuteReturns(g, result)
      PROVE  IInv'
  <2>1. PlainTypes'
    BY <1>0, <1>5 DEF IInv, PlainTypes, Goto, table, loop, progress, files, outside, ExecuteReturns, AfterAttempt
  <2>2. /\ pc[g] = "executing" /\ Goto(g, AfterAttempt(g, result))
        /\ outcome' = [outcome EXCEPT ![g] = result]
        /\ UNCHANGED <<runStatus, tries, history, snapshot, runsFile>>
    BY <1>5 DEF ExecuteReturns, files
  <2>3. AfterAttempt(g, result) \in {"waiting", "finishing"}
    BY DEF AfterAttempt
  <2>4. /\ AfterAttempt(g, result) = "waiting" => tries[g] < MaxRetries
        /\ AfterAttempt(g, result) = "finishing" =>
              (result = "ok") \/ (result = "error" /\ tries[g] = MaxRetries)
    <3>1. tries[g] \in 0 .. MaxRetries /\ MaxRetries \in Nat
      BY <1>0, BoundAssumption
    <3>2. CASE tries[g] < MaxRetries
      BY <1>5, <3>2 DEF AfterAttempt, Results
    <3>3. CASE tries[g] = MaxRetries
      BY <1>5, <3>1, <3>3 DEF AfterAttempt, Results
    <3> QED
      BY <3>1, <3>2, <3>3
  <2>5. Fits(g, AfterAttempt(g, result), runStatus[g], result, tries[g])
    BY <2>2, <2>3, <2>4 DEF Fits, IInv, LocalInv
  <2> QED
    BY <1>0, <2>1, <2>2, <2>5, QuietRunnerKeeps
<1>6. CASE WaitOver(g)
  <2>1. CASE EndCancelled(g)
    BY <1>6, <2>1, CancelledKeeps DEF WaitOver
  <2>2. CASE /\ tries' = [tries EXCEPT ![g] = @ + 1]
             /\ Goto(g, "loop")
             /\ UNCHANGED <<table, loop, owner, outcome, runStatus, history,
                            cancelFuncs, outside, snapshot, files>>
    <3>0. pc[g] = "waiting" /\ tries[g] < MaxRetries
      BY <1>6 DEF WaitOver, IInv, LocalInv
    <3>1. tries[g] + 1 \in 0 .. MaxRetries /\ tries' = [tries EXCEPT ![g] = tries[g] + 1]
      BY <1>0, <2>2, <3>0, BoundAssumption
    <3>2. PlainTypes'
      BY <2>2, <3>0, <3>1 DEF IInv, PlainTypes, Goto, table, loop, progress, files, outside
    <3>3. Fits(g, "loop", runStatus[g], outcome[g], tries[g] + 1)
      BY <3>0 DEF Fits, IInv, LocalInv
    <3>4. UNCHANGED <<runStatus, outcome, history, snapshot, runsFile>>
      BY <2>2 DEF files
    <3> QED
      BY ZenonT(60), <1>0, <2>2, <3>1, <3>2, <3>3, <3>4, QuietRunnerKeeps
  <2> QED
    BY <1>6, <2>1, <2>2 DEF WaitOver
<1>7. CASE EndNormal(g)
  <2>1. PlainTypes'
    BY <1>0, <1>7 DEF IInv, PlainTypes, Goto, table, loop, progress, files, outside, EndNormal, Verdict, Statuses
  <2>2. /\ pc[g] = "finishing" /\ Goto(g, "reschedule")
        /\ runStatus' = [runStatus EXCEPT ![g] = Verdict(g)]
        /\ UNCHANGED <<outcome, tries, history, snapshot, runsFile>>
    BY <1>7 DEF EndNormal, progress, files
  <2>3. (outcome[g] = "ok") \/ (outcome[g] = "error" /\ tries[g] = MaxRetries)
    <3>1. LocalInv /\ pc[g] = "finishing" /\ g \in Slots
      BY <2>2 DEF IInv
    <3> QED
      BY <3>1 DEF LocalInv
  <2>4. Fits(g, "reschedule", Verdict(g), outcome[g], tries[g])
    BY <2>2, <2>3 DEF Fits, Verdict
  <2>5. Verdict(g) # "none"
    BY DEF Verdict
  <2> QED
    BY <1>0, <2>1, <2>2, <2>4, <2>5, QuietRunnerKeeps
<1>8. CASE Reschedule(g)
  <2>1. PlainTypes'
    BY <1>0, <1>8 DEF IInv, PlainTypes, Goto, table, loop, progress, files, outside, Reschedule
  <2>2. /\ pc[g] \in {"reschedule", "quit"}
        /\ UNCHANGED <<runStatus, outcome, tries, history, snapshot, runsFile>>
    BY <1>8 DEF Reschedule, progress, files
  <2>3. PICK place \in {"cleanup", "collecting"} :
           Goto(g, place) /\ (place = "cleanup" => pc[g] = "quit")
    BY <1>8 DEF Reschedule
  <2>4. Fits(g, place, runStatus[g], outcome[g], tries[g])
    BY <2>2, <2>3 DEF Fits, IInv, LocalInv, ResultTrue, Report
  <2> QED
    BY <1>0, <2>1, <2>2, <2>3, <2>4, QuietRunnerKeeps
<1>9. CASE Collect(g)
  <2>1. PlainTypes'
    BY <1>0, <1>9 DEF IInv, PlainTypes, Goto, table, loop, progress, files, outside, Collect
  <2> QED
    BY <1>9, <2>1, CollectKeeps
<1>10. CASE Write(g)
  <2>1. PlainTypes'
    BY <1>0, <1>10 DEF IInv, PlainTypes, Goto, table, loop, progress, files, outside, Write
  <2> QED
    BY <1>10, <2>1, WriteKeeps
<1>11. CASE Cleanup(g)
  <2>1. PlainTypes'
    BY <1>0, <1>11, BoundAssumption DEF IInv, PlainTypes, Goto, table, loop, progress, files, outside, Cleanup
  <2>2. /\ pc[g] = "cleanup" /\ Goto(g, "free")
        /\ outcome' = [outcome EXCEPT ![g] = "none"]
        /\ tries' = [tries EXCEPT ![g] = 0]
        /\ UNCHANGED <<runStatus, history, snapshot, runsFile>>
    BY <1>11 DEF Cleanup, files
  <2>3. Fits(g, "free", runStatus[g], "none", 0)
    BY <2>2 DEF Fits, IInv, LocalInv
  <2> QED
    BY <1>0, <2>1, <2>2, <2>3, QuietRunnerKeeps
<1> QED
  BY <1>1, <1>2, <1>3, <1>4, <1>5, <1>6, <1>7, <1>8, <1>9, <1>10, <1>11 DEF RunTask

-----------------------------------------------------------------------------
(* The calls from outside and the loop.                                    *)
LEMMA CallKeeps ==
    ASSUME IInv, Call
    PROVE  IInv'
<1> USE DEF table, loop, progress, files, outside
<1>0. Edit => edits' \in 0 .. MaxEdits
  BY BoundAssumption DEF Edit, IInv, PlainTypes
<1>1. ASSUME NEW t \in Tasks, AddTask(t) PROVE IInv'
  <2>1. PlainTypes'
    BY <1>0, <1>1 DEF IInv, PlainTypes, TaskStates, Replace, AddTask
  <2> QED
    BY <1>1, <2>1, TableKeeps DEF AddTask
<1>2. ASSUME NEW t \in Tasks, DeleteTask(t) PROVE IInv'
  <2>1. PlainTypes'
    BY <1>0, <1>2 DEF IInv, PlainTypes, TaskStates, Replace, DeleteTask
  <2> QED
    BY <1>2, <2>1, TableKeeps DEF DeleteTask
<1>3. ASSUME NEW t \in Tasks, NEW enabled \in {"enabled", "disabled"},
             UpdateTask(t, enabled)
      PROVE  IInv'
  <2>1. PlainTypes'
    BY <1>0, <1>3 DEF IInv, PlainTypes, TaskStates, Replace, UpdateTask
  <2> QED
    BY <1>3, <2>1, TableKeeps DEF UpdateTask
<1>4. ASSUME NEW t \in Tasks, NEW enabled \in {"enabled", "disabled"},
             SetEnabled(t, enabled)
      PROVE  IInv'
  <2>1. PlainTypes'
    BY <1>0, <1>4 DEF IInv, PlainTypes, TaskStates, Replace, SetEnabled
  <2> QED
    BY <1>4, <2>1, TableKeeps DEF SetEnabled
<1>5. ASSUME NEW t \in Tasks, NEW state \in TaskStates, CliEdit(t, state)
      PROVE  IInv'
  <2>1. PlainTypes'
    BY <1>0, <1>5 DEF IInv, PlainTypes, TaskStates, Replace, CliEdit
  <2> QED
    BY <1>5, <2>1, TableKeeps DEF CliEdit
<1>6. ASSUME NEW g \in Slots, CancelRun(g) PROVE IInv'
  <2>1. PlainTypes'
    BY <1>0, <1>6 DEF IInv, PlainTypes, TaskStates, Replace, CancelRun
  <2> QED
    BY <1>6, <2>1, TableKeeps DEF CancelRun
<1>7. CASE Stop
  <2>1. PlainTypes'
    BY <1>0, <1>7 DEF IInv, PlainTypes, TaskStates, Replace, Stop
  <2> QED
    BY <1>7, <2>1, TableKeeps DEF Stop
<1>8. ASSUME NEW t \in Tasks, ClearHistory(t) PROVE IInv'
  <2>1. PlainTypes'
    BY <1>0, <1>8 DEF IInv, PlainTypes, ClearHistory
  <2>2. /\ history' = [history EXCEPT ![t] = << >>]
        /\ UNCHANGED <<pc, tries, outcome, runStatus, snapshot, runsFile>>
    BY <1>8 DEF ClearHistory
  <2>3. LocalInv' /\ SavedInv' /\ ResultTrue'
    BY <2>2, SavedSame DEF IInv, LocalInv, SavedInv, ResultTrue, Report
  <2>4. HistoryTypes'
    <3>1. << >> \in Seq(Slots) /\ Len(<< >>) = 0 /\ 0 <= RunHistorySize
      BY BoundAssumption
    <3>2. history \in [Tasks -> Seq(Slots)]
      BY DEF IInv, HistoryTypes, Histories
    <3>3. history' \in Histories
      BY <2>2, <3>1, <3>2 DEF Histories
    <3>4. \A u \in Tasks : history'[u] = history[u] \/ history'[u] = << >>
      BY <2>2, <3>2
    <3>5. \A u \in Tasks : Len(history'[u]) <= RunHistorySize
      BY <3>1, <3>4 DEF IInv, HistoryTypes
    <3>6. /\ snapshot' \in [Slots -> Histories]
          /\ runsFile' \in [Tasks -> Seq(Entries)]
      BY <2>2 DEF IInv, HistoryTypes, Histories, Entries
    <3>7. \A u \in Tasks : /\ Len(runsFile'[u]) <= RunHistorySize
                           /\ \A g \in Slots : Len(snapshot'[g][u]) <= RunHistorySize
      BY <2>2 DEF IInv, HistoryTypes
    <3> QED
      BY <3>3, <3>5, <3>6, <3>7 DEF HistoryTypes, Histories
  <2>5. KeptHasStatus'
    <3>1. \A u \in Tasks : history'[u] = history[u] \/ Len(history'[u]) = 0
      BY <2>2 DEF IInv, HistoryTypes, Histories
    <3>2. Runs(history') \subseteq Runs(history)
      BY <3>1 DEF Runs
    <3>3. \A h \in Slots : Runs(snapshot'[h]) \subseteq KeptSlots
      BY <2>2 DEF KeptSlots
    <3>4. Runs(history) \subseteq KeptSlots
      BY DEF KeptSlots
    <3>5. KeptSlots' \subseteq KeptSlots
      BY <3>2, <3>3, <3>4, KeptAfter
    <3> QED
      BY <2>2, <3>5 DEF IInv, KeptHasStatus
  <2> QED
    BY <2>1, <2>3, <2>4, <2>5 DEF IInv
<1>9. ASSUME NEW t \in Tasks, NEW g \in Slots, RunTaskNow(t, g) PROVE IInv'
  <2>1. PlainTypes'
    BY <1>0, <1>9
    DEF IInv, PlainTypes, RunTaskNow, Start, Free, Places, Idle, Running, Finished
  <2> QED
    BY <1>9, <2>1, StartKeeps DEF RunTaskNow
<1>10. CASE Restart
  <2>1. /\ tasks' \in [Tasks -> TaskStates] /\ tasksFile' \in [Tasks -> TaskStates]
        /\ pc' \in [Slots -> Places]
        /\ tries' \in [Slots -> 0 .. MaxRetries]
        /\ outcome' \in [Slots -> Results \union {"none"}]
        /\ owner' \in [Slots -> Tasks]
    BY <1>10, BoundAssumption DEF Restart, IInv, PlainTypes, Places, Idle
  <2>2. runStatus' \in [Slots -> Statuses \union {"none"}]
    <3>1. ASSUME NEW g \in Slots, Loaded(g) # {}
          PROVE  (CHOOSE e \in Loaded(g) : TRUE).status \in Statuses
      <4>1. (CHOOSE e \in Loaded(g) : TRUE) \in Loaded(g)
        BY <3>1
      <4> QED
        BY <4>1, SavedEntries DEF Loaded, Entries, IInv
    <3>2. runStatus' = [g \in Slots |-> IF Loaded(g) = {} THEN "none"
                                       ELSE (CHOOSE e \in Loaded(g) : TRUE).status]
      BY <1>10 DEF Restart
    <3> QED
      BY <3>1, <3>2
  <2>3. PlainTypes'
    BY <1>0, <1>10, <2>1, <2>2 DEF Restart, PlainTypes
  <2> QED
    BY <1>10, <2>3, RestartKeeps
<1> QED
  BY <1>1, <1>2, <1>3, <1>4, <1>5, <1>6, <1>7, <1>8, <1>9, <1>10 DEF Call

LEMMA StepInv == IInv /\ [Next]_vars => IInv'
<1> SUFFICES ASSUME IInv, [Next]_vars PROVE IInv'
  OBVIOUS
<1> USE DEF table, loop, progress, files, outside
<1>1. CASE Tick
  <2>1. PlainTypes'
    BY <1>1 DEF IInv, PlainTypes, Tick
  <2> QED
    BY <1>1, <2>1, TableKeeps DEF Tick
<1>2. CASE LoopExits
  <2>1. PlainTypes'
    BY <1>2 DEF IInv, PlainTypes, LoopExits
  <2> QED
    BY <1>2, <2>1, TableKeeps DEF LoopExits
<1>3. ASSUME NEW t \in Tasks, TimePasses(t) PROVE IInv'
  <2>1. PlainTypes'
    BY <1>3 DEF IInv, PlainTypes, TimePasses
  <2> QED
    BY <1>3, <2>1, TableKeeps DEF TimePasses
<1>4. ASSUME NEW t \in Tasks, NEW g \in Slots, Spawn(t, g) PROVE IInv'
  <2>1. PlainTypes'
    BY <1>4
    DEF IInv, PlainTypes, Spawn, Start, Free, Places, Idle, Running, Finished
  <2> QED
    BY <1>4, <2>1, StartKeeps DEF Spawn
<1>5. ASSUME NEW g \in Slots, CancelMarks(g) PROVE IInv'
  <2>1. /\ runStatus' = [runStatus EXCEPT ![g] = "cancelled"]
        /\ UNCHANGED <<pc, tries, outcome, history, snapshot, runsFile>>
    BY <1>5 DEF CancelMarks
  <2>2. PlainTypes'
    BY <1>5 DEF IInv, PlainTypes, CancelMarks, Statuses
  <2>3. HistoryTypes' /\ Saved' = Saved /\ KeptSlots' = KeptSlots
    BY <2>1, HistorySame, SavedSame, KeptSame DEF IInv
  <2>4. /\ runStatus'[g] = "cancelled"
        /\ \A h \in Slots \ {g} : runStatus'[h] = runStatus[h]
    BY <2>1 DEF IInv, PlainTypes
  <2>5. LocalInv' /\ SavedInv' /\ ResultTrue'
    BY <2>1, <2>3, <2>4 DEF IInv, LocalInv, SavedInv, ResultTrue, Report
  <2>6. KeptHasStatus'
    BY <2>1, <2>3 DEF IInv, PlainTypes, KeptHasStatus
  <2> QED
    BY <2>2, <2>3, <2>5, <2>6 DEF IInv
<1>6. CASE UNCHANGED vars
  <2>1. PlainTypes'
    BY <1>6 DEF IInv, PlainTypes, vars
  <2> QED
    BY <1>6, <2>1, TableKeeps DEF vars
<1> QED
  BY <1>1, <1>2, <1>3, <1>4, <1>5, <1>6, RunTaskKeeps, CallKeeps DEF Next

THEOREM Invariance == Spec => []IInv
<1>1. Init => IInv
  BY InitInv
<1>2. IInv /\ [Next]_vars => IInv'
  BY StepInv
<1> QED
  BY <1>1, <1>2, PTL DEF Spec

-----------------------------------------------------------------------------
(* Every variable of the scheduler keeps its type, and no history outgrows *)
(* runHistorySize, in memory or in runs.json.                              *)
THEOREM SchedulerTypes == Spec => []TypeOK
<1>1. IInv => TypeOK
  BY DEF IInv, PlainTypes, HistoryTypes, TypeOK, Places
<1> QED
  BY <1>1, Invariance, PTL

(* The end of a run is recorded, in memory and, once its goroutine is past *)
(* its save, in runs.json, whatever the order of the saves of other runs   *)
(* and whatever a restart reads back; a cancelled run is the exception in  *)
(* the file (runTask, SaveRuns, LoadPersisted, CancelRun).                 *)
THEOREM EndsAreRecorded == Spec => []EndIsRecorded
<1>1. IInv => EndIsRecorded
  <2>1. SUFFICES ASSUME IInv PROVE EndIsRecorded
    OBVIOUS
  <2>2. Runs(history) \subseteq Slots
    <3>1. history \in [Tasks -> Seq(Slots)]
      BY <2>1 DEF IInv, HistoryTypes, Histories
    <3>2. \A t \in Tasks : \A i \in 1 .. Len(history[t]) : history[t][i] \in Slots
      BY <3>1
    <3> QED
      BY <3>2 DEF Runs
  <2> QED
    BY <2>1, <2>2 DEF IInv, LocalInv, SavedInv, EndIsRecorded
<1> QED
  BY <1>1, Invariance, PTL

(* A reported success is the last attempt's, and a failure comes after the *)
(* last retry, whatever was saved or read in between.                      *)
THEOREM ReportsAreTrue == Spec => []ResultTrue
<1>1. IInv => ResultTrue
  BY DEF IInv
<1> QED
  BY <1>1, Invariance, PTL
=============================================================================
