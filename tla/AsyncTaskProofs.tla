-------------------------- MODULE AsyncTaskProofs --------------------------
(***************************************************************************)
(* Any number of attempts may work on a task: types, and for the tasks     *)
(* whose transitions are guarded, that the charge is adjusted once, and    *)
(* that it is right while nothing fails between two writes.                *)
(***************************************************************************)
EXTENDS AsyncTask, TLAPS

\* What an attempt knows at each of its steps.
Sound(a) ==
    /\ a.pc \in {"token", "quota"} => a.row.quota + a.delta \in Nat
    /\ a.pc \in {"fetch", "cas"} => a.row.status \notin Terminal

\* Temporal waits for an attempt at two steps only, and starts one only when
\* some are left.
FlowInv ==
    /\ flow.on # Nobody => flow.step \in {"poll", "finalize"}
    /\ flow.on = Nobody /\ flow.step # "failed" => flow.tries < MaxTries

\* Types, what every attempt knows, and when Temporal waits.
TaskInv == TypeOK /\ FlowInv /\ \A w \in Workers : Sound(work[w])

\* An attempt that is about to move wallet or token for the end of the task.
Bills(w) == work[w].pc \in {"refund", "settle"}

\* While a task is pending nobody has billed it or is about to, and at most
\* one attempt ever is.  No attempt overwrites the row unasked.
BillInv ==
    /\ task.status \notin Terminal =>
          charge.funding = charge.price /\ \A w \in Workers : ~Bills(w)
    /\ \A w \in Workers : Bills(w) => charge.funding = charge.price
    /\ \A v, w \in Workers : Bills(v) /\ Bills(w) => v = w
    /\ \A w \in Workers : work[w].pc # "save"

\* An attempt that has seen the task end has seen the end it has.
ResultInv ==
    "channel" \notin faults.kinds =>
        /\ result \in {"none", task.status}
        /\ \A w \in Workers : work[w].row.status \in Terminal =>
                                 work[w].row.status = task.status

-----------------------------------------------------------------------------
(* Lemmas *)

\* One worker's attempt moves.
LEMMA Moves ==
    ASSUME TaskInv, NEW w \in Workers, NEW a \in Attempt \cup {Idle},
           Sound(a), Become(w, a)
    PROVE  /\ work' \in [Workers -> Attempt \cup {Idle}]
           /\ \A v \in Workers : Sound(work'[v])
           /\ \A v \in Workers : work'[v] = IF v = w THEN a ELSE work[v]
<1>1. work \in [Workers -> Attempt \cup {Idle}]
  BY DEF TaskInv, TypeOK
<1>2. work' = [work EXCEPT ![w] = a]
  BY DEF Become
<1>3. \A v \in Workers : work'[v] = IF v = w THEN a ELSE work[v]
  BY <1>1, <1>2
<1>4. work' \in [Workers -> Attempt \cup {Idle}]
  BY <1>1, <1>2
<1>5. \A v \in Workers : Sound(work'[v])
  BY <1>3 DEF TaskInv
<1> QED
  BY <1>3, <1>4, <1>5

\* The fields of an attempt that is not idle.
LEMMA AttemptTyped ==
    ASSUME TaskInv, NEW w \in Workers, work[w].pc # "idle"
    PROVE  /\ work[w] \in Attempt
           /\ Sound(work[w])
           /\ work[w].row \in Row
           /\ work[w].row.quota \in Nat
           /\ work[w].delta \in Int
<1>1. work[w] \in Attempt \cup {Idle} /\ Sound(work[w])
  BY DEF TaskInv, TypeOK
<1>2. work[w] \in Attempt
  BY <1>1 DEF Idle
<1> QED
  BY <1>1, <1>2 DEF Attempt, Row, NoTask

\* A worker between attempts.
LEMMA IdleTyped == Idle \in Attempt \cup {Idle} /\ Sound(Idle)
BY DEF Idle, Sound

\* A failure is counted within its bound.
LEMMA FaultTyped ==
    ASSUME TaskInv, NEW kind, Fault(kind)
    PROVE  faults' \in [count : 0..MaxFaults, kinds : SUBSET Faults]
<1>1. faults \in [count : 0..MaxFaults, kinds : SUBSET Faults]
  BY DEF TaskInv, TypeOK
<1>2. kind \in Faults /\ faults.count < MaxFaults
  BY DEF Fault
<1>3. faults.count + 1 \in 0..MaxFaults
  BY <1>1, <1>2, ConstantsAssumption
<1>4. faults.kinds \cup {kind} \in SUBSET Faults
  BY <1>1, <1>2
<1> QED
  BY <1>3, <1>4 DEF Fault

\* The workflow may wait for nobody at any step it has tries left for.
Waiting(f) == f \in Flow /\ f.on = Nobody /\ (f.step # "failed" => f.tries < MaxTries)

\* After a retry, and at every step of the workflow, Temporal waits for nobody.
LEMMA RetryWaits ==
    ASSUME TaskInv PROVE Waiting(Retry)
<1>1. flow \in Flow
  BY DEF TaskInv, TypeOK
<1>2. Retry \in Flow /\ Retry.on = Nobody /\ Retry.tries = flow.tries
  BY <1>1 DEF Retry, Flow
<1>3. Retry.step # "failed" => flow.tries # MaxTries
  BY <1>1 DEF Retry, Flow
<1>4. flow.tries # MaxTries => flow.tries < MaxTries
  BY <1>1, ConstantsAssumption DEF Flow
<1> QED
  BY <1>2, <1>3, <1>4 DEF Waiting

\* The same at a given step.
LEMMA StepWaits ==
    ASSUME TaskInv,
           NEW step \in {"record", "submit", "poll", "snapshot", "finalize", "refund",
                         "project", "closed", "expired"}
    PROVE  Waiting(At(step))
<1>1. flow \in Flow
  BY DEF TaskInv, TypeOK
<1>2. 0 \in 0..MaxTries /\ 0 < MaxTries
  BY ConstantsAssumption
<1>3. At(step) \in Flow /\ At(step).on = Nobody /\ At(step).tries = 0
  BY <1>1, <1>2 DEF At, Flow
<1> QED
  BY <1>1, <1>2, <1>3 DEF Flow, Waiting

\* The same after a poll or an end is reported.
LEMMA ReportsWait ==
    ASSUME TaskInv, NEW status
    PROVE  Waiting(Polled(status)) /\ Waiting(Finalized(status))
<1>1. Waiting(At("snapshot")) /\ Waiting(At("refund")) /\ Waiting(At("project"))
  BY StepWaits
<1>2. (status \in Terminal) \in BOOLEAN
  BY DEF Terminal
<1>3. Waiting(Polled(status))
  BY <1>1, <1>2 DEF Polled, Waiting, Flow, At
<1> QED
  BY <1>1, <1>3 DEF Finalized

\* An attempt ends; the workflow hears of it if it waits for it.
LEMMA CompletedTyped ==
    ASSUME TaskInv, NEW w \in Workers, NEW next, Waiting(next), Completed(w, next)
    PROVE  /\ flow' \in Flow
           /\ FlowInv'
           /\ work' \in [Workers -> Attempt \cup {Idle}]
           /\ \A v \in Workers : Sound(work'[v])
           /\ \A v \in Workers : work'[v] = IF v = w THEN Idle ELSE work[v]
<1>1. flow' = IF flow.on = w THEN next ELSE flow
  BY DEF Completed
<1>2. flow' \in Flow /\ FlowInv'
  BY <1>1 DEF TaskInv, TypeOK, FlowInv, Waiting
<1>3. Become(w, Idle)
  BY DEF Completed
<1> QED
  BY <1>2, <1>3, Moves, IdleTyped

-----------------------------------------------------------------------------
(* Types *)

\* Nobody works on a task that is not submitted.
LEMMA InitTyped == Init => TaskInv
<1> SUFFICES ASSUME Init PROVE TaskInv
  OBVIOUS
<1>1. task \in Row
  BY DEF Init, Row, NoTask
<1>2. charge \in [price : Prices, funding : Int, token : Int]
  BY ConstantsAssumption DEF Init
<1>3. flow \in Flow /\ FlowInv
  BY ConstantsAssumption DEF Init, Flow, FlowInv
<1>4. work \in [Workers -> Attempt \cup {Idle}] /\ \A w \in Workers : Sound(work[w])
  BY IdleTyped DEF Init
<1>5. late \in BOOLEAN /\ result \in Terminal \cup {"none"}
  BY DEF Init
<1>6. faults \in [count : 0..MaxFaults, kinds : SUBSET Faults]
  BY ConstantsAssumption DEF Init
<1> QED
  BY <1>1, <1>2, <1>3, <1>4, <1>5, <1>6 DEF TaskInv, TypeOK

\* The submission, the deadline and the steps of the workflow itself.
LEMMA FlowTyped ==
    ASSUME TaskInv,
           \/ InsertTask \/ InsertFails \/ StartWorkflow \/ StartFails
           \/ DeadlinePasses \/ Bookkeep \/ BookkeepFails \/ WorkflowExpires
    PROVE  TaskInv'
<1> USE DEF TaskInv
<1>1. CASE InsertTask
  <2>1. task' \in Row
    BY <1>1, ConstantsAssumption DEF InsertTask, Row, Pending, TypeOK
  <2> QED
    BY <1>1, <2>1 DEF InsertTask, TypeOK, FlowInv
<1>2. CASE InsertFails
  <2>1. faults' \in [count : 0..MaxFaults, kinds : SUBSET Faults]
    BY <1>2, FaultTyped DEF InsertFails
  <2>2. flow' \in Flow /\ FlowInv'
    BY <1>2 DEF InsertFails, TypeOK, Flow, FlowInv
  <2> QED
    BY <1>2, <2>1, <2>2 DEF InsertFails, TypeOK
<1>3. CASE StartWorkflow
  <2>1. flow' \in Flow /\ FlowInv'
    BY <1>3 DEF StartWorkflow, TypeOK, Flow, FlowInv
  <2> QED
    BY <1>3, <2>1 DEF StartWorkflow, TypeOK
<1>4. CASE StartFails
  <2>1. faults' \in [count : 0..MaxFaults, kinds : SUBSET Faults]
    BY <1>4, FaultTyped DEF StartFails
  <2>2. flow' \in Flow /\ FlowInv'
    BY <1>4 DEF StartFails, TypeOK, Flow, FlowInv
  <2> QED
    BY <1>4, <2>1, <2>2 DEF StartFails, TypeOK
<1>5. CASE DeadlinePasses
  BY <1>5 DEF DeadlinePasses, TypeOK, FlowInv
<1>6. CASE Bookkeep
  <2>1. Round \in {"poll", "finalize"}
    BY DEF Round
  <2>2. Waiting(flow')
    BY <1>6, <2>1, StepWaits DEF Bookkeep
  <2>3. flow' \in Flow /\ FlowInv'
    BY <2>2 DEF Waiting, FlowInv
  <2> QED
    BY <1>6, <2>3 DEF Bookkeep, TypeOK
<1>7. CASE BookkeepFails
  <2>1. faults' \in [count : 0..MaxFaults, kinds : SUBSET Faults]
    BY <1>7, FaultTyped DEF BookkeepFails
  <2>2. flow.on = Nobody /\ flow.tries < MaxTries /\ flow \in Flow
    BY <1>7 DEF BookkeepFails, FlowInv, TypeOK
  <2>3. flow.tries + 1 \in 0..MaxTries
    BY <2>2, ConstantsAssumption DEF Flow
  <2>4. flow' \in Flow /\ flow'.on = Nobody /\ flow'.tries = flow.tries + 1
    BY <1>7, <2>2, <2>3 DEF BookkeepFails, Flow
  <2>5. flow'.step # "failed" => flow.tries + 1 # MaxTries
    BY <1>7, <2>2 DEF BookkeepFails, Flow
  <2>6. FlowInv'
    BY <2>2, <2>3, <2>4, <2>5, ConstantsAssumption DEF FlowInv, Flow
  <2> QED
    BY <1>7, <2>1, <2>4, <2>6 DEF BookkeepFails, TypeOK
<1>8. CASE WorkflowExpires
  <2>1. Waiting(At("expired"))
    BY StepWaits
  <2> QED
    BY <1>8, <2>1 DEF WorkflowExpires, Waiting, FlowInv, TypeOK
<1> QED
  BY <1>1, <1>2, <1>3, <1>4, <1>5, <1>6, <1>7, <1>8

\* The parts of the invariant an attempt must restore.
LEMMA StepTyped ==
    ASSUME TaskInv, NEW w \in Workers, NEW a \in Attempt \cup {Idle}, Sound(a),
           Become(w, a), flow' = flow, late' = late,
           task' \in Row,
           charge' \in [price : Prices, funding : Int, token : Int],
           result' = result,
           faults' \in [count : 0..MaxFaults, kinds : SUBSET Faults]
    PROVE  TaskInv'
<1>1. work' \in [Workers -> Attempt \cup {Idle}] /\ \A v \in Workers : Sound(work'[v])
  BY Moves
<1>2. TypeOK'
  BY <1>1 DEF TypeOK, TaskInv
<1>3. FlowInv'
  BY DEF TaskInv, FlowInv
<1> QED
  BY <1>1, <1>2, <1>3 DEF TaskInv

\* The same when the attempt ends.
LEMMA EndTyped ==
    ASSUME TaskInv, NEW w \in Workers, NEW next, Waiting(next), Completed(w, next),
           task' = task, charge' = charge, late' = late,
           result' \in Terminal \cup {"none"},
           faults' \in [count : 0..MaxFaults, kinds : SUBSET Faults]
    PROVE  TaskInv'
<1>1. /\ flow' \in Flow
      /\ FlowInv'
      /\ work' \in [Workers -> Attempt \cup {Idle}]
      /\ \A v \in Workers : Sound(work'[v])
  BY CompletedTyped
<1>2. TypeOK'
  BY <1>1 DEF TypeOK, TaskInv
<1> QED
  BY <1>1, <1>2 DEF TaskInv

\* An attempt goes to a step that asks nothing new of it.
LEMMA GotoTyped ==
    ASSUME TaskInv, NEW w \in Workers, work[w].pc # "idle",
           NEW pc \in {"save", "refresh", "upsert", "quota"},
           pc = "quota" => work[w].row.quota + work[w].delta \in Nat
    PROVE  LET a == [work[w] EXCEPT !.pc = pc]
           IN  a \in Attempt \cup {Idle} /\ Sound(a)
<1>1. work[w] \in Attempt
  BY AttemptTyped
<1> QED
  BY <1>1 DEF Attempt, Sound

\* Where an attempt goes after the billing it does or skips.
LEMMA AfterBillingTyped ==
    ASSUME NEW w \in Workers
    PROVE  /\ AfterBilling(w) \in {"save", "refresh", "upsert"}
           /\ AfterToken(w) \in {"save", "refresh", "upsert", "quota"}
BY DEF AfterBilling, AfterToken

\* The workflow starts an attempt, or gives one up.
LEMMA BeginTyped ==
    ASSUME TaskInv, NEW w \in Workers, Begin(w) \/ Overrun(w)
    PROVE  TaskInv'
<1>1. CASE Begin(w)
  <2>1. flow \in Flow /\ flow.step \in {"poll", "finalize"} /\ flow.tries < MaxTries
    BY <1>1 DEF Begin, TaskInv, TypeOK, FlowInv
  <2>2. flow.tries + 1 \in 0..MaxTries
    BY <2>1, ConstantsAssumption DEF Flow
  <2>3. flow' \in Flow /\ flow'.on = w /\ flow'.step = flow.step
    BY <1>1, <2>1, <2>2 DEF Begin, Flow
  <2>4. FlowInv'
    BY <2>1, <2>3, ConstantsAssumption DEF FlowInv
  <2>5. Fresh(flow.step) \in Attempt \cup {Idle} /\ Sound(Fresh(flow.step))
    <3>1. NoTask \in Row
      BY DEF NoTask, Row
    <3> QED
      BY <2>1, <3>1 DEF Fresh, Attempt, Sound
  <2>6. Become(w, Fresh(flow.step))
    BY <1>1 DEF Begin
  <2>7. work' \in [Workers -> Attempt \cup {Idle}] /\ \A v \in Workers : Sound(work'[v])
    BY <2>5, <2>6, Moves
  <2>8. TypeOK'
    BY <1>1, <2>3, <2>7 DEF Begin, TaskInv, TypeOK
  <2> QED
    BY <2>4, <2>7, <2>8 DEF TaskInv
<1>2. CASE Overrun(w)
  <2>1. Waiting(flow')
    BY <1>2, RetryWaits DEF Overrun
  <2>2. flow' \in Flow /\ FlowInv'
    BY <2>1 DEF Waiting, FlowInv
  <2>3. faults' \in [count : 0..MaxFaults, kinds : SUBSET Faults]
    BY <1>2, FaultTyped DEF Overrun
  <2> QED
    BY <1>2, <2>2, <2>3 DEF Overrun, TaskInv, TypeOK
<1> QED
  BY <1>1, <1>2

\* What every step that does not touch the row, the charge or the faults keeps.
LEMMA Kept ==
    ASSUME TaskInv
    PROVE  /\ task \in Row
           /\ charge \in [price : Prices, funding : Int, token : Int]
           /\ result \in Terminal \cup {"none"}
           /\ faults \in [count : 0..MaxFaults, kinds : SUBSET Faults]
BY DEF TaskInv, TypeOK

\* Reading the row and asking the upstream.
LEMMA ReadTyped ==
    ASSUME TaskInv, NEW w \in Workers,
           \/ Load(w) \/ FetchNothing(w)
           \/ \E answer \in Answers : FetchVideo(w, answer) \/ FetchSuno(w, answer)
    PROVE  TaskInv'
<1> USE Kept
<1>1. CASE Load(w)
  <2>1. work[w] \in Attempt
    BY <1>1, AttemptTyped DEF Load, Is
  <2>2. CASE Completed(w, Polled(task.status))
    BY <1>1, <2>2, ReportsWait, EndTyped DEF Load
  <2>3. CASE /\ task.status \notin Terminal
             /\ Become(w, [work[w] EXCEPT !.row = task, !.pc = "fetch"])
             /\ UNCHANGED flow
    <3> DEFINE a == [work[w] EXCEPT !.row = task, !.pc = "fetch"]
    <3>1. a \in Attempt \cup {Idle} /\ Sound(a)
      BY <2>1, <2>3 DEF Attempt, Sound
    <3> HIDE DEF a
    <3> QED
      BY <1>1, <2>3, <3>1, StepTyped DEF Load, a
  <2>4. CASE /\ Become(w, [work[w] EXCEPT
                             !.row = task,
                             !.to = "FAILURE",
                             !.pc = IF late /\ task.status \notin Terminal
                                    THEN "cas" ELSE "upsert"])
             /\ UNCHANGED flow
    <3> DEFINE pc == IF late /\ task.status \notin Terminal THEN "cas" ELSE "upsert"
               a == [work[w] EXCEPT !.row = task, !.to = "FAILURE", !.pc = pc]
    <3>1. pc \in {"cas", "upsert"} /\ (pc = "cas" => task.status \notin Terminal)
      OBVIOUS
    <3>2. Become(w, a)
      BY <2>4
    <3> HIDE DEF pc
    <3>3. a \in Attempt \cup {Idle} /\ Sound(a)
      BY <2>1, <3>1 DEF Attempt, Sound, Terminal
    <3> HIDE DEF a
    <3> QED
      BY <1>1, <2>4, <3>2, <3>3, StepTyped DEF Load
  <2> QED
    BY <1>1, <2>2, <2>3, <2>4 DEF Load
<1>2. CASE FetchNothing(w)
  <2> DEFINE a == [work[w] EXCEPT !.pc = "refresh"]
  <2>1. work[w].pc # "idle" /\ Become(w, a)
    BY <1>2 DEF FetchNothing, Is, Goto
  <2>2. a \in Attempt \cup {Idle} /\ Sound(a)
    BY <2>1, GotoTyped
  <2> HIDE DEF a
  <2> QED
    BY <1>2, <2>1, <2>2, StepTyped DEF FetchNothing
<1>3. ASSUME NEW answer \in Answers, FetchVideo(w, answer)
      PROVE  TaskInv'
  <2> DEFINE a == [work[w] EXCEPT !.to = answer.status, !.pc = "cas"]
  <2>1. work[w] \in Attempt /\ Sound(work[w]) /\ work[w].pc = "fetch" /\ Become(w, a)
    BY <1>3, AttemptTyped DEF FetchVideo, Is
  <2>2. answer.status \in Pending \cup Terminal
    BY ConstantsAssumption
  <2>3. a \in Attempt \cup {Idle} /\ Sound(a)
    BY <2>1, <2>2 DEF Attempt, Sound
  <2> HIDE DEF a
  <2> QED
    BY <1>3, <2>1, <2>3, StepTyped DEF FetchVideo
<1>4. ASSUME NEW answer \in Answers, FetchSuno(w, answer)
      PROVE  TaskInv'
  <2> DEFINE pc == IF /\ answer.status = "FAILURE" \/ answer.reason
                      /\ work[w].row.quota # 0
                   THEN "refund" ELSE "save"
             a == [work[w] EXCEPT !.to = answer.status, !.pc = pc]
  <2>1. work[w] \in Attempt /\ work[w].pc = "fetch" /\ Become(w, a)
    BY <1>4, AttemptTyped DEF FetchSuno, Is
  <2>2. answer.status \in Pending \cup Terminal
    BY ConstantsAssumption
  <2>3. pc \in {"refund", "save"}
    OBVIOUS
  <2> HIDE DEF pc
  <2>4. a \in Attempt \cup {Idle} /\ Sound(a)
    BY <2>1, <2>2, <2>3 DEF Attempt, Sound
  <2> HIDE DEF a
  <2> QED
    BY <1>4, <2>1, <2>4, StepTyped DEF FetchSuno
<1> QED
  BY <1>1, <1>2, <1>3, <1>4

\* The transition of the row, won, lost or failed.
LEMMA CasTyped ==
    ASSUME TaskInv, NEW w \in Workers, Cas(w) \/ CasFails(w)
    PROVE  TaskInv'
<1> USE Kept
<1>1. work[w] \in Attempt /\ work[w].row \in Row /\ work[w].pc # "idle"
  BY AttemptTyped DEF Cas, CasFails, Is
<1>2. CASE CasFails(w)
  <2>1. faults' \in [count : 0..MaxFaults, kinds : SUBSET Faults]
    BY <1>2, FaultTyped DEF CasFails
  <2>2. CASE Goto(w, "refresh") /\ UNCHANGED flow
    <3> DEFINE a == [work[w] EXCEPT !.pc = "refresh"]
    <3>1. a \in Attempt \cup {Idle} /\ Sound(a) /\ Become(w, a)
      BY <1>1, <2>2, GotoTyped DEF Goto
    <3> HIDE DEF a
    <3> QED
      BY <1>2, <2>1, <2>2, <3>1, StepTyped DEF CasFails
  <2>3. CASE Failed(w)
    BY <1>2, <2>1, <2>3, RetryWaits, EndTyped DEF CasFails, Failed
  <2> QED
    BY <1>2, <2>2, <2>3 DEF CasFails
<1>3. CASE Cas(w) /\ Guarded(w)
  <2> DEFINE row == [work[w].row EXCEPT !.status = work[w].to]
             a == [work[w] EXCEPT !.row.status = work[w].to, !.pc = AfterWin(w)]
  <2>1. task' = row /\ Become(w, a) /\ UNCHANGED <<charge, flow, late, result, faults>>
    BY <1>3 DEF Cas
  <2>2. row \in Row
    BY <1>1 DEF Attempt, Row
  <2>3. AfterWin(w) \in {"refund", "settle", "save", "refresh", "upsert"}
    BY AfterBillingTyped DEF AfterWin
  <2>4. a = [work[w] EXCEPT !.row = row, !.pc = AfterWin(w)]
    BY <1>1 DEF Attempt
  <2> HIDE DEF row
  <2>5. a \in Attempt \cup {Idle} /\ Sound(a)
    BY <1>1, <2>2, <2>3, <2>4 DEF Attempt, Sound
  <2> HIDE DEF a
  <2> QED
    BY <2>1, <2>2, <2>5, StepTyped
<1>4. CASE Cas(w) /\ ~Guarded(w)
  <2> DEFINE a == [work[w] EXCEPT !.row = task, !.pc = AfterBilling(w)]
  <2>1. Become(w, a) /\ UNCHANGED <<task, charge, flow, late, result, faults>>
    BY <1>4 DEF Cas
  <2>2. a \in Attempt \cup {Idle} /\ Sound(a)
    BY <1>1, AfterBillingTyped DEF Attempt, Sound
  <2> HIDE DEF a
  <2> QED
    BY <2>1, <2>2, StepTyped
<1> QED
  BY <1>2, <1>3, <1>4

\* What the winner does: wallet, token, row.
LEMMA BillingTyped ==
    ASSUME TaskInv, NEW w \in Workers,
           \/ Refund(w) \/ (\E usage \in Usages : Settle(w, usage)) \/ SettleNothing(w)
           \/ WalletFails(w) \/ Token(w) \/ TokenFails(w)
    PROVE  TaskInv'
<1> USE Kept
<1>1. /\ work[w] \in Attempt /\ Sound(work[w]) /\ work[w].pc # "idle"
      /\ work[w].row.quota \in Nat /\ work[w].delta \in Int
  BY AttemptTyped
     DEF Refund, Settle, SettleNothing, WalletFails, Token, TokenFails, Is
<1>2. ASSUME NEW delta \in Int, work[w].row.quota + delta \in Nat,
             charge' = [charge EXCEPT !.funding = @ + delta],
             Become(w, [work[w] EXCEPT !.delta = delta, !.pc = "token"]),
             UNCHANGED <<task, flow, late, result, faults>>
      PROVE  TaskInv'
  <2> DEFINE a == [work[w] EXCEPT !.delta = delta, !.pc = "token"]
  <2>1. a \in Attempt \cup {Idle} /\ Sound(a)
    BY <1>1, <1>2 DEF Attempt, Sound
  <2>2. charge' \in [price : Prices, funding : Int, token : Int]
    BY <1>2
  <2> HIDE DEF a
  <2> QED
    BY <1>2, <2>1, <2>2, StepTyped DEF a
<1>3. CASE Refund(w)
  <2>1. /\ -work[w].row.quota \in Int
        /\ work[w].row.quota + -work[w].row.quota \in Nat
        /\ charge.funding - work[w].row.quota = charge.funding + -work[w].row.quota
    BY <1>1
  <2> QED
    BY <1>2, <1>3, <2>1 DEF Refund
<1>4. ASSUME NEW usage \in Usages, Settle(w, usage) PROVE TaskInv'
  <2>1. usage \in Nat
    BY ConstantsAssumption
  <2>2. /\ usage - work[w].row.quota \in Int
        /\ work[w].row.quota + (usage - work[w].row.quota) \in Nat
        /\ charge.funding + usage - work[w].row.quota
              = charge.funding + (usage - work[w].row.quota)
    BY <1>1, <2>1
  <2> QED
    BY <1>2, <1>4, <2>2 DEF Settle
<1>5. ASSUME NEW pc \in {"save", "refresh", "upsert", "quota"}, Goto(w, pc),
             pc = "quota" => work[w].row.quota + work[w].delta \in Nat,
             charge' \in [price : Prices, funding : Int, token : Int],
             faults' \in [count : 0..MaxFaults, kinds : SUBSET Faults],
             UNCHANGED <<task, flow, late, result>>
      PROVE  TaskInv'
  <2> DEFINE a == [work[w] EXCEPT !.pc = pc]
  <2>1. a \in Attempt \cup {Idle} /\ Sound(a)
    BY <1>1, <1>5, GotoTyped
  <2>2. Become(w, a)
    BY <1>5 DEF Goto
  <2> HIDE DEF a
  <2> QED
    BY <1>5, <2>1, <2>2, StepTyped
<1>6. CASE SettleNothing(w)
  BY <1>5, <1>6, AfterBillingTyped DEF SettleNothing
<1>7. CASE WalletFails(w)
  BY <1>5, <1>7, AfterBillingTyped, FaultTyped DEF WalletFails
<1>8. CASE Token(w) \/ TokenFails(w)
  <2>1. work[w].row.quota + work[w].delta \in Nat
    BY <1>1, <1>8 DEF Sound, Token, TokenFails, Is
  <2>2. charge' \in [price : Prices, funding : Int, token : Int]
    BY <1>1, <1>8 DEF Token, TokenFails
  <2>3. faults' \in [count : 0..MaxFaults, kinds : SUBSET Faults]
    BY <1>8, FaultTyped DEF Token, TokenFails
  <2>4. Goto(w, AfterToken(w)) /\ UNCHANGED <<task, flow, late, result>>
    BY <1>8 DEF Token, TokenFails
  <2> QED
    BY <1>5, <2>1, <2>2, <2>3, <2>4, AfterBillingTyped
<1> QED
  BY <1>3, <1>4, <1>6, <1>7, <1>8

\* Writes of the row by an attempt that no longer asks whether it may.
LEMMA WriteTyped ==
    ASSUME TaskInv, NEW w \in Workers,
           WriteQuota(w) \/ Save(w) \/ WriteFails(w) \/ ChannelMissing(w)
    PROVE  TaskInv'
<1> USE Kept
<1> DEFINE a == [work[w] EXCEPT !.pc = "refresh"]
<1>1. /\ work[w] \in Attempt /\ Sound(work[w]) /\ work[w].pc # "idle"
      /\ work[w].row \in Row
      /\ Become(w, a)
  BY AttemptTyped DEF WriteQuota, Save, WriteFails, ChannelMissing, Is, Goto
<1>2. a \in Attempt \cup {Idle} /\ Sound(a)
  BY <1>1, GotoTyped
<1> HIDE DEF a
<1>3. CASE WriteQuota(w)
  <2>1. work[w].row.quota + work[w].delta \in Nat
    BY <1>1, <1>3 DEF WriteQuota, Is, Sound
  <2>2. task' \in Row
    BY <1>3, <2>1 DEF WriteQuota, Row
  <2> QED
    BY <1>1, <1>2, <1>3, <2>2, StepTyped DEF WriteQuota
<1>4. CASE Save(w)
  <2>1. task' \in Row
    BY <1>1, <1>4 DEF Save, Row, Attempt
  <2> QED
    BY <1>1, <1>2, <1>4, <2>1, StepTyped DEF Save
<1>5. CASE WriteFails(w)
  <2>1. faults' \in [count : 0..MaxFaults, kinds : SUBSET Faults]
    BY <1>5, FaultTyped DEF WriteFails
  <2> QED
    BY <1>1, <1>2, <1>5, <2>1, StepTyped DEF WriteFails
<1>6. CASE ChannelMissing(w)
  <2>1. faults' \in [count : 0..MaxFaults, kinds : SUBSET Faults]
    BY <1>6, FaultTyped DEF ChannelMissing
  <2>2. task' \in Row
    BY <1>6 DEF ChannelMissing, Row, Terminal
  <2> QED
    BY <1>1, <1>2, <1>6, <2>1, <2>2, StepTyped DEF ChannelMissing
<1> QED
  BY <1>3, <1>4, <1>5, <1>6

\* The end of an attempt, whether it reports or fails.
LEMMA ReportTyped ==
    ASSUME TaskInv, NEW w \in Workers,
           Refresh(w) \/ Upsert(w) \/ ReadFails(w) \/ Crash(w)
    PROVE  TaskInv'
<1> USE Kept
<1>1. CASE Refresh(w)
  BY <1>1, ReportsWait, EndTyped DEF Refresh
<1>2. CASE Upsert(w)
  <2>1. Waiting(Finalized(work[w].row.status)) /\ Waiting(Retry)
    BY ReportsWait, RetryWaits
  <2>2. result' \in Terminal \cup {"none"}
    BY <1>2 DEF Upsert
  <2> QED
    BY <1>2, <2>1, <2>2, EndTyped DEF Upsert, Failed
<1>3. CASE ReadFails(w)
  BY <1>3, RetryWaits, FaultTyped, EndTyped DEF ReadFails, Failed
<1>4. CASE Crash(w)
  BY <1>4, RetryWaits, FaultTyped, EndTyped DEF Crash, Failed
<1> QED
  BY <1>1, <1>2, <1>3, <1>4

\* Every step keeps what an attempt knows and when Temporal waits.
LEMMA NextTyped == TaskInv /\ [Next]_taskVars => TaskInv'
<1> SUFFICES ASSUME TaskInv, [Next]_taskVars PROVE TaskInv'
  OBVIOUS
<1>1. CASE \/ InsertTask \/ InsertFails \/ StartWorkflow \/ StartFails
           \/ DeadlinePasses \/ Bookkeep \/ BookkeepFails \/ WorkflowExpires
  BY <1>1, FlowTyped
<1>2. ASSUME NEW w \in Workers, Begin(w) \/ Work(w) \/ Failure(w)
      PROVE  TaskInv'
  BY <1>2, BeginTyped, ReadTyped, CasTyped, BillingTyped, WriteTyped, ReportTyped
     DEF Work, Failure
<1>3. CASE UNCHANGED taskVars
  BY <1>3 DEF taskVars, TaskInv, TypeOK, FlowInv
<1> QED
  BY <1>1, <1>2, <1>3 DEF Next

\* On every platform, whatever fails.
LEMMA TaskInvariance == TaskSafety => []TaskInv
BY InitTyped, NextTyped, PTL DEF TaskSafety

\* Types hold however many attempts overlap and whatever fails.
THEOREM TaskTypeCorrect == TaskSafety => []TypeOK
<1>1. TaskInv => TypeOK
  BY DEF TaskInv
<1> QED
  BY <1>1, TaskInvariance, PTL

-----------------------------------------------------------------------------
(* Who bills, on a platform whose transitions are guarded *)

\* A step after which nobody bills who did not before.
LEMMA QuietBill ==
    ASSUME TaskInv, BillInv, NEW w \in Workers, NEW a, Become(w, a),
           a.pc \notin {"refund", "settle", "save"},
           charge'.funding = charge.funding, charge'.price = charge.price,
           task'.status = task.status \/ task'.status \in Terminal
    PROVE  BillInv'
<1>1. \A v \in Workers : work'[v] = IF v = w THEN a ELSE work[v]
  BY DEF TaskInv, TypeOK, Become
<1>2. \A v \in Workers : Bills(v)' => Bills(v)
  BY <1>1 DEF Bills
<1>3. \A v \in Workers : work'[v].pc # "save"
  BY <1>1 DEF BillInv
<1> QED
  BY <1>2, <1>3 DEF BillInv

\* Where the billing of a video task ends.
LEMMA VideoEnds ==
    ASSUME Platform = "video", NEW w \in Workers
    PROVE  /\ AfterBilling(w) \in {"refresh", "upsert"}
           /\ AfterToken(w) \in {"refresh", "upsert", "quota"}
BY DEF AfterBilling, AfterToken

\* An attempt that goes on to a step that does not bill bills nothing.
LEMMA GotoBill ==
    ASSUME TaskInv, BillInv, NEW w \in Workers, work[w].pc # "idle",
           NEW pc \in {"refresh", "upsert", "quota"}, Goto(w, pc),
           charge'.funding = charge.funding, charge'.price = charge.price,
           task'.status = task.status \/ task'.status \in Terminal
    PROVE  BillInv'
<1>1. [work[w] EXCEPT !.pc = pc].pc = pc
  BY AttemptTyped DEF Attempt
<1> QED
  BY <1>1, QuietBill DEF Goto

\* An attempt that ends bills nothing.
LEMMA EndBill ==
    ASSUME TaskInv, BillInv, NEW w \in Workers, NEW next, Completed(w, next),
           UNCHANGED <<task, charge>>
    PROVE  BillInv'
BY QuietBill DEF Completed, Idle

\* The winner of the last transition becomes the one that bills.
LEMMA CasBill ==
    ASSUME TaskInv, BillInv, Platform = "video", NEW w \in Workers, Cas(w)
    PROVE  BillInv'
<1>1. /\ work[w] \in Attempt /\ work[w].row \in Row
      /\ work[w].row.status \notin Terminal
      /\ UNCHANGED charge
  BY AttemptTyped DEF Cas, Is, Sound
<1>2. work \in [Workers -> Attempt \cup {Idle}]
  BY DEF TaskInv, TypeOK
<1>3. CASE Guarded(w)
  <2>1. /\ task.status \notin Terminal
        /\ charge.funding = charge.price
        /\ \A v \in Workers : ~Bills(v)
    BY <1>1, <1>3 DEF Guarded, BillInv
  <2>2. /\ task' = [work[w].row EXCEPT !.status = work[w].to]
        /\ Become(w, [work[w] EXCEPT !.row.status = work[w].to, !.pc = AfterWin(w)])
    BY <1>3 DEF Cas
  <2>3. task'.status = work[w].to
    BY <1>1, <2>2 DEF Row
  <2>4. work'[w].pc = AfterWin(w) /\ \A v \in Workers : v # w => work'[v] = work[v]
    BY <1>1, <1>2, <2>2 DEF Become, Attempt
  <2>5. /\ AfterWin(w) # "save"
        /\ AfterWin(w) \in {"refund", "settle"} => work[w].to \in Terminal
    BY VideoEnds DEF AfterWin, Terminal
  <2>6. \A v \in Workers : Bills(v)' => v = w /\ task'.status \in Terminal
    BY <2>1, <2>3, <2>4, <2>5 DEF Bills
  <2>7. \A v \in Workers : work'[v].pc # "save"
    BY <2>4, <2>5 DEF BillInv
  <2> QED
    BY <1>1, <2>1, <2>6, <2>7 DEF BillInv
<1>4. CASE ~Guarded(w)
  <2>1. [work[w] EXCEPT !.row = task, !.pc = AfterBilling(w)].pc = AfterBilling(w)
    BY <1>1 DEF Attempt
  <2> QED
    BY <1>1, <1>4, <2>1, VideoEnds, QuietBill DEF Cas
<1> QED
  BY <1>3, <1>4

\* Once it has billed, nobody bills any more.
LEMMA PayBill ==
    ASSUME TaskInv, BillInv, NEW w \in Workers,
           Refund(w) \/ \E usage \in Usages : Settle(w, usage)
    PROVE  BillInv'
<1>1. /\ work[w] \in Attempt /\ Bills(w) /\ UNCHANGED task
      /\ \E delta : Become(w, [work[w] EXCEPT !.delta = delta, !.pc = "token"])
  BY AttemptTyped DEF Refund, Settle, Is, Bills
<1>2. work \in [Workers -> Attempt \cup {Idle}]
  BY DEF TaskInv, TypeOK
<1>3. work'[w].pc = "token" /\ \A v \in Workers : v # w => work'[v] = work[v]
  BY <1>1, <1>2 DEF Become, Attempt
<1>4. \A v \in Workers : ~Bills(v)' /\ work'[v].pc # "save"
  BY <1>1, <1>3 DEF Bills, BillInv
<1>5. task'.status \in Terminal
  BY <1>1 DEF BillInv
<1> QED
  BY <1>4, <1>5 DEF BillInv

\* A step of one attempt leaves at most one that is about to bill.
LEMMA WorkBill ==
    ASSUME TaskInv, BillInv, Platform = "video", NEW w \in Workers,
           Begin(w) \/ Work(w) \/ Failure(w)
    PROVE  BillInv'
<1>1. CASE Begin(w)
  BY <1>1, QuietBill DEF Begin, Fresh
<1>2. CASE Load(w)
  <2>1. work[w] \in Attempt /\ UNCHANGED <<task, charge>>
    BY <1>2, AttemptTyped DEF Load, Is
  <2>2. CASE Completed(w, Polled(task.status))
    BY <2>1, <2>2, EndBill
  <2>3. CASE Become(w, [work[w] EXCEPT !.row = task, !.pc = "fetch"])
    <3>1. [work[w] EXCEPT !.row = task, !.pc = "fetch"].pc = "fetch"
      BY <2>1 DEF Attempt
    <3> QED
      BY <2>1, <2>3, <3>1, QuietBill
  <2>4. CASE Become(w, [work[w] EXCEPT
                          !.row = task,
                          !.to = "FAILURE",
                          !.pc = IF late /\ task.status \notin Terminal
                                 THEN "cas" ELSE "upsert"])
    <3> DEFINE pc == IF late /\ task.status \notin Terminal THEN "cas" ELSE "upsert"
               a == [work[w] EXCEPT !.row = task, !.to = "FAILURE", !.pc = pc]
    <3>1. pc \in {"cas", "upsert"} /\ Become(w, a)
      BY <2>4
    <3> HIDE DEF pc
    <3>2. a.pc = pc
      BY <2>1 DEF Attempt
    <3> HIDE DEF a
    <3> QED
      BY <2>1, <3>1, <3>2, QuietBill
  <2> QED
    BY <1>2, <2>2, <2>3, <2>4 DEF Load
<1>3. CASE FetchNothing(w)
  BY <1>3, GotoBill DEF FetchNothing, Is
<1>4. ASSUME NEW answer \in Answers, FetchVideo(w, answer) PROVE BillInv'
  <2>1. work[w] \in Attempt
    BY <1>4, AttemptTyped DEF FetchVideo, Is
  <2>2. [work[w] EXCEPT !.to = answer.status, !.pc = "cas"].pc = "cas"
    BY <2>1 DEF Attempt
  <2> QED
    BY <1>4, <2>2, QuietBill DEF FetchVideo
<1>5. ASSUME NEW answer \in Answers, FetchSuno(w, answer) PROVE BillInv'
  BY <1>5 DEF FetchSuno
<1>6. CASE SettleNothing(w) \/ WalletFails(w)
  BY <1>6, VideoEnds, GotoBill DEF SettleNothing, WalletFails, Is
<1>7. CASE Token(w) \/ TokenFails(w)
  <2>1. charge'.funding = charge.funding /\ charge'.price = charge.price
    BY <1>7 DEF Token, TokenFails, TaskInv, TypeOK
  <2> QED
    BY <1>7, <2>1, VideoEnds, GotoBill DEF Token, TokenFails, Is
<1>8. CASE WriteQuota(w) \/ WriteFails(w)
  <2>1. task'.status = task.status
    BY <1>8 DEF WriteQuota, WriteFails, TaskInv, TypeOK, Row
  <2> QED
    BY <1>8, <2>1, GotoBill DEF WriteQuota, WriteFails, Is
<1>9. CASE Save(w)
  BY <1>9 DEF Save, Is, BillInv
<1>10. CASE ChannelMissing(w)
  <2>1. task'.status \in Terminal
    BY <1>10 DEF ChannelMissing, TaskInv, TypeOK, Row, Terminal
  <2> QED
    BY <1>10, <2>1, GotoBill DEF ChannelMissing, Is
<1>11. CASE Refresh(w) \/ Upsert(w) \/ ReadFails(w) \/ Crash(w)
  BY <1>11, EndBill DEF Refresh, Upsert, ReadFails, Crash, Failed
<1>12. CASE CasFails(w)
  BY <1>12, GotoBill, EndBill DEF CasFails, Failed, Is
<1>13. CASE Overrun(w)
  BY <1>13 DEF Overrun, BillInv, Bills
<1> QED
  BY <1>1, <1>2, <1>3, <1>4, <1>5, <1>6, <1>7, <1>8, <1>9, <1>10, <1>11, <1>12, <1>13,
     CasBill, PayBill DEF Work, Failure

\* The steps of the submission and of the workflow bill nothing and run nothing.
LEMMA FlowBills ==
    ASSUME TaskInv,
           \/ InsertTask \/ InsertFails \/ StartWorkflow \/ StartFails
           \/ DeadlinePasses \/ Bookkeep \/ BookkeepFails \/ WorkflowExpires
    PROVE  /\ UNCHANGED <<charge, work, result>>
           /\ task' = task \/ (task.status = "none" /\ task'.status = "NOT_START")
           /\ faults.kinds \subseteq faults'.kinds
<1>1. /\ UNCHANGED <<charge, work, result>>
      /\ task' = task \/ (task.status = "none" /\ task'.status = "NOT_START")
  BY DEF InsertTask, InsertFails, StartWorkflow, StartFails, DeadlinePasses, Bookkeep,
         BookkeepFails, WorkflowExpires, NoTask
<1>2. faults' = faults \/ \E kind : Fault(kind)
  BY DEF InsertTask, InsertFails, StartWorkflow, StartFails, DeadlinePasses, Bookkeep,
         BookkeepFails, WorkflowExpires
<1>3. faults.kinds \subseteq faults'.kinds
  BY <1>2 DEF Fault
<1> QED
  BY <1>1, <1>3

\* Hence so does every behaviour of a video task.
LEMMA BillInvariance ==
    ASSUME Platform = "video" PROVE TaskSafety => []BillInv
<1>1. Init => BillInv
  BY ConstantsAssumption DEF Init, BillInv, Bills, Idle
<1>2. TaskInv /\ BillInv /\ [Next]_taskVars => BillInv'
  <2> SUFFICES ASSUME TaskInv, BillInv, [Next]_taskVars PROVE BillInv'
    OBVIOUS
  <2>1. CASE \/ InsertTask \/ InsertFails \/ StartWorkflow \/ StartFails
             \/ DeadlinePasses \/ Bookkeep \/ BookkeepFails \/ WorkflowExpires
    <3>1. task.status \in Terminal => task' = task
      BY <2>1, FlowBills DEF Terminal
    <3>2. task.status \notin Terminal <=> task'.status \notin Terminal
      BY <2>1, FlowBills DEF Terminal
    <3> QED
      BY <2>1, <3>2, FlowBills DEF BillInv, Bills
  <2>2. CASE UNCHANGED taskVars
    BY <2>2 DEF taskVars, BillInv, Bills
  <2> QED
    BY <2>1, <2>2, WorkBill DEF Next
<1> QED
  BY <1>1, <1>2, TaskInvariance, PTL DEF TaskSafety

\* Whatever fails and however many attempts overlap, the wallet of the user is
\* adjusted at most once for a video task.
THEOREM VideoBilledOnce ==
    ASSUME Platform = "video" PROVE TaskSafety => BilledOnce
<1>1. TaskInv /\ BillInv /\ [Next]_taskVars =>
        [charge'.funding # charge.funding => charge.funding = charge.price]_taskVars
  <2> SUFFICES ASSUME TaskInv, BillInv, [Next]_taskVars, charge'.funding # charge.funding
               PROVE  charge.funding = charge.price
    OBVIOUS
  <2>1. \E w \in Workers : Work(w) \/ Failure(w)
    BY FlowBills DEF Next, taskVars, Begin
  <2>2. PICK w \in Workers : Work(w) \/ Failure(w)
    BY <2>1
  <2>3. charge \in [price : Prices, funding : Int, token : Int]
    BY Kept
  <2>4. ~(Token(w) \/ TokenFails(w))
    BY <2>3 DEF Token, TokenFails
  <2>5. Bills(w)
    BY <2>2, <2>4
       DEF Work, Failure, Load, FetchNothing, FetchVideo, FetchSuno, Cas, Refund, Settle,
           SettleNothing, WriteQuota, Save, Refresh, Upsert, Overrun, Crash, ReadFails,
           ChannelMissing, CasFails, WalletFails, WriteFails, Is, Bills
  <2> QED
    BY <2>5 DEF BillInv
<1> QED
  BY <1>1, TaskInvariance, BillInvariance, PTL DEF TaskSafety, BilledOnce

-----------------------------------------------------------------------------
(* The end of a task *)

\* Only a missing channel changes the status of a task that has ended.
LEMMA EndFixed ==
    ASSUME TaskInv, BillInv, Next, task.status \in Terminal
    PROVE  \/ task'.status = task.status
           \/ "channel" \in faults'.kinds /\ task'.status = "FAILURE"
<1>1. CASE \/ InsertTask \/ InsertFails \/ StartWorkflow \/ StartFails
           \/ DeadlinePasses \/ Bookkeep \/ BookkeepFails \/ WorkflowExpires
  BY <1>1, FlowBills DEF Terminal
<1>2. ASSUME NEW w \in Workers, Cas(w) PROVE task' = task
  BY <1>2, AttemptTyped DEF Cas, Guarded, Is, Sound
<1>3. ASSUME NEW w \in Workers, WriteQuota(w) PROVE task'.status = task.status
  BY <1>3 DEF WriteQuota, TaskInv, TypeOK, Row
<1>4. ASSUME NEW w \in Workers, ChannelMissing(w)
      PROVE  "channel" \in faults'.kinds /\ task'.status = "FAILURE"
  BY <1>4 DEF ChannelMissing, Fault, TaskInv, TypeOK, Row
<1>5. ASSUME NEW w \in Workers, Save(w) PROVE FALSE
  BY <1>5 DEF Save, Is, BillInv
<1>6. ASSUME NEW w \in Workers, Begin(w) \/ Work(w) \/ Failure(w),
             ~Cas(w), ~WriteQuota(w), ~ChannelMissing(w), ~Save(w)
      PROVE  task' = task
  BY <1>6
     DEF Begin, Work, Failure, Load, FetchNothing, FetchVideo, FetchSuno, Refund, Settle,
         SettleNothing, Token, Refresh, Upsert, Overrun, Crash, ReadFails, CasFails,
         WalletFails, TokenFails, WriteFails
<1> QED
  BY <1>1, <1>2, <1>3, <1>4, <1>5, <1>6 DEF Next

\* An attempt that loaded a task before its end does not bring it back.
THEOREM VideoEndIsFinal ==
    ASSUME Platform = "video" PROVE TaskSafety => EndIsFinal
<1>1. TaskInv /\ BillInv /\ [Next]_taskVars =>
        [task.status \in Terminal => task'.status \in Terminal]_taskVars
  BY EndFixed DEF Terminal
<1> QED
  BY <1>1, TaskInvariance, BillInvariance, PTL DEF TaskSafety, EndIsFinal

\* What an attempt newly knows of the status is what the row says after the step.
RowsSeen ==
    \A v \in Workers : work'[v].row.status \in {work[v].row.status, "none", task'.status}

\* An attempt knows the status it knew before, or the one the row has now.
LEMMA WorkSees ==
    ASSUME TaskInv, NEW w \in Workers, Begin(w) \/ Work(w) \/ Failure(w)
    PROVE  RowsSeen
<1>1. work \in [Workers -> Attempt \cup {Idle}]
  BY DEF TaskInv, TypeOK
<1>2. ASSUME NEW a, Become(w, a),
             a.row.status \in {work[w].row.status, "none", task'.status}
      PROVE  RowsSeen
  BY <1>1, <1>2 DEF Become, RowsSeen
<1>3. ASSUME NEW pc, Goto(w, pc), work[w].pc # "idle"
      PROVE  RowsSeen
  <2>1. [work[w] EXCEPT !.pc = pc].row = work[w].row
    BY <1>3, AttemptTyped DEF Attempt
  <2> QED
    BY <1>2, <1>3, <2>1 DEF Goto
<1>4. ASSUME NEW next, Completed(w, next)
      PROVE  RowsSeen
  BY <1>2, <1>4 DEF Completed, Idle, NoTask
<1>5. CASE Begin(w)
  BY <1>2, <1>5 DEF Begin, Fresh, NoTask
<1>6. CASE Load(w)
  <2>1. work[w] \in Attempt /\ task' = task
    BY <1>6, AttemptTyped DEF Load, Is
  <2>2. CASE Completed(w, Polled(task.status))
    BY <1>4, <2>2
  <2>3. CASE Become(w, [work[w] EXCEPT !.row = task, !.pc = "fetch"])
    <3>1. [work[w] EXCEPT !.row = task, !.pc = "fetch"].row = task
      BY <2>1 DEF Attempt
    <3> QED
      BY <1>2, <2>1, <2>3, <3>1
  <2>4. CASE Become(w, [work[w] EXCEPT
                          !.row = task,
                          !.to = "FAILURE",
                          !.pc = IF late /\ task.status \notin Terminal
                                 THEN "cas" ELSE "upsert"])
    <3> DEFINE pc == IF late /\ task.status \notin Terminal THEN "cas" ELSE "upsert"
               a == [work[w] EXCEPT !.row = task, !.to = "FAILURE", !.pc = pc]
    <3>1. Become(w, a)
      BY <2>4
    <3> HIDE DEF pc
    <3>2. a.row = task
      BY <2>1 DEF Attempt
    <3> HIDE DEF a
    <3> QED
      BY <1>2, <2>1, <3>1, <3>2
  <2> QED
    BY <1>6, <2>2, <2>3, <2>4 DEF Load
<1>7. ASSUME NEW answer \in Answers, FetchVideo(w, answer) \/ FetchSuno(w, answer)
      PROVE  RowsSeen
  <2>1. work[w] \in Attempt
    BY <1>7, AttemptTyped DEF FetchVideo, FetchSuno, Is
  <2>2. \E pc : Become(w, [work[w] EXCEPT !.to = answer.status, !.pc = pc])
    BY <1>7 DEF FetchVideo, FetchSuno
  <2>3. PICK pc : Become(w, [work[w] EXCEPT !.to = answer.status, !.pc = pc])
    BY <2>2
  <2>4. [work[w] EXCEPT !.to = answer.status, !.pc = pc].row = work[w].row
    BY <2>1 DEF Attempt
  <2> QED
    BY <1>2, <2>3, <2>4
<1>8. CASE Cas(w)
  <2>1. work[w] \in Attempt /\ work[w].row \in Row
    BY <1>8, AttemptTyped DEF Cas, Is
  <2>2. CASE Guarded(w)
    <3>1. /\ task' = [work[w].row EXCEPT !.status = work[w].to]
          /\ Become(w, [work[w] EXCEPT !.row.status = work[w].to, !.pc = AfterWin(w)])
      BY <1>8, <2>2 DEF Cas
    <3>2. task'.status = work[w].to
      BY <2>1, <3>1 DEF Row
    <3>3. [work[w] EXCEPT !.row.status = work[w].to, !.pc = AfterWin(w)].row.status
            = work[w].to
      BY <2>1 DEF Attempt, Row
    <3> QED
      BY <1>2, <3>1, <3>2, <3>3
  <2>3. CASE ~Guarded(w)
    <3>1. [work[w] EXCEPT !.row = task, !.pc = AfterBilling(w)].row = task
      BY <2>1 DEF Attempt
    <3> QED
      BY <1>2, <1>8, <2>3, <3>1 DEF Cas
  <2> QED
    BY <2>2, <2>3
<1>9. CASE Refund(w) \/ \E usage \in Usages : Settle(w, usage)
  <2>1. /\ work[w] \in Attempt
        /\ \E delta : Become(w, [work[w] EXCEPT !.delta = delta, !.pc = "token"])
    BY <1>9, AttemptTyped DEF Refund, Settle, Is
  <2>2. PICK delta : Become(w, [work[w] EXCEPT !.delta = delta, !.pc = "token"])
    BY <2>1
  <2>3. [work[w] EXCEPT !.delta = delta, !.pc = "token"].row = work[w].row
    BY <2>1 DEF Attempt
  <2> QED
    BY <1>2, <2>2, <2>3
<1>10. CASE Overrun(w)
  BY <1>10 DEF Overrun, RowsSeen
<1>11. CASE \/ FetchNothing(w) \/ SettleNothing(w) \/ WalletFails(w) \/ Token(w)
            \/ TokenFails(w) \/ WriteQuota(w) \/ WriteFails(w) \/ Save(w)
            \/ ChannelMissing(w)
  <2>1. work[w].pc # "idle" /\ \E pc : Goto(w, pc)
    BY <1>11 DEF FetchNothing, SettleNothing, WalletFails, Token, TokenFails, WriteQuota,
                 WriteFails, Save, ChannelMissing, Is
  <2> QED
    BY <1>3, <2>1
<1>12. CASE CasFails(w) \/ Refresh(w) \/ Upsert(w) \/ ReadFails(w) \/ Crash(w)
  <2>1. \/ work[w].pc # "idle" /\ \E pc : Goto(w, pc)
        \/ \E next : Completed(w, next)
    BY <1>12 DEF CasFails, Refresh, Upsert, ReadFails, Crash, Failed, Is
  <2> QED
    BY <1>3, <1>4, <2>1
<1> QED
  BY <1>5, <1>6, <1>7, <1>8, <1>9, <1>10, <1>11, <1>12 DEF Work, Failure

\* Steps report failures, and the recorded result is one an attempt has seen.
LEMMA WorkReports ==
    ASSUME NEW w \in Workers, Begin(w) \/ Work(w) \/ Failure(w)
    PROVE  /\ faults.kinds \subseteq faults'.kinds
           /\ \/ result' = result
              \/ /\ work[w].row.status \in Terminal
                 /\ result' = work[w].row.status
                 /\ task' = task
<1>1. faults' = faults \/ \E kind : Fault(kind)
  BY DEF Begin, Work, Failure, Load, FetchNothing, FetchVideo, FetchSuno, Cas, Refund,
         Settle, SettleNothing, Token, WriteQuota, Save, Refresh, Upsert, Overrun, Crash,
         ReadFails, ChannelMissing, CasFails, WalletFails, TokenFails, WriteFails
<1>2. faults.kinds \subseteq faults'.kinds
  BY <1>1 DEF Fault
<1>3. CASE Upsert(w)
  BY <1>2, <1>3 DEF Upsert
<1>4. CASE ~Upsert(w)
  BY <1>2, <1>4
     DEF Begin, Work, Failure, Load, FetchNothing, FetchVideo, FetchSuno, Cas, Refund,
         Settle, SettleNothing, Token, WriteQuota, Save, Refresh, Overrun, Crash,
         ReadFails, ChannelMissing, CasFails, WalletFails, TokenFails, WriteFails
<1> QED
  BY <1>3, <1>4

\* A terminal status that an attempt holds stays the one of the row.
LEMMA ResultStep ==
    ASSUME TaskInv, BillInv, ResultInv, [Next]_taskVars
    PROVE  ResultInv'
<1>1. CASE UNCHANGED taskVars
  BY <1>1 DEF taskVars, ResultInv
<1>2. CASE Next
  <2>1. faults.kinds \subseteq faults'.kinds
    BY <1>2, FlowBills, WorkReports DEF Next
  <2> SUFFICES ASSUME "channel" \notin faults'.kinds
               PROVE  /\ result' \in {"none", task'.status}
                      /\ \A v \in Workers : work'[v].row.status \in Terminal =>
                                             work'[v].row.status = task'.status
    BY DEF ResultInv
  <2>2. /\ result \in {"none", task.status}
        /\ \A v \in Workers : work[v].row.status \in Terminal =>
                               work[v].row.status = task.status
    BY <2>1 DEF ResultInv
  <2>3. task.status \in Terminal => task'.status = task.status
    BY <1>2, EndFixed
  <2>4. result # "none" => result = task.status /\ task.status \in Terminal
    BY <2>2, Kept
  <2>5. \A v \in Workers : work[v].row.status \in Terminal =>
                           work[v].row.status = task'.status
    BY <2>2, <2>3
  <2>6. result \in {"none", task'.status}
    BY <2>3, <2>4
  <2>7. CASE \/ InsertTask \/ InsertFails \/ StartWorkflow \/ StartFails
             \/ DeadlinePasses \/ Bookkeep \/ BookkeepFails \/ WorkflowExpires
    BY <2>5, <2>6, <2>7, FlowBills
  <2>8. ASSUME NEW w \in Workers, Begin(w) \/ Work(w) \/ Failure(w)
        PROVE  /\ result' \in {"none", task'.status}
               /\ \A v \in Workers : work'[v].row.status \in Terminal =>
                                      work'[v].row.status = task'.status
    <3>1. RowsSeen
      BY <2>8, WorkSees
    <3>2. result' \in {"none", task'.status}
      BY <2>5, <2>6, <2>8, WorkReports
    <3> QED
      BY <2>5, <3>1, <3>2 DEF RowsSeen, Terminal
  <2> QED
    BY <1>2, <2>7, <2>8 DEF Next
<1> QED
  BY <1>1, <1>2

\* The terminal result the workflow records is the status of the task, unless a
\* missing channel has overwritten the status.
THEOREM VideoResultIsStatus ==
    ASSUME Platform = "video" PROVE TaskSafety => []ResultIsStatus
<1>1. Init => ResultInv
  BY DEF Init, ResultInv, Idle, NoTask, Terminal
<1>2. ResultInv => ResultIsStatus
  BY DEF ResultInv, ResultIsStatus
<1>3. TaskInv /\ BillInv /\ ResultInv /\ [Next]_taskVars => ResultInv'
  BY ResultStep
<1> QED
  BY <1>1, <1>2, <1>3, TaskInvariance, BillInvariance, PTL DEF TaskSafety

-----------------------------------------------------------------------------
(* What the charge of a video task is, step by step *)

\* No attempt runs before the workflow has started, and it starts on a row.
StartInv ==
    /\ task.status = "none" => task = NoTask /\ flow.step \in {"none", "unstarted"}
    /\ flow.step \in {"none", "unstarted"} => \A w \in Workers : work[w] = Idle
    /\ \A w \in Workers : work[w].pc = "cas" => work[w].to # "none"

\* The attempt that won the last transition, until the billing is over.
Pays(w) == work[w].pc \in {"refund", "settle", "token", "quota"}

\* What it has paid so far.
Due(w) ==
    LET a == work[w]
    IN  /\ a.to \in Terminal /\ task.status = a.to
        /\ task.quota = charge.price /\ a.row.quota = charge.price
        /\ a.pc \in {"refund", "settle"} =>
              charge.funding = charge.price /\ charge.token = charge.price
        /\ a.pc \in {"token", "quota"} => charge.funding = charge.price + a.delta
        /\ a.pc = "refund" => a.to = "FAILURE"
        /\ a.pc \in {"settle", "quota"} => a.to = "SUCCESS"
        /\ a.pc = "token" => /\ charge.token = charge.price
                             /\ a.to = "FAILURE" => a.delta = -charge.price
        /\ a.pc = "quota" => charge.token = charge.funding

\* The charge and the row agree.
Balanced ==
    /\ charge.token = charge.funding
    /\ charge.funding = IF task.status = "FAILURE" THEN 0 ELSE task.quota

\* A pending task has paid its price; an ended one has paid what its row says
\* unless one attempt, and no other, is about to see to it.
Charged ==
    /\ task.status \notin Terminal =>
          /\ charge.funding = charge.price /\ charge.token = charge.price
          /\ task.status # "none" => task.quota = charge.price
    /\ task.status \in Terminal /\ (\A w \in Workers : ~Pays(w)) => Balanced
    /\ \A w \in Workers : Pays(w) => Due(w)
    /\ \A v, w \in Workers : Pays(v) /\ Pays(w) => v = w
    /\ \A w \in Workers : work[w].pc \in {"fetch", "cas"} => work[w].row.quota = charge.price

\* While attempts only overran and overlapped, every charge is accounted for.
PayInv == faults.kinds \subseteq Harmless => Charged

\* One attempt moves, and no other.
LEMMA OneMoves ==
    ASSUME TaskInv, NEW w \in Workers, NEW a, Become(w, a)
    PROVE  work'[w] = a /\ \A v \in Workers \ {w} : work'[v] = work[v]
BY DEF TaskInv, TypeOK, Become

\* The steps of the workflow that follow a report or a failure.
LEMMA StepsStarted ==
    ASSUME TaskInv, NEW status
    PROVE  /\ Polled(status).step = "snapshot"
           /\ Finalized(status).step \in {"refund", "project"}
           /\ Retry.step \in {flow.step, "failed"}
           /\ \A step \in {"submit", "poll", "finalize", "project", "closed"} : At(step).step = step
<1>1. flow \in Flow
  BY DEF TaskInv, TypeOK
<1>2. \A step : At(step).step = step
  BY <1>1 DEF At, Flow
<1>3. Polled(status).step = "snapshot"
  BY <1>1 DEF Polled, At, Flow
<1>4. Retry.step \in {flow.step, "failed"}
  BY <1>1 DEF Retry, Flow
<1> QED
  BY <1>2, <1>3, <1>4 DEF Finalized

\* An attempt's step leaves the workflow started and the row in place.
LEMMA WorkStarted ==
    ASSUME TaskInv, BillInv, StartInv, Platform = "video", NEW w \in Workers,
           Begin(w) \/ Work(w) \/ Failure(w)
    PROVE  StartInv'
<1>1. flow.step \notin {"none", "unstarted"}
  <2>1. flow.step \in {"poll", "finalize"} \/ work[w] # Idle \/ flow.on = w
    <3>1. CASE Begin(w) \/ Overrun(w) \/ Crash(w)
      BY <3>1 DEF Begin, Overrun, Crash
    <3>2. CASE Work(w)
      <4>1. work[w].pc \in {"load", "fetch", "cas", "refund", "settle", "token", "quota", "save",
                            "refresh", "upsert"}
        <5>1. ASSUME NEW answer, FetchVideo(w, answer) \/ FetchSuno(w, answer) PROVE work[w].pc = "fetch"
          BY <5>1 DEF FetchVideo, FetchSuno, Is
        <5>2. ASSUME NEW usage, Settle(w, usage) PROVE work[w].pc = "settle"
          BY <5>2 DEF Settle, Is
        <5>3. ASSUME Load(w) \/ FetchNothing(w) \/ Cas(w) \/ Refund(w) \/ SettleNothing(w)
              PROVE  work[w].pc \in {"load", "fetch", "cas", "refund", "settle"}
          BY <5>3 DEF Load, FetchNothing, Cas, Refund, SettleNothing, Is
        <5>4. ASSUME Token(w) \/ WriteQuota(w) \/ Save(w) \/ Refresh(w) \/ Upsert(w)
              PROVE  work[w].pc \in {"token", "quota", "save", "refresh", "upsert"}
          BY <5>4 DEF Token, WriteQuota, Save, Refresh, Upsert, Is
        <5> QED
          BY <3>2, <5>1, <5>2, <5>3, <5>4 DEF Work
      <4> QED
        BY <4>1 DEF Idle
    <3>3. CASE Failure(w) /\ ~Overrun(w) /\ ~Crash(w)
      BY <3>3 DEF Failure, ReadFails, ChannelMissing, CasFails, WalletFails, TokenFails, WriteFails,
                  Is, Idle
    <3> QED
      BY <3>1, <3>2, <3>3
  <2>2. w # Nobody
    BY ConstantsAssumption
  <2> QED
    BY <2>1, <2>2 DEF StartInv, TaskInv, FlowInv
<1>2. task.status # "none" /\ task \in Row
  BY <1>1, Kept DEF StartInv
<1>3. ASSUME flow'.step \notin {"none", "unstarted"}, task'.status # "none",
             work'[w].pc = "cas" => work'[w].to # "none",
             \A v \in Workers \ {w} : work'[v] = work[v]
      PROVE  StartInv'
  BY <1>3 DEF StartInv
<1>4. ASSUME NEW next, Completed(w, next), next.step \notin {"none", "unstarted"}, task' = task
      PROVE  StartInv'
  <2>1. work'[w] = Idle /\ \A v \in Workers \ {w} : work'[v] = work[v]
    BY <1>4, OneMoves DEF Completed
  <2>2. flow'.step \notin {"none", "unstarted"}
    BY <1>1, <1>4 DEF Completed
  <2> QED
    BY <1>2, <1>3, <1>4, <2>1, <2>2 DEF Idle
<1>5. ASSUME NEW a, Become(w, a), a.pc = "cas" => a.to # "none", task'.status # "none", flow' = flow
      PROVE  StartInv'
  BY <1>1, <1>3, <1>5, OneMoves
<1>6. ASSUME NEW pc, pc # "cas", work[w].pc # "idle", Goto(w, pc), task'.status # "none", flow' = flow
      PROVE  StartInv'
  <2>1. [work[w] EXCEPT !.pc = pc].pc = pc
    BY <1>6, AttemptTyped DEF Attempt
  <2> QED
    BY <1>5, <1>6, <2>1 DEF Goto
<1>7. Retry.step \notin {"none", "unstarted"}
  BY <1>1, StepsStarted
<1>8. CASE Begin(w)
  <2>1. flow'.step = flow.step
    BY <1>8 DEF Begin, TaskInv, TypeOK, Flow
  <2>2. work'[w] = Fresh(flow.step) /\ \A v \in Workers \ {w} : work'[v] = work[v]
    BY <1>8, OneMoves DEF Begin
  <2>3. work'[w].pc # "cas"
    BY <2>2 DEF Fresh
  <2>4. task' = task
    BY <1>8 DEF Begin
  <2> QED
    BY <1>1, <1>2, <1>3, <2>1, <2>2, <2>3, <2>4
<1>9. CASE Load(w)
  <2>1. work[w] \in Attempt /\ task' = task
    BY <1>9, AttemptTyped DEF Load, Is
  <2>2. CASE Completed(w, Polled(task.status))
    BY <1>4, <2>1, <2>2, StepsStarted
  <2>3. CASE Become(w, [work[w] EXCEPT !.row = task, !.pc = "fetch"]) /\ UNCHANGED flow
    <3>1. [work[w] EXCEPT !.row = task, !.pc = "fetch"].pc = "fetch"
      BY <2>1 DEF Attempt
    <3> QED
      BY <1>2, <1>5, <2>1, <2>3, <3>1
  <2>4. CASE /\ Become(w, [work[w] EXCEPT
                             !.row = task,
                             !.to = "FAILURE",
                             !.pc = IF late /\ task.status \notin Terminal
                                    THEN "cas" ELSE "upsert"])
             /\ UNCHANGED flow
    <3> DEFINE pc == IF late /\ task.status \notin Terminal THEN "cas" ELSE "upsert"
               a == [work[w] EXCEPT !.row = task, !.to = "FAILURE", !.pc = pc]
    <3>1. Become(w, a)
      BY <2>4
    <3> HIDE DEF pc
    <3>2. a.to = "FAILURE"
      BY <2>1 DEF Attempt
    <3> HIDE DEF a
    <3> QED
      BY <1>2, <1>5, <2>1, <2>4, <3>1, <3>2
  <2> QED
    BY <1>9, <2>2, <2>3, <2>4 DEF Load
<1>10. ASSUME NEW answer \in Answers, FetchVideo(w, answer) PROVE StartInv'
  <2>1. work[w] \in Attempt /\ answer.status # "none"
    BY <1>10, AttemptTyped, ConstantsAssumption DEF FetchVideo, Is, Pending, Terminal
  <2> DEFINE a == [work[w] EXCEPT !.to = answer.status, !.pc = "cas"]
  <2>2. a.to = answer.status
    BY <2>1 DEF Attempt
  <2>3. Become(w, a) /\ task' = task /\ flow' = flow
    BY <1>10 DEF FetchVideo
  <2> HIDE DEF a
  <2> QED
    BY <1>2, <1>5, <2>1, <2>2, <2>3
<1>11. CASE Cas(w)
  <2>1. /\ work[w] \in Attempt /\ work[w].row \in Row /\ work[w].to # "none"
        /\ AfterWin(w) # "cas" /\ AfterBilling(w) # "cas"
    BY <1>11, AttemptTyped DEF Cas, Is, StartInv, AfterWin, AfterBilling
  <2>2. CASE Guarded(w)
    <3> DEFINE a == [work[w] EXCEPT !.row.status = work[w].to, !.pc = AfterWin(w)]
    <3>1. a.pc = AfterWin(w)
      BY <2>1 DEF Attempt
    <3>2. task'.status = work[w].to
      BY <1>11, <2>1, <2>2 DEF Cas, Row
    <3>3. Become(w, a) /\ flow' = flow
      BY <1>11, <2>2 DEF Cas
    <3> HIDE DEF a
    <3> QED
      BY <1>5, <2>1, <3>1, <3>2, <3>3
  <2>3. CASE ~Guarded(w)
    <3> DEFINE a == [work[w] EXCEPT !.row = task, !.pc = AfterBilling(w)]
    <3>1. a.pc = AfterBilling(w)
      BY <2>1 DEF Attempt
    <3>2. Become(w, a) /\ flow' = flow /\ task' = task
      BY <1>11, <2>3 DEF Cas
    <3> HIDE DEF a
    <3> QED
      BY <1>2, <1>5, <2>1, <3>1, <3>2
  <2> QED
    BY <2>2, <2>3
<1>12. CASE FetchNothing(w) \/ SettleNothing(w) \/ WalletFails(w) \/ Token(w) \/ TokenFails(w)
  <2>1. task' = task /\ flow' = flow /\ work[w].pc # "idle" /\ \E pc : pc # "cas" /\ Goto(w, pc)
    BY <1>12, VideoEnds DEF FetchNothing, SettleNothing, WalletFails, Token, TokenFails, Is
  <2> QED
    BY <1>2, <1>6, <2>1
<1>13. CASE WriteQuota(w) \/ WriteFails(w) \/ ChannelMissing(w)
  <2>1. flow' = flow /\ Goto(w, "refresh") /\ work[w].pc # "idle"
    BY <1>13 DEF WriteQuota, WriteFails, ChannelMissing, Is
  <2>2. task'.status # "none"
    BY <1>2, <1>13 DEF WriteQuota, WriteFails, ChannelMissing, Row
  <2> QED
    BY <1>6, <2>1, <2>2
<1>14. CASE Refresh(w) \/ Upsert(w) \/ ReadFails(w) \/ Crash(w)
  <2>1. task' = task /\ \E next \in {Polled(task.status), Finalized(work[w].row.status), Retry} :
                           Completed(w, next)
    BY <1>14 DEF Refresh, Upsert, ReadFails, Crash, Failed
  <2> QED
    BY <1>4, <1>7, <2>1, StepsStarted
<1>15. CASE CasFails(w)
  BY <1>2, <1>4, <1>6, <1>7, <1>15 DEF CasFails, Failed, Is
<1>16. CASE Overrun(w)
  BY <1>2, <1>7, <1>16 DEF Overrun, StartInv
<1>17. ~Save(w)
  BY DEF Save, Is, BillInv
<1>18. CASE Refund(w)
  <2> DEFINE a == [work[w] EXCEPT !.delta = -work[w].row.quota, !.pc = "token"]
  <2>1. task' = task /\ flow' = flow /\ Become(w, a)
    BY <1>18 DEF Refund
  <2>2. a.pc = "token"
    BY <1>18, AttemptTyped DEF Refund, Is, Attempt
  <2> HIDE DEF a
  <2> QED
    BY <1>2, <1>5, <2>1, <2>2
<1>19. ASSUME NEW usage, Settle(w, usage) PROVE StartInv'
  <2> DEFINE a == [work[w] EXCEPT !.delta = usage - work[w].row.quota, !.pc = "token"]
  <2>1. task' = task /\ flow' = flow /\ Become(w, a)
    BY <1>19 DEF Settle
  <2>2. a.pc = "token"
    BY <1>19, AttemptTyped DEF Settle, Is, Attempt
  <2> HIDE DEF a
  <2> QED
    BY <1>2, <1>5, <2>1, <2>2
<1> QED
  BY <1>8, <1>9, <1>10, <1>11, <1>12, <1>13, <1>14, <1>15, <1>16, <1>17, <1>18, <1>19
     DEF Work, Failure, FetchSuno

\* So do the steps of the submission and of the workflow.
LEMMA FlowStarted ==
    ASSUME TaskInv, StartInv,
           \/ InsertTask \/ InsertFails \/ StartWorkflow \/ StartFails
           \/ DeadlinePasses \/ Bookkeep \/ BookkeepFails \/ WorkflowExpires
    PROVE  StartInv'
<1>1. work' = work
  BY FlowBills
<1>2. flow \in Flow /\ task \in Row
  BY DEF TaskInv, TypeOK
<1>3. CASE InsertTask
  BY <1>1, <1>3 DEF InsertTask, StartInv, NoTask
<1>4. CASE InsertFails \/ StartFails
  <2>1. flow'.step = "unstarted" /\ flow.step = "none" /\ task' = task
    BY <1>2, <1>4 DEF InsertFails, StartFails, Flow
  <2> QED
    BY <1>1, <2>1 DEF StartInv
<1>5. CASE StartWorkflow
  <2>1. flow'.step = "record" /\ task' = task /\ task # NoTask
    BY <1>2, <1>5 DEF StartWorkflow, Flow
  <2> QED
    BY <1>1, <2>1 DEF StartInv
<1>6. CASE DeadlinePasses
  BY <1>1, <1>6 DEF DeadlinePasses, StartInv
<1>7. CASE Bookkeep
  <2>1. Round \in {"poll", "finalize"}
    BY DEF Round
  <2>2. \A step : At(step).step = step
    BY <1>2 DEF At, Flow
  <2>3. flow'.step \notin {"none", "unstarted"} /\ flow.step \notin {"none", "unstarted"} /\ task' = task
    BY <1>7, <2>1, <2>2 DEF Bookkeep
  <2> QED
    BY <1>1, <2>3 DEF StartInv
<1>8. CASE BookkeepFails
  <2>1. flow'.step \in {flow.step, "failed"} /\ flow.step \notin {"none", "unstarted"} /\ task' = task
    BY <1>2, <1>8 DEF BookkeepFails, Flow
  <2> QED
    BY <1>1, <2>1 DEF StartInv
<1>9. CASE WorkflowExpires
  <2>1. flow'.step = "expired" /\ flow.step \notin {"none", "unstarted"} /\ task' = task
    BY <1>2, <1>9 DEF WorkflowExpires, At, Flow
  <2> QED
    BY <1>1, <2>1 DEF StartInv
<1> QED
  BY <1>3, <1>4, <1>5, <1>6, <1>7, <1>8, <1>9

\* The task is started as it was charged.
LEMMA StartInvariance ==
    ASSUME Platform = "video" PROVE TaskSafety => []StartInv
<1>1. Init => StartInv
  BY DEF Init, StartInv, Idle, NoTask
<1>2. TaskInv /\ BillInv /\ StartInv /\ [Next]_taskVars => StartInv'
  <2> SUFFICES ASSUME TaskInv, BillInv, StartInv, [Next]_taskVars PROVE StartInv'
    OBVIOUS
  <2>1. CASE UNCHANGED taskVars
    BY <2>1 DEF taskVars, StartInv
  <2> QED
    BY <2>1, WorkStarted, FlowStarted DEF Next
<1> QED
  BY <1>1, <1>2, TaskInvariance, BillInvariance, PTL DEF TaskSafety

-----------------------------------------------------------------------------
(* The steps of the billing *)

\* The prices and the charge are numbers.
LEMMA ChargeTyped ==
    ASSUME TaskInv
    PROVE  /\ charge \in [price : Prices, funding : Int, token : Int]
           /\ charge.price \in Nat /\ charge.funding \in Int /\ charge.token \in Int
           /\ task \in Row /\ task.quota \in Nat
BY Kept, ConstantsAssumption DEF Row

\* A step of an attempt that is not billing, before or after it.
LEMMA UnpaidStep ==
    ASSUME TaskInv, Charged, NEW w \in Workers, NEW a, Become(w, a),
           ~Pays(w), a.pc \notin {"refund", "settle", "token", "quota"},
           task' = task, charge' = charge,
           a.pc \in {"fetch", "cas"} => a.row.quota = charge.price
    PROVE  Charged'
<1>1. work'[w] = a /\ \A v \in Workers \ {w} : work'[v] = work[v]
  BY OneMoves
<1>2. \A v \in Workers : Pays(v)' <=> Pays(v)
  BY <1>1 DEF Pays
<1>3. \A v \in Workers : Pays(v)' => Due(v)'
  <2>1. SUFFICES ASSUME NEW v \in Workers, Pays(v)' PROVE Due(v)'
    OBVIOUS
  <2>2. v # w /\ Pays(v)
    BY <1>2, <2>1
  <2> QED
    BY <1>1, <2>2 DEF Charged, Due
<1>4. Balanced' <=> Balanced
  BY DEF Balanced
<1>5. \A v \in Workers : work'[v].pc \in {"fetch", "cas"} => work'[v].row.quota = charge'.price
  BY <1>1 DEF Charged
<1> QED
  BY <1>2, <1>3, <1>4, <1>5 DEF Charged

\* A step of the attempt that is billing: nobody else is, before or after it.
LEMMA PaidStep ==
    ASSUME TaskInv, Charged, NEW w \in Workers, NEW a, Become(w, a), Pays(w),
           a.pc \notin {"fetch", "cas"},
           task'.status = task.status, charge'.price = charge.price,
           Pays(w)' => Due(w)',
           ~Pays(w)' => Balanced'
    PROVE  Charged'
<1>1. work'[w] = a /\ \A v \in Workers \ {w} : work'[v] = work[v]
  BY OneMoves
<1>2. task.status \in Terminal
  BY DEF Charged, Due
<1>3. \A v \in Workers \ {w} : ~Pays(v)
  BY DEF Charged
<1>4. \A v \in Workers : Pays(v)' => v = w
  BY <1>1, <1>3 DEF Pays
<1>5. \A v \in Workers : work'[v].pc \in {"fetch", "cas"} => work'[v].row.quota = charge'.price
  BY <1>1 DEF Charged
<1> QED
  BY <1>2, <1>4, <1>5 DEF Charged

\* The attempt that wins the last transition is the one to bill it, if there is
\* anything to bill.
LEMMA WinCharged ==
    ASSUME TaskInv, StartInv, Charged, Platform = "video", NEW w \in Workers, Cas(w)
    PROVE  Charged'
<1>1. /\ work[w] \in Attempt /\ work[w].row \in Row /\ work[w].row.status \notin Terminal
      /\ charge' = charge /\ work[w].pc = "cas" /\ work[w].to # "none" /\ ~Pays(w)
      /\ work[w].row.quota = charge.price
  BY AttemptTyped DEF Cas, Is, Sound, StartInv, Pays, Charged
<1>2. CASE Guarded(w)
  <2> DEFINE a == [work[w] EXCEPT !.row.status = work[w].to, !.pc = AfterWin(w)]
             to == work[w].to
  <2>1. Become(w, a)
    BY <1>2 DEF Cas
  <2>2. /\ a.pc = AfterWin(w) /\ a.to = to /\ a.row.quota = charge.price
    BY <1>1 DEF Attempt, Row
  <2>3. task'.status = to /\ task'.quota = charge.price /\ to # "none"
    BY <1>1, <1>2 DEF Cas, Row
  <2>4. work'[w] = a /\ \A v \in Workers \ {w} : work'[v] = work[v]
    BY <2>1, OneMoves
  <2>5. AfterWin(w) = IF to = "FAILURE" /\ charge.price # 0 THEN "refund"
                      ELSE IF to = "SUCCESS" THEN "settle" ELSE AfterBilling(w)
    BY <1>1 DEF AfterWin
  <2>6. /\ charge.funding = charge.price /\ charge.token = charge.price
        /\ \A v \in Workers : ~Pays(v)
    BY <1>1, <1>2 DEF Guarded, Charged, Due
  <2>7. AfterBilling(w) \in {"refresh", "upsert"}
    BY VideoEnds
  <2> HIDE DEF a, to
  <2>8. \A v \in Workers : Pays(v)' => v = w
    BY <2>4, <2>6 DEF Pays
  <2>9. Pays(w)' => Due(w)'
    BY <1>1, <2>2, <2>3, <2>4, <2>5, <2>6, <2>7 DEF Pays, Due, Terminal
  <2>10. task'.status \in Terminal /\ ~Pays(w)' => Balanced'
    BY <1>1, <2>2, <2>3, <2>4, <2>5, <2>6 DEF Pays, Balanced, Terminal
  <2>11. task'.status \notin Terminal => ~Pays(w)'
    BY <2>2, <2>3, <2>4, <2>5, <2>7 DEF Pays, Terminal
  <2>12. \A v \in Workers : work'[v].pc \in {"fetch", "cas"} => work'[v].row.quota = charge'.price
    BY <1>1, <2>2, <2>4, <2>5, <2>7 DEF Charged
  <2> QED
    BY <1>1, <2>3, <2>6, <2>8, <2>9, <2>10, <2>11, <2>12 DEF Charged
<1>3. CASE ~Guarded(w)
  <2> DEFINE a == [work[w] EXCEPT !.row = task, !.pc = AfterBilling(w)]
  <2>1. Become(w, a) /\ task' = task
    BY <1>3 DEF Cas
  <2>2. a.pc = AfterBilling(w)
    BY <1>1 DEF Attempt
  <2> HIDE DEF a
  <2> QED
    BY <1>1, <2>1, <2>2, VideoEnds, UnpaidStep
<1> QED
  BY <1>2, <1>3

\* The wallet pays or is paid the difference.
LEMMA WalletCharged ==
    ASSUME TaskInv, Charged, NEW w \in Workers, NEW delta \in Int, Bills(w),
           NEW a, Become(w, a), a.pc = "token", a.delta = delta,
           a.to = work[w].to, a.row = work[w].row,
           charge'.price = charge.price, charge'.token = charge.token,
           charge'.funding = charge.funding + delta,
           work[w].pc = "refund" => delta = -work[w].row.quota,
           task' = task
    PROVE  Charged'
<1>1. Pays(w) /\ Due(w) /\ work[w].pc # "idle"
  BY DEF Bills, Pays, Charged
<1>2. work'[w] = a
  BY OneMoves
<1>3. work[w].to = "FAILURE" => work[w].pc = "refund"
  BY <1>1 DEF Due, Bills
<1>4. Due(w)'
  BY <1>1, <1>2, <1>3 DEF Due, Bills
<1>5. Pays(w)'
  BY <1>2 DEF Pays
<1> QED
  BY <1>1, <1>4, <1>5, PaidStep

\* The token follows, and then the quota of the row.
LEMMA TokenCharged ==
    ASSUME TaskInv, Charged, Platform = "video", NEW w \in Workers, Token(w) \/ WriteQuota(w)
    PROVE  Charged'
<1>1. work[w] \in Attempt /\ Pays(w) /\ Due(w) /\ work[w].row.quota \in Nat /\ work[w].delta \in Int
  BY AttemptTyped DEF Token, WriteQuota, Is, Pays, Charged
<1>2. CASE Token(w)
  <2> DEFINE a == [work[w] EXCEPT !.pc = AfterToken(w)]
  <2>1. a.pc = AfterToken(w) /\ a.delta = work[w].delta /\ a.to = work[w].to /\ a.row = work[w].row
    BY <1>1 DEF Attempt
  <2>2. Become(w, a) /\ work[w].pc = "token" /\ task' = task
    BY <1>2 DEF Token, Goto, Is
  <2> HIDE DEF a
  <2>3. work'[w] = a
    BY <2>2, OneMoves
  <2>4. /\ charge'.price = charge.price /\ charge'.funding = charge.funding
        /\ charge'.token = charge.token + work[w].delta
    BY <1>2, ChargeTyped DEF Token
  <2>5. AfterToken(w) = IF work[w].to = "SUCCESS" THEN "quota" ELSE AfterBilling(w)
    BY DEF AfterToken
  <2>6. AfterBilling(w) \in {"refresh", "upsert"}
    BY VideoEnds
  <2>7. /\ charge'.token = charge'.funding
        /\ work[w].to = "FAILURE" => charge'.funding = 0
    BY <1>1, <2>2, <2>4, ChargeTyped DEF Due
  <2>8. Pays(w)' => Due(w)'
    BY <1>1, <2>1, <2>2, <2>3, <2>4, <2>5, <2>6, <2>7 DEF Pays, Due
  <2>9. ~Pays(w)' => Balanced'
    BY <1>1, <2>1, <2>2, <2>3, <2>5, <2>7 DEF Pays, Due, Balanced, Terminal
  <2>10. a.pc \notin {"fetch", "cas"}
    BY <2>1, <2>5, <2>6
  <2> QED
    BY <1>1, <2>2, <2>4, <2>8, <2>9, <2>10, PaidStep
<1>3. CASE WriteQuota(w)
  <2> DEFINE a == [work[w] EXCEPT !.pc = "refresh"]
  <2>1. a.pc = "refresh" /\ Become(w, a) /\ work[w].pc = "quota" /\ charge' = charge
    BY <1>1, <1>3 DEF WriteQuota, Goto, Is, Attempt
  <2>2. task'.status = task.status /\ task'.quota = work[w].row.quota + work[w].delta
    BY <1>3, ChargeTyped DEF WriteQuota, Row
  <2> HIDE DEF a
  <2>3. work'[w] = a
    BY <2>1, OneMoves
  <2>4. ~Pays(w)'
    BY <2>1, <2>3 DEF Pays
  <2>5. Balanced'
    BY <1>1, <2>1, <2>2 DEF Due, Balanced
  <2> QED
    BY <1>1, <2>1, <2>2, <2>4, <2>5, PaidStep
<1> QED
  BY <1>2, <1>3

\* Steps that only lead on.
LEMMA GotoCharged ==
    ASSUME TaskInv, Charged, NEW w \in Workers, work[w].pc # "idle",
           NEW pc \in {"refresh", "upsert"}, Goto(w, pc), task' = task, charge' = charge,
           Pays(w) => Balanced
    PROVE  Charged'
<1> DEFINE a == [work[w] EXCEPT !.pc = pc]
<1>1. a.pc = pc /\ Become(w, a)
  BY AttemptTyped DEF Attempt, Goto
<1> HIDE DEF a
<1>2. work'[w] = a
  BY <1>1, OneMoves
<1>3. ~Pays(w)'
  BY <1>1, <1>2 DEF Pays
<1>4. Balanced => Balanced'
  BY DEF Balanced
<1>5. CASE Pays(w)
  BY <1>1, <1>3, <1>4, <1>5, PaidStep
<1>6. CASE ~Pays(w)
  BY <1>1, <1>6, UnpaidStep
<1> QED
  BY <1>5, <1>6

\* An attempt that is not billing ends.
LEMMA EndCharged ==
    ASSUME TaskInv, Charged, NEW w \in Workers, NEW next, Completed(w, next), ~Pays(w),
           task' = task, charge' = charge
    PROVE  Charged'
BY UnpaidStep DEF Completed, Idle

\* Every step of an attempt that only harmless failures precede.
LEMMA WorkCharged ==
    ASSUME TaskInv, BillInv, StartInv, Charged, Platform = "video", NEW w \in Workers,
           Begin(w) \/ Work(w) \/ Overrun(w)
    PROVE  Charged'
<1>1. CASE Begin(w)
  <2>1. ~Pays(w) /\ Become(w, Fresh(flow.step)) /\ Fresh(flow.step).pc = "load"
        /\ task' = task /\ charge' = charge
    BY <1>1 DEF Begin, Fresh, Pays, Idle
  <2> QED
    BY <2>1, UnpaidStep
<1>2. CASE Load(w)
  <2>1. /\ work[w] \in Attempt /\ task' = task /\ charge' = charge /\ work[w].pc = "load" /\ ~Pays(w)
    BY <1>2, AttemptTyped DEF Load, Is, Pays
  <2>2. task.status # "none"
    BY <2>1 DEF StartInv, Idle
  <2>3. task.status \notin Terminal => task.quota = charge.price
    BY <2>2 DEF Charged
  <2>4. CASE Completed(w, Polled(task.status))
    BY <2>1, <2>4, EndCharged
  <2>5. CASE Become(w, [work[w] EXCEPT !.row = task, !.pc = "fetch"]) /\ task.status \notin Terminal
    <3> DEFINE a == [work[w] EXCEPT !.row = task, !.pc = "fetch"]
    <3>1. a.pc = "fetch" /\ a.row = task /\ Become(w, a)
      BY <2>1, <2>5 DEF Attempt
    <3> HIDE DEF a
    <3> QED
      BY <2>1, <2>3, <2>5, <3>1, UnpaidStep
  <2>6. CASE Become(w, [work[w] EXCEPT
                          !.row = task,
                          !.to = "FAILURE",
                          !.pc = IF late /\ task.status \notin Terminal
                                 THEN "cas" ELSE "upsert"])
    <3> DEFINE pc == IF late /\ task.status \notin Terminal THEN "cas" ELSE "upsert"
               a == [work[w] EXCEPT !.row = task, !.to = "FAILURE", !.pc = pc]
    <3>1. Become(w, a)
      BY <2>6
    <3>2. pc = "upsert" \/ (pc = "cas" /\ task.status \notin Terminal)
      OBVIOUS
    <3> HIDE DEF pc
    <3>3. a.pc = pc /\ a.row = task
      BY <2>1 DEF Attempt
    <3> HIDE DEF a
    <3> QED
      BY <2>1, <2>3, <3>1, <3>2, <3>3, UnpaidStep
  <2> QED
    BY <1>2, <2>4, <2>5, <2>6 DEF Load
<1>3. CASE FetchNothing(w)
  BY <1>3, GotoCharged DEF FetchNothing, Is, Pays
<1>4. ASSUME NEW answer, FetchVideo(w, answer) PROVE Charged'
  <2> DEFINE a == [work[w] EXCEPT !.to = answer.status, !.pc = "cas"]
  <2>1. /\ work[w].pc = "fetch" /\ ~Pays(w) /\ task' = task /\ charge' = charge /\ Become(w, a)
    BY <1>4 DEF FetchVideo, Is, Pays
  <2>2. a.pc = "cas" /\ a.row = work[w].row
    BY <2>1, AttemptTyped DEF Attempt
  <2>3. work[w].row.quota = charge.price
    BY <2>1 DEF Charged
  <2> HIDE DEF a
  <2> QED
    BY <2>1, <2>2, <2>3, UnpaidStep
<1>5. CASE Refund(w)
  <2>1. Bills(w) /\ work[w].row.quota \in Nat
    BY <1>5, AttemptTyped DEF Refund, Is, Bills
  <2> DEFINE delta == -work[w].row.quota
  <2>2. charge.funding - work[w].row.quota = charge.funding + delta /\ delta \in Int
    BY <2>1, ChargeTyped
  <2>3. delta = -work[w].row.quota
    OBVIOUS
  <2> DEFINE a == [work[w] EXCEPT !.delta = delta, !.pc = "token"]
  <2>4. Become(w, a) /\ task' = task
        /\ charge' = [charge EXCEPT !.funding = charge.funding + delta]
    BY <1>5, <2>2 DEF Refund
  <2>5. a.pc = "token" /\ a.delta = delta /\ a.to = work[w].to /\ a.row = work[w].row
    BY AttemptTyped DEF Attempt
  <2>6. charge'.price = charge.price /\ charge'.token = charge.token
        /\ charge'.funding = charge.funding + delta
    BY <2>4, ChargeTyped
  <2> HIDE DEF delta, a
  <2> QED
    BY <2>1, <2>2, <2>3, <2>4, <2>5, <2>6, WalletCharged
<1>6. ASSUME NEW usage \in Usages, Settle(w, usage) PROVE Charged'
  <2>1. Bills(w) /\ work[w].row.quota \in Nat /\ work[w].pc = "settle"
    BY <1>6, AttemptTyped DEF Settle, Is, Bills
  <2> DEFINE delta == usage - work[w].row.quota
  <2>2. charge.funding + usage - work[w].row.quota = charge.funding + delta /\ delta \in Int
    BY <2>1, ChargeTyped, ConstantsAssumption
  <2> DEFINE a == [work[w] EXCEPT !.delta = delta, !.pc = "token"]
  <2>3. Become(w, a) /\ task' = task
        /\ charge' = [charge EXCEPT !.funding = charge.funding + delta]
    BY <1>6, <2>2 DEF Settle
  <2>4. a.pc = "token" /\ a.delta = delta /\ a.to = work[w].to /\ a.row = work[w].row
    BY AttemptTyped DEF Attempt
  <2>5. charge'.price = charge.price /\ charge'.token = charge.token
        /\ charge'.funding = charge.funding + delta
    BY <2>3, ChargeTyped
  <2> HIDE DEF delta, a
  <2> QED
    BY <2>1, <2>2, <2>3, <2>4, <2>5, WalletCharged
<1>7. CASE SettleNothing(w)
  <2>1. work[w].pc = "settle" /\ Pays(w) /\ task' = task /\ charge' = charge
    BY <1>7 DEF SettleNothing, Is, Pays
  <2>2. Balanced
    BY <2>1 DEF Charged, Due, Balanced
  <2> QED
    BY <1>7, <2>1, <2>2, VideoEnds, GotoCharged DEF SettleNothing
<1>8. CASE Refresh(w) \/ Upsert(w)
  <2>1. ~Pays(w) /\ task' = task /\ charge' = charge
    BY <1>8 DEF Refresh, Upsert, Is, Pays
  <2>2. \E next : Completed(w, next)
    BY <1>8 DEF Refresh, Upsert, Failed
  <2> QED
    BY <2>1, <2>2, EndCharged
<1>9. CASE Overrun(w)
  BY <1>9 DEF Overrun, Charged, Pays, Due, Balanced
<1>10. ~Save(w)
  BY DEF Save, Is, BillInv
<1> QED
  BY <1>1, <1>2, <1>3, <1>4, <1>5, <1>6, <1>7, <1>8, <1>9, <1>10, WinCharged, TokenCharged
     DEF Work, FetchSuno

\* Failures other than an attempt that overruns are not harmless.
LEMMA HarmlessFailure ==
    ASSUME NEW w \in Workers, Failure(w), faults'.kinds \subseteq Harmless
    PROVE  Overrun(w)
<1>1. ASSUME NEW kind, Fault(kind) PROVE kind \in faults'.kinds
  BY <1>1 DEF Fault
<1> QED
  BY <1>1 DEF Failure, Crash, ReadFails, ChannelMissing, CasFails, WalletFails, TokenFails,
             WriteFails, Harmless

\* The submission and the workflow leave the charge of a task alone.
LEMMA FlowCharged ==
    ASSUME TaskInv, StartInv, Charged,
           \/ InsertTask \/ InsertFails \/ StartWorkflow \/ StartFails
           \/ DeadlinePasses \/ Bookkeep \/ BookkeepFails \/ WorkflowExpires
    PROVE  Charged'
<1>1. work' = work /\ charge' = charge
  BY FlowBills
<1>2. CASE task' = task
  BY <1>1, <1>2 DEF Charged, Pays, Due, Balanced
<1>3. CASE task' # task
  <2>1. InsertTask
    BY <1>3 DEF InsertFails, StartWorkflow, StartFails, DeadlinePasses, Bookkeep,
       BookkeepFails, WorkflowExpires
  <2>2. task.status = "none" /\ task'.status = "NOT_START" /\ task'.quota = charge.price
    BY <2>1 DEF InsertTask, NoTask
  <2>3. \A v \in Workers : ~Pays(v)
    BY <2>2 DEF Charged, Due, Terminal
  <2> QED
    BY <1>1, <2>2, <2>3 DEF Charged, Pays, Terminal
<1> QED
  BY <1>2, <1>3

\* Charges are accounted for in every behaviour of a video task.
LEMMA PayInvariance ==
    ASSUME Platform = "video" PROVE TaskSafety => []PayInv
<1>1. Init => PayInv
  BY ConstantsAssumption DEF Init, PayInv, Charged, Pays, Idle, NoTask, Terminal
<1>2. TaskInv /\ BillInv /\ StartInv /\ PayInv /\ [Next]_taskVars => PayInv'
  <2> SUFFICES ASSUME TaskInv, BillInv, StartInv, PayInv, [Next]_taskVars,
                      faults'.kinds \subseteq Harmless
               PROVE  Charged'
    BY DEF PayInv
  <2>1. CASE UNCHANGED taskVars
    BY <2>1 DEF taskVars, PayInv, Charged, Pays, Due, Balanced
  <2>2. CASE \/ InsertTask \/ InsertFails \/ StartWorkflow \/ StartFails
             \/ DeadlinePasses \/ Bookkeep \/ BookkeepFails \/ WorkflowExpires
    BY <2>2, FlowBills, FlowCharged DEF PayInv
  <2>3. ASSUME NEW w \in Workers, Begin(w) \/ Work(w) \/ Failure(w) PROVE Charged'
    <3>1. Charged
      BY <2>3, WorkReports DEF PayInv
    <3>2. Begin(w) \/ Work(w) \/ Overrun(w)
      BY <2>3, HarmlessFailure
    <3> QED
      BY <3>1, <3>2, WorkCharged
  <2> QED
    BY <2>1, <2>2, <2>3 DEF Next
<1> QED
  BY <1>1, <1>2, TaskInvariance, BillInvariance, StartInvariance, PTL DEF TaskSafety

\* When attempts of a video task only overran and overlapped, the task and its
\* charge agree once all have ended: a failed one was paid back in full, wallet
\* and token, and one that succeeded was charged what its row says.
THEOREM VideoChargeMatches ==
    ASSUME Platform = "video" PROVE TaskSafety => []ChargeMatchesOutcome
<1>1. TaskInv /\ StartInv /\ PayInv => ChargeMatchesOutcome
  <2> SUFFICES ASSUME TaskInv, StartInv, PayInv, AtRest, task # NoTask, faults.kinds \subseteq Harmless
               PROVE  Balanced
    BY DEF ChargeMatchesOutcome, Balanced
  <2>1. Charged /\ task.status # "none"
    BY DEF PayInv, StartInv
  <2>2. \A w \in Workers : ~Pays(w)
    BY DEF AtRest, Pays, Idle
  <2>3. CASE task.status \in Terminal
    BY <2>1, <2>2, <2>3 DEF Charged
  <2>4. CASE task.status \notin Terminal
    BY <2>1, <2>4 DEF Charged, Balanced, Terminal
  <2> QED
    BY <2>3, <2>4
<1> QED
  BY <1>1, TaskInvariance, StartInvariance, PayInvariance, PTL

=============================================================================
