------------------------------ MODULE AsyncTask ------------------------------
(***************************************************************************)
(* An asynchronous task of internal/workflow: the request that submitted   *)
(* it has been charged, a Temporal workflow polls the upstream until the   *)
(* task ends or its deadline passes, and whoever ends the task settles or  *)
(* refunds the charge.                                                     *)
(*                                                                         *)
(* Temporal runs one activity at a time and retries it, up to MaxTries     *)
(* attempts.  An attempt that overruns its minute is given up by Temporal  *)
(* but not by the worker that executes it: it keeps running beside the     *)
(* next one.  The row of the task is read and written by single            *)
(* statements, without a transaction around an activity.                   *)
(***************************************************************************)
EXTENDS Integers, FiniteSets

CONSTANTS
    Workers,    \* the goroutines that execute attempts of activities
    Nobody,     \* no attempt is running, as far as Temporal knows
    Platform,   \* "suno", or "video" for every other platform
    Prices,     \* what the submission may have settled for
    Usages,     \* what a finished task may turn out to cost
    Answers,    \* what the upstream may answer: a status, and a failure reason or none
    Faults,     \* the kinds of failure that may happen
    MaxFaults,  \* bound: how many failures happen
    MaxTries    \* attempts of an activity (5 in the code)

Kinds == {"insert", "start", "activity", "channel", "db", "wallet", "token",
          "overrun", "crash"}

Pending == {"NOT_START", "QUEUED", "IN_PROGRESS"}

Terminal == {"SUCCESS", "FAILURE"}

ASSUME ConstantsAssumption ==
    /\ Nobody \notin Workers
    /\ Platform \in {"suno", "video"}
    /\ Prices \subseteq Nat
    /\ Usages \subseteq Nat \ {0}
    /\ Answers \subseteq [status : (Pending \cup Terminal) \ {"NOT_START"},
                          reason : BOOLEAN]
    /\ Faults \subseteq Kinds
    /\ MaxFaults \in Nat
    /\ MaxTries \in Nat \ {0}

VARIABLES
    task,       \* the row of the task
    charge,     \* what the user was asked to pay, and what wallet and token have paid
    flow,       \* the workflow: its step and the attempt it waits for
    late,       \* the deadline of the task has passed
    work,       \* worker -> the attempt it executes
    result,     \* the status of the terminal result the workflow recorded
    faults      \* the failures so far: how many, and of which kinds

taskVars == <<task, charge, flow, late, work, result, faults>>

NoTask == [status |-> "none", quota |-> 0]

Row == [status : Pending \cup Terminal \cup {"none"}, quota : Nat]

Idle == [pc |-> "idle", act |-> "none", row |-> NoTask, to |-> "none", delta |-> 0]

Flow ==
    [step : {"none", "unstarted", "record", "submit", "poll", "snapshot",
             "finalize", "refund", "project", "closed", "failed", "expired"},
     tries : 0..MaxTries, on : Workers \cup {Nobody}, done : BOOLEAN]

Attempt ==
    [pc : {"load", "fetch", "cas", "refund", "settle", "token", "quota", "save",
           "refresh", "upsert"},
     act : {"poll", "finalize"}, row : Row,
     to : Pending \cup Terminal \cup {"none"}, delta : Int]

-----------------------------------------------------------------------------

Init ==
    /\ task = NoTask
    /\ \E p \in Prices : charge = [price |-> p, funding |-> p, token |-> p]
    /\ flow = [step |-> "none", tries |-> 0, on |-> Nobody, done |-> FALSE]
    /\ late = FALSE
    /\ work = [w \in Workers |-> Idle]
    /\ result = "none"
    /\ faults = [count |-> 0, kinds |-> {}]

Fault(kind) ==
    /\ kind \in Faults
    /\ faults.count < MaxFaults
    /\ faults' = [count |-> faults.count + 1, kinds |-> faults.kinds \cup {kind}]

\* The submission inserts the row after the settlement, then starts the
\* workflow; an error of either is only logged.
InsertTask ==
    /\ task = NoTask
    /\ flow.step = "none"
    /\ task' = [status |-> "NOT_START", quota |-> charge.price]
    /\ UNCHANGED <<charge, flow, late, work, result, faults>>

InsertFails ==
    /\ task = NoTask
    /\ flow.step = "none"
    /\ Fault("insert")
    /\ flow' = [flow EXCEPT !.step = "unstarted"]
    /\ UNCHANGED <<task, charge, late, work, result>>

StartWorkflow ==
    /\ task # NoTask
    /\ flow.step = "none"
    /\ flow' = [flow EXCEPT !.step = "record"]
    /\ UNCHANGED <<task, charge, late, work, result, faults>>

StartFails ==
    /\ task # NoTask
    /\ flow.step = "none"
    /\ Fault("start")
    /\ flow' = [flow EXCEPT !.step = "unstarted"]
    /\ UNCHANGED <<task, charge, late, work, result>>

DeadlinePasses ==
    /\ task # NoTask
    /\ ~late
    /\ late' = TRUE
    /\ UNCHANGED <<task, charge, flow, work, result, faults>>

-----------------------------------------------------------------------------
\* The workflow.

Become(w, attempt) == work' = [work EXCEPT ![w] = attempt]

\* The workflow goes on to another activity, which has all its attempts.
At(step) == [flow EXCEPT !.step = step, !.tries = 0, !.on = Nobody]

\* Mutant of Round: the loop does not look at the deadline.
RoundUntilDone == "poll"

\* The top of its loop.
Round == IF late THEN "finalize" ELSE "poll"

\* The activities that only copy the row into the tables of the workflow.
\* RefundReference is one of them: the workflow is started without a
\* reservation, and so it releases nothing.
Bookkeep ==
    /\ \/ flow.step = "record" /\ flow' = At("submit")
       \/ flow.step = "submit" /\ flow' = At(Round)
       \/ flow.step = "snapshot" /\ flow.done /\ flow' = At("finalize")
       \/ flow.step = "snapshot" /\ ~flow.done /\ flow' = At(Round)
       \/ flow.step = "refund" /\ flow' = At("project")
       \/ flow.step = "project" /\ flow' = At("closed")
    /\ UNCHANGED <<task, charge, late, work, result, faults>>

\* An attempt has failed: the next one follows, or the workflow fails.
Retry == [flow EXCEPT !.on = Nobody,
                      !.step = IF flow.tries = MaxTries THEN "failed" ELSE @]

BookkeepFails ==
    /\ flow.step \in {"record", "submit", "snapshot", "refund", "project"}
    /\ Fault("activity")
    /\ flow' = [flow EXCEPT !.tries = @ + 1,
                            !.step = IF flow.tries + 1 = MaxTries THEN "failed" ELSE @]
    /\ UNCHANGED <<task, charge, late, work, result>>

\* WorkflowExecutionTimeout: Temporal ends a workflow 24 hours after its start,
\* at whatever step it is, and runs nothing more for it; an attempt goes on
\* unheard.  The deadline of the task is TASK_TIMEOUT_MINUTES after the
\* submission, by default the same 24 hours, so the limit may come before it or
\* soon after.
WorkflowExpires ==
    /\ flow.step \notin {"none", "unstarted", "closed", "failed", "expired"}
    /\ flow' = At("expired")
    /\ UNCHANGED <<task, charge, late, work, result, faults>>

Fresh(act) == [pc |-> "load", act |-> act, row |-> NoTask, to |-> "none", delta |-> 0]

\* The next attempt of the activity the workflow is at.
Begin(w) ==
    /\ flow.step \in {"poll", "finalize"}
    /\ flow.on = Nobody
    /\ work[w] = Idle
    /\ flow' = [flow EXCEPT !.on = w, !.tries = @ + 1]
    /\ Become(w, Fresh(flow.step))
    /\ UNCHANGED <<task, charge, late, result, faults>>

\* Temporal hears from an attempt only while it waits for it.
Completed(w, next) ==
    /\ Become(w, Idle)
    /\ flow' = IF flow.on = w THEN next ELSE flow

Failed(w) == Completed(w, Retry)

Polled(status) == [At("snapshot") EXCEPT !.done = status \in Terminal]

Finalized(status) == At(IF status = "FAILURE" THEN "refund" ELSE "project")

\* The attempt takes longer than StartToCloseTimeout; its worker goes on.
Overrun(w) ==
    /\ flow.on = w
    /\ Fault("overrun")
    /\ flow' = Retry
    /\ UNCHANGED <<task, charge, late, work, result>>

Crash(w) ==
    /\ work[w] # Idle
    /\ Fault("crash")
    /\ Failed(w)
    /\ UNCHANGED <<task, charge, late, result>>

-----------------------------------------------------------------------------
\* The steps of an attempt.

Is(w, pc) == work[w].pc = pc

Goto(w, pc) == Become(w, [work[w] EXCEPT !.pc = pc])

Load(w) ==
    /\ Is(w, "load")
    /\ \/ /\ work[w].act = "poll"
          /\ task.status \in Terminal
          /\ Completed(w, Polled(task.status))
       \/ /\ work[w].act = "poll"
          /\ task.status \notin Terminal
          /\ Become(w, [work[w] EXCEPT !.row = task, !.pc = "fetch"])
          /\ UNCHANGED flow
       \/ \* finalizeTaskTimeout: a task still pending at its deadline fails
          /\ work[w].act = "finalize"
          /\ Become(w, [work[w] EXCEPT
                          !.row = task,
                          !.to = "FAILURE",
                          !.pc = IF late /\ task.status \notin Terminal
                                 THEN "cas" ELSE "upsert"])
          /\ UNCHANGED flow
    /\ UNCHANGED <<task, charge, late, result, faults>>

ReadFails(w) ==
    /\ work[w].pc \in {"load", "refresh", "upsert"}
    /\ Fault("db")
    /\ Failed(w)
    /\ UNCHANGED <<task, charge, late, result>>

\* The channel is gone, or could not be loaded: the task is marked failed
\* whatever its status has become, and nothing is refunded.
ChannelMissing(w) ==
    /\ Is(w, "fetch")
    /\ Fault("channel")
    /\ task' = [task EXCEPT !.status = "FAILURE"]
    /\ Goto(w, "refresh")
    /\ UNCHANGED <<charge, flow, late, result>>

\* No usable answer, or one that tells nothing new.
FetchNothing(w) ==
    /\ Is(w, "fetch")
    /\ Goto(w, "refresh")
    /\ UNCHANGED <<task, charge, flow, late, result, faults>>

FetchVideo(w, a) ==
    /\ Platform = "video"
    /\ Is(w, "fetch")
    /\ Become(w, [work[w] EXCEPT !.to = a.status, !.pc = "cas"])
    /\ UNCHANGED <<task, charge, flow, late, result, faults>>

\* A Suno task is refunded before it is saved, whenever the answer has a
\* failure reason.
FetchSuno(w, a) ==
    /\ Platform = "suno"
    /\ Is(w, "fetch")
    /\ Become(w, [work[w] EXCEPT
                    !.to = a.status,
                    !.pc = IF /\ a.status = "FAILURE" \/ a.reason
                              /\ work[w].row.quota # 0
                           THEN "refund" ELSE "save"])
    /\ UNCHANGED <<task, charge, flow, late, result, faults>>

\* What follows the end of the billing, or its first error.
AfterBilling(w) ==
    IF work[w].act = "finalize" THEN "upsert"
    ELSE IF Platform = "suno" THEN "save" ELSE "refresh"

AfterWin(w) ==
    IF work[w].to = "FAILURE" /\ work[w].row.quota # 0 THEN "refund"
    ELSE IF work[w].to = "SUCCESS" THEN "settle" ELSE AfterBilling(w)

\* Mutant of Guarded: the conditional update has lost its condition.
Unguarded(w) == TRUE

\* The condition of UpdateTaskWithStatus: the status is still the one loaded.
Guarded(w) == task.status = work[w].row.status

\* UpdateTaskWithStatus writes the whole row.  The winner of the transition
\* bills; a finalisation that loses loads the row again.
Cas(w) ==
    /\ Is(w, "cas")
    /\ \/ /\ Guarded(w)
          /\ task' = [work[w].row EXCEPT !.status = work[w].to]
          /\ Become(w, [work[w] EXCEPT !.row.status = work[w].to, !.pc = AfterWin(w)])
       \/ /\ ~Guarded(w)
          /\ Become(w, [work[w] EXCEPT !.row = task, !.pc = AfterBilling(w)])
          /\ UNCHANGED task
    /\ UNCHANGED <<charge, flow, late, result, faults>>

CasFails(w) ==
    /\ Is(w, "cas")
    /\ Fault("db")
    /\ IF work[w].act = "poll" THEN Goto(w, "refresh") /\ UNCHANGED flow
                               ELSE Failed(w)
    /\ UNCHANGED <<task, charge, late, result>>

\* recordTaskRefund: first the wallet; if that fails, nothing more.
Refund(w) ==
    /\ Is(w, "refund")
    /\ charge' = [charge EXCEPT !.funding = @ - work[w].row.quota]
    /\ Become(w, [work[w] EXCEPT !.delta = -work[w].row.quota, !.pc = "token"])
    /\ UNCHANGED <<task, flow, late, result, faults>>

\* settleTaskBillingOnComplete: the difference to what the task cost.
Settle(w, usage) ==
    /\ Is(w, "settle")
    /\ usage # work[w].row.quota
    /\ charge' = [charge EXCEPT !.funding = @ + usage - work[w].row.quota]
    /\ Become(w, [work[w] EXCEPT !.delta = usage - work[w].row.quota, !.pc = "token"])
    /\ UNCHANGED <<task, flow, late, result, faults>>

\* A price per call, or no difference.
SettleNothing(w) ==
    /\ Is(w, "settle")
    /\ Goto(w, AfterBilling(w))
    /\ UNCHANGED <<task, charge, flow, late, result, faults>>

WalletFails(w) ==
    /\ work[w].pc \in {"refund", "settle"}
    /\ Fault("wallet")
    /\ Goto(w, AfterBilling(w))
    /\ UNCHANGED <<task, charge, flow, late, result>>

AfterToken(w) ==
    IF Platform = "video" /\ work[w].to = "SUCCESS" THEN "quota" ELSE AfterBilling(w)

\* Mutant of Token: only what the user gets back reaches the token.
TokenRefundOnly(w) ==
    /\ Is(w, "token")
    /\ charge' = [charge EXCEPT !.token = @ + (IF work[w].delta < 0 THEN work[w].delta ELSE 0)]
    /\ Goto(w, AfterToken(w))
    /\ UNCHANGED <<task, flow, late, result, faults>>

Token(w) ==
    /\ Is(w, "token")
    /\ charge' = [charge EXCEPT !.token = @ + work[w].delta]
    /\ Goto(w, AfterToken(w))
    /\ UNCHANGED <<task, flow, late, result, faults>>

TokenFails(w) ==
    /\ Is(w, "token")
    /\ Fault("token")
    /\ Goto(w, AfterToken(w))
    /\ UNCHANGED <<task, charge, flow, late, result>>

WriteQuota(w) ==
    /\ Is(w, "quota")
    /\ task' = [task EXCEPT !.quota = work[w].row.quota + work[w].delta]
    /\ Goto(w, "refresh")
    /\ UNCHANGED <<charge, flow, late, result, faults>>

\* Mutant of Save: the status is written only when the task has ended.
SaveTerminal(w) ==
    /\ Is(w, "save")
    /\ task' = [task EXCEPT !.quota = work[w].row.quota]
    /\ Goto(w, "refresh")
    /\ UNCHANGED <<charge, flow, late, result, faults>>

\* SaveTask overwrites the row, whoever has changed it since it was loaded.
Save(w) ==
    /\ Is(w, "save")
    /\ task' = [work[w].row EXCEPT !.status = work[w].to]
    /\ Goto(w, "refresh")
    /\ UNCHANGED <<charge, flow, late, result, faults>>

WriteFails(w) ==
    /\ work[w].pc \in {"quota", "save"}
    /\ Fault("db")
    /\ Goto(w, "refresh")
    /\ UNCHANGED <<task, charge, flow, late, result>>

Refresh(w) ==
    /\ Is(w, "refresh")
    /\ Completed(w, Polled(task.status))
    /\ UNCHANGED <<task, charge, late, result, faults>>

\* The terminal result of the workflow, from the copy the attempt holds.
Upsert(w) ==
    /\ Is(w, "upsert")
    /\ \/ /\ work[w].row.status \in Terminal
          /\ result' = work[w].row.status
          /\ Completed(w, Finalized(work[w].row.status))
       \/ /\ work[w].row.status \notin Terminal
          /\ Failed(w)
          /\ UNCHANGED result
    /\ UNCHANGED <<task, charge, late, faults>>

-----------------------------------------------------------------------------

Work(w) ==
    \/ Load(w)
    \/ FetchNothing(w)
    \/ \E a \in Answers : FetchVideo(w, a) \/ FetchSuno(w, a)
    \/ Cas(w)
    \/ Refund(w)
    \/ \E u \in Usages : Settle(w, u)
    \/ SettleNothing(w)
    \/ Token(w)
    \/ WriteQuota(w)
    \/ Save(w)
    \/ Refresh(w)
    \/ Upsert(w)

Failure(w) ==
    \/ Overrun(w)
    \/ Crash(w)
    \/ ReadFails(w)
    \/ ChannelMissing(w)
    \/ CasFails(w)
    \/ WalletFails(w)
    \/ TokenFails(w)
    \/ WriteFails(w)

Next ==
    \/ InsertTask
    \/ InsertFails
    \/ StartWorkflow
    \/ StartFails
    \/ DeadlinePasses
    \/ Bookkeep
    \/ BookkeepFails
    \/ WorkflowExpires
    \/ \E w \in Workers : Begin(w) \/ Work(w) \/ Failure(w)

TaskSafety == Init /\ [][Next]_taskVars

\* The deadline passes, Temporal goes on with a workflow whose attempt has
\* ended, and a worker goes on with its attempt: upstream and database answer
\* or time out.  Nothing says when the limit of the workflow is reached, and a
\* workflow that ends before is not bound to reach it: no fairness for it.
TaskSpec ==
    /\ TaskSafety
    /\ WF_taskVars(DeadlinePasses)
    /\ WF_taskVars(Bookkeep)
    /\ WF_taskVars(\E w \in Workers : Begin(w))
    /\ \A w \in Workers : WF_taskVars(Work(w))

-----------------------------------------------------------------------------

\* Types of the row, the charge, the workflow and the attempts.
TypeOK ==
    /\ task \in Row
    /\ charge \in [price : Prices, funding : Int, token : Int]
    /\ flow \in Flow
    /\ late \in BOOLEAN
    /\ work \in [Workers -> Attempt \cup {Idle}]
    /\ result \in Terminal \cup {"none"}
    /\ faults \in [count : 0..MaxFaults, kinds : SUBSET Faults]

\* Whatever fails, and however many attempts overlap, the charge of a task is
\* adjusted at most once: only the winner of its last transition bills.
BilledOnce == [][charge'.funding # charge.funding => charge.funding = charge.price]_taskVars

\* A task that has ended stays ended: an attempt that loaded it before does
\* not bring it back with the row it holds.
EndIsFinal == [][task.status \in Terminal => task'.status \in Terminal]_taskVars

\* The terminal result the workflow recorded, which is what the user is told,
\* is the status of the task, unless a missing channel has overwritten it.
ResultIsStatus ==
    "channel" \notin faults.kinds => result \in {"none", task.status}

AtRest == \A w \in Workers : work[w] = Idle

Harmless == {"start", "activity", "overrun"}

\* When nothing worse has happened than attempts that overran and overlapped,
\* the end of a task and its charge agree: a failed one was paid back in full,
\* wallet and token, and one that succeeded was charged what its row says.
ChargeMatchesOutcome ==
    AtRest /\ task # NoTask /\ faults.kinds \subseteq Harmless =>
        /\ charge.token = charge.funding
        /\ charge.funding = IF task.status = "FAILURE" THEN 0 ELSE task.quota

\* A workflow that has started closes with its task ended, although attempts
\* crash or overrun, or else it is cut off by its 24 hours: it never waits for
\* an attempt that is gone, and never polls on past the deadline.  A task whose
\* workflow was cut off may stay pending for ever, with its charge kept: no code
\* looks for it again (SweepTimedOutTasks has no caller).
EndsUnlessExpired ==
    flow.step = "record" ~> \/ flow.step = "closed" /\ task.status \in Terminal
                            \/ flow.step = "expired"
=============================================================================
