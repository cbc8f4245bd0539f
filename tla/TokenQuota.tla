----------------------------- MODULE TokenQuota -----------------------------
(***************************************************************************)
(* The quota of one API token: a legacy column (remain_quota) and a ledger *)
(* account that mirrors it, from internal/billing/app/token_store.go.  One *)
(* AdjustTokenQuota loads the column, creates and credits the account on   *)
(* its first use, makes the account agree with the column it loaded,       *)
(* charges or credits the account and at last moves the column.  Each step *)
(* below is one read or one transaction; calls for the same token overlap, *)
(* and nothing they read is locked.                                        *)
(*                                                                         *)
(* Transactions of the ledger are those of Ledger under fresh keys; only   *)
(* the first credit has a fixed key.  Tokens without a limit skip it all.  *)
(***************************************************************************)
EXTENDS Integers, FiniteSets, Functions

CONSTANTS
    Callers,        \* executions of AdjustTokenQuota
    Deltas,         \* quota they charge (positive) or give back (negative)
    InitialQuota,   \* the column before the account exists
    MaxFaults       \* bound on the database calls that fail

ASSUME TokenAssumption ==
    /\ IsFiniteSet(Callers)
    /\ Deltas \subseteq Int \ {0}
    /\ InitialQuota \in Nat \ {0}
    /\ MaxFaults \in Nat

VARIABLES
    remain,     \* remain_quota of the token row
    account,    \* the token's ledger account
    call,       \* caller -> its AdjustTokenQuota
    faults      \* number of database calls that failed

vars == <<remain, account, call, faults>>

\* exists: the account row; used: its snapshot is not all zero; boot: amount
\* credited under the key of the first credit, 0 without one.
Account == [available : Int, reserved : Int, exists : BOOLEAN, used : BOOLEAN, boot : Nat]

NewAccount == [available |-> 0, reserved |-> 0, exists |-> FALSE, used |-> FALSE, boot |-> 0]

\* "post" and "settle" are the transactions of an applyTokenLedgerDelta, which
\* aligns the account, applies the delta of the call or undoes it.
Places == {"idle", "check", "load", "ensure", "bootstrap", "reconcile", "post", "settle",
           "project", "ended"}

Purposes == {"align", "apply", "undo"}

Outcomes == {"none", "done", "refused", "failed", "undone"}

\* seen: the column when it was loaded; diff: what it had more than the account;
\* alone: no other call ran since this one started.
Call == [at : Places, purpose : Purposes, delta : Int, seen : Int, diff : Int,
         alone : BOOLEAN, outcome : Outcomes]

NewCall == [at |-> "idle", purpose |-> "apply", delta |-> 0, seen |-> 0, diff |-> 0,
            alone |-> FALSE, outcome |-> "none"]

At(c, place) == call[c].at = place

Active(c) == call[c].at \notin {"idle", "ended"}

Update(c, row) == call' = [call EXCEPT ![c] = row]

GoTo(c, place) == Update(c, [call[c] EXCEPT !.at = place])

End(c, outcome) == Update(c, [call[c] EXCEPT !.at = "ended", !.outcome = outcome])

\* The signed quota of an applyTokenLedgerDelta.
LedgerDelta(s) ==
    CASE s.purpose = "align" -> -s.diff
      [] s.purpose = "apply" -> s.delta
      [] s.purpose = "undo"  -> -s.delta

Post(c, purpose) == Update(c, [call[c] EXCEPT !.at = "post", !.purpose = purpose])

\* Where the call goes once the account has taken the delta.
Posted(c) ==
    CASE call[c].purpose = "align" -> Post(c, "apply")
      [] call[c].purpose = "apply" -> GoTo(c, "project")
      [] call[c].purpose = "undo"  -> End(c, "undone")

-----------------------------------------------------------------------------
(* Actions *)

Init ==
    /\ remain = InitialQuota
    /\ account = NewAccount
    /\ call = [c \in Callers |-> NewCall]
    /\ faults = 0

\* A charge before the upstream call is checked first (PreConsumeTokenQuota);
\* one at settlement, and a refund, are not.
Start(c, delta, checked) ==
    /\ At(c, "idle")
    /\ checked => delta > 0
    /\ call' = [d \in Callers |->
                  IF d = c THEN [NewCall EXCEPT
                                   !.at = IF checked THEN "check" ELSE "load",
                                   !.delta = delta,
                                   !.alone = \A e \in Callers : ~Active(e)]
                  ELSE IF Active(d) THEN [call[d] EXCEPT !.alone = FALSE]
                  ELSE call[d]]
    /\ UNCHANGED <<remain, account, faults>>

\* The ledger answers once the account exists, the column before.
Check(c) ==
    LET balance == IF account.exists THEN account.available ELSE remain
    IN  /\ At(c, "check")
        /\ \/ balance >= call[c].delta /\ GoTo(c, "load")
           \/ balance < call[c].delta /\ End(c, "refused")
        /\ UNCHANGED <<remain, account, faults>>

Load(c) ==
    /\ At(c, "load")
    /\ Update(c, [call[c] EXCEPT !.seen = remain, !.at = "ensure"])
    /\ UNCHANGED <<remain, account, faults>>

\* ensureMirroredTokenAccount up to its test of the snapshot ...
Ensure(c) ==
    /\ At(c, "ensure")
    /\ account' = [account EXCEPT !.exists = TRUE]
    /\ GoTo(c, IF account.used \/ call[c].seen <= 0 THEN "reconcile" ELSE "bootstrap")
    /\ UNCHANGED <<remain, faults>>

\* ... and its credit: the key admits one, and a second is the same or refused.
Bootstrap(c) ==
    /\ At(c, "bootstrap")
    /\ \/ /\ account.boot = 0
          /\ account' = [account EXCEPT !.available = @ + call[c].seen,
                                        !.used = TRUE, !.boot = call[c].seen]
          /\ GoTo(c, "reconcile")
       \/ /\ account.boot = call[c].seen
          /\ GoTo(c, "reconcile")
          /\ UNCHANGED account
       \/ /\ account.boot # 0
          /\ End(c, "refused")
          /\ UNCHANGED account
    /\ UNCHANGED <<remain, faults>>

\* Mutant of Reconcile: the account is taken as it is.
ReconcileSkipped(c) ==
    /\ At(c, "reconcile")
    /\ Post(c, "apply")
    /\ UNCHANGED <<remain, account, faults>>

\* reconcileTokenAccountBalance up to its test of the difference.
Reconcile(c) ==
    LET diff == call[c].seen - account.available
    IN  /\ At(c, "reconcile")
        /\ Update(c, [call[c] EXCEPT
                        !.diff = diff,
                        !.at = "post",
                        !.purpose = IF diff = 0 THEN "apply" ELSE "align"])
        /\ UNCHANGED <<remain, account, faults>>

\* applyTokenLedgerDelta credits in one transaction ...
Credit(c) ==
    LET n == LedgerDelta(call[c])
    IN  /\ At(c, "post")
        /\ n < 0
        /\ account' = [account EXCEPT !.available = @ - n, !.used = TRUE]
        /\ Posted(c)
        /\ UNCHANGED <<remain, faults>>

\* ... and charges in two: a reservation, which the ledger may refuse ...
Hold(c) ==
    LET n == LedgerDelta(call[c])
    IN  /\ At(c, "post")
        /\ n > 0
        /\ \/ /\ account.available >= n
              /\ account' = [account EXCEPT !.available = @ - n, !.reserved = @ + n,
                                            !.used = TRUE]
              /\ GoTo(c, "settle")
           \/ /\ account.available < n
              /\ End(c, IF call[c].purpose = "undo" THEN "failed" ELSE "refused")
              /\ UNCHANGED account
        /\ UNCHANGED <<remain, faults>>

\* ... and its settlement for the same amount.
Consume(c) ==
    /\ At(c, "settle")
    /\ account' = [account EXCEPT !.reserved = @ - LedgerDelta(call[c])]
    /\ Posted(c)
    /\ UNCHANGED <<remain, faults>>

\* Mutant of Project: the column is written from the row that was loaded.
ProjectLoaded(c) ==
    /\ At(c, "project")
    /\ remain' = call[c].seen - call[c].delta
    /\ Update(c, [call[c] EXCEPT !.at = "ended", !.outcome = "done"])
    /\ UNCHANGED <<account, faults>>

\* identitystore.AdjustTokenQuota moves the column by an SQL increment.
Project(c) ==
    /\ At(c, "project")
    /\ remain' = remain - call[c].delta
    /\ Update(c, [call[c] EXCEPT !.at = "ended", !.outcome = "done"])
    /\ UNCHANGED <<account, faults>>

\* A database call fails: what was committed stays, and only a failure to move
\* the column is compensated in the ledger.
Fail(c) ==
    /\ Active(c)
    /\ faults < MaxFaults
    /\ faults' = faults + 1
    /\ IF At(c, "project") THEN Post(c, "undo") ELSE End(c, "failed")
    /\ UNCHANGED <<remain, account>>

Next ==
    \E c \in Callers :
        \/ \E delta \in Deltas, checked \in BOOLEAN : Start(c, delta, checked)
        \/ Check(c) \/ Load(c) \/ Ensure(c) \/ Bootstrap(c) \/ Reconcile(c)
        \/ Credit(c) \/ Hold(c) \/ Consume(c) \/ Project(c)
        \/ Fail(c)

Spec == Init /\ [][Next]_vars

-----------------------------------------------------------------------------
(* Properties *)

\* Rows are well typed, and the account is never overdrawn.
TypeOK ==
    /\ remain \in Int
    /\ account \in Account
    /\ account.available >= 0 /\ account.reserved >= 0
    /\ call \in [Callers -> Call]
    /\ faults \in 0 .. MaxFaults

\* What each call has moved the column by.
Moved == [c \in Callers |-> IF call[c].outcome = "done" THEN call[c].delta ELSE 0]

\* No update of the column is lost: it has moved by exactly the calls that
\* reported success, however they overlap.
ColumnIsExact == remain = InitialQuota - SumFunction(Moved)

\* However calls overlap and fail, the account is well typed and not overdrawn,
\* and no update of the column is lost.
TokenInv == TypeOK /\ ColumnIsExact

\* Whatever drift overlapping or failed calls have left behind, a call that
\* runs alone and is not refused leaves the account equal to the column.
AloneAligns ==
    [][\A c \in Callers :
          (Active(c) /\ call[c].alone /\ call'[c].outcome \in {"done", "undone"})
              => account'.available = remain']_vars

\* A token is not overspent ("token quota is not enough"): a charge that runs
\* alone is accepted only if the column covers it, whatever drift earlier calls
\* have left in the account.  (Two charges at once may both be accepted: the
\* second aligns the account with a column the first has not moved yet.)
AloneNeverOverspends ==
    [][\A c \in Callers :
          (/\ Active(c) /\ call[c].alone
           /\ call[c].delta > 0 /\ call'[c].outcome = "done")
              => remain' >= 0]_vars
=============================================================================
