---------------------------- MODULE WalletStore -----------------------------
(***************************************************************************)
(* The wallet of one user: its ledger account, the legacy quota column     *)
(* that mirrors it and the funding lots that say where its quota came      *)
(* from.  Three kinds of calls move it: an administrator's AdjustWallet-   *)
(* Quota and SetWalletQuota, a top-up completed by a payment notification  *)
(* (CreditWalletQuotaTx), and a settled relay request, whose cost is       *)
(* attributed to the lots.  Each step is one read or one transaction       *)
(* (internal/billing/app, internal/commerce/app/topup_runtime.go).         *)
(*                                                                         *)
(* Rows are read without a lock and locked by their first update; a query  *)
(* FOR UPDATE (clause.Locking) locks too, but the option gorm:query_option *)
(* with which a top-up reads its order is not known to gorm v2 and locks   *)
(* nothing.  LockOrder excludes completions in one process only.           *)
(***************************************************************************)
EXTENDS Integers, Sequences, FiniteSets, FiniteSetsExt

CONSTANTS
    Callers,        \* goroutines
    Process,        \* goroutine -> its process
    Orders,         \* top-up orders
    Requests,       \* relay requests
    Value,          \* order -> quota it credits, request -> quota it costs
    Deltas,         \* quota an administrator charges (< 0: gives)
    Targets,        \* quota an administrator sets
    InitialQuota,   \* the column before the account exists
    MaxCalls,       \* bound on the calls started
    MaxFaults       \* bound on the database calls that fail

ASSUME WalletAssumption ==
    /\ Orders \cap Requests = {}
    /\ Value \in [Orders \cup Requests -> Nat \ {0}]
    /\ Deltas \subseteq Int \ {0}
    /\ Targets \subseteq Nat
    /\ "legacy" \notin Orders /\ IsFiniteSet(Requests)
    /\ {InitialQuota, MaxCalls, MaxFaults} \subseteq Nat

VARIABLES
    account,    \* ledger account: exists, available, used, boot
    quota,      \* legacy quota column
    granted,    \* order -> quota its key granted in the ledger
    lots,       \* funding lots, oldest first
    drawn,      \* request -> lot -> quota allocated, as a set of pairs
    paid,       \* orders with status success
    call,       \* caller -> its call
    calls,      \* calls started
    faults,     \* database calls that failed
    due,        \* what the calls that ended well add up to
    apart       \* no two calls ever overlapped

vars == <<account, quota, granted, lots, drawn, paid, call, calls, faults, due, apart>>

\* used: hasNonZeroSnapshot; boot: amount of the entry under the key
\* mirror-bootstrap, 0 without one.
Account == [exists : BOOLEAN, available : Int, used : BOOLEAN, boot : Nat]

NewAccount == [exists |-> FALSE, available |-> 0, used |-> FALSE, boot |-> 0]

\* of: the order that funded the lot, "legacy" for quota nobody recorded.
Lot == [of : Orders \cup {"legacy"}, original : Nat, remaining : Int]

Places == {"idle", "setRead", "read", "ensure", "bootstrap", "compare", "align", "apply",
           "project", "undo", "order", "save", "balance", "snapshot", "credit",
           "lots", "allocate"}

\* delta: quota to charge; target: the quota a set shall leave, or NoTarget;
\* seen: the balance read; diff: the alignment it asks for; boot: the first
\* credit of a top-up's transaction; fresh: that transaction creates the
\* account; known, missing: the lots seen and the quota they lack.
NoTarget == -1

Call == [at : Places, subject : Orders \cup Requests \cup {"none"}, delta : Int,
         target : Targets \cup {NoTarget}, seen : Int, diff : Int, boot : Nat,
         fresh : BOOLEAN, known : Nat, missing : Nat]

NoCall == [at |-> "idle", subject |-> "none", delta |-> 0, target |-> NoTarget, seen |-> 0,
           diff |-> 0, boot |-> 0, fresh |-> FALSE, known |-> 0, missing |-> 0]

At(c, place) == call[c].at = place

AllIdle == \A c \in Callers : At(c, "idle")

Update(c, row) == call' = [call EXCEPT ![c] = row]

GoTo(c, place) == Update(c, [call[c] EXCEPT !.at = place])

End(c) == Update(c, NoCall)

Begin(c, row) ==
    /\ At(c, "idle")
    /\ calls < MaxCalls
    /\ calls' = calls + 1
    /\ apart' = (apart /\ AllIdle)
    /\ Update(c, row)

\* The ledger moves by n: a charge is refused when it is not covered.
CanPay(a, n) == n <= 0 \/ a.available >= n

Charged(a, n) == [a EXCEPT !.available = @ - n, !.used = @ \/ n # 0]

wallet == <<account, quota, granted, lots, drawn, paid>>
history == <<calls, apart>>

-----------------------------------------------------------------------------
(* AdjustWalletQuota and SetWalletQuota *)

Adjust(c, delta) ==
    /\ Begin(c, [NoCall EXCEPT !.at = "read", !.delta = delta])
    /\ UNCHANGED <<wallet, faults, due>>

Set(c, target) ==
    /\ Begin(c, [NoCall EXCEPT !.at = "setRead", !.target = target])
    /\ UNCHANGED <<wallet, faults, due>>

\* The ledger answers once the account exists, the column before.
GetUserWalletQuota == IF account.exists THEN account.available ELSE quota

\* Mutant of SetRead: the difference is turned round.
SetReadReversed(c) ==
    /\ At(c, "setRead")
    /\ Update(c, IF GetUserWalletQuota = call[c].target THEN NoCall
                 ELSE [call[c] EXCEPT !.delta = call[c].target - GetUserWalletQuota,
                                      !.at = "read"])
    /\ due' = IF GetUserWalletQuota = call[c].target THEN call[c].target ELSE due
    /\ UNCHANGED <<wallet, faults, history>>

\* setUserWalletQuota adjusts by the difference it finds, if there is one.
SetRead(c) ==
    LET delta == GetUserWalletQuota - call[c].target
    IN  /\ At(c, "setRead")
        /\ Update(c, IF delta = 0 THEN NoCall
                     ELSE [call[c] EXCEPT !.delta = delta, !.at = "read"])
        /\ due' = IF delta = 0 THEN call[c].target ELSE due
        /\ UNCHANGED <<wallet, faults, history>>

Read(c) ==
    /\ At(c, "read")
    /\ Update(c, [call[c] EXCEPT !.seen = GetUserWalletQuota, !.at = "ensure"])
    /\ UNCHANGED <<wallet, faults, due, history>>

\* ensureMirroredUserAccount up to its test of the snapshot ...
Ensure(c) ==
    /\ At(c, "ensure")
    /\ account' = [account EXCEPT !.exists = TRUE]
    /\ GoTo(c, IF account.used \/ call[c].seen <= 0 THEN "compare" ELSE "bootstrap")
    /\ UNCHANGED <<quota, granted, lots, drawn, paid, faults, due, history>>

\* Mutant of Bootstrap: the first credit has a key of its own in every call.
BootstrapUnkeyed(c) ==
    /\ At(c, "bootstrap")
    /\ account' = [Charged(account, -call[c].seen) EXCEPT !.boot = @ + call[c].seen]
    /\ GoTo(c, "compare")
    /\ UNCHANGED <<quota, granted, lots, drawn, paid, faults, due, history>>

\* ... and its credit: the key admits one; a second is the same, or a conflict
\* that ends the call.
Bootstrap(c) ==
    /\ At(c, "bootstrap")
    /\ IF account.boot = 0
       THEN account' = [Charged(account, -call[c].seen) EXCEPT !.boot = call[c].seen]
       ELSE UNCHANGED account
    /\ IF account.boot \in {0, call[c].seen} THEN GoTo(c, "compare") ELSE End(c)
    /\ UNCHANGED <<quota, granted, lots, drawn, paid, faults, due, history>>

\* reconcileAccountBalance up to its test of the difference.
Compare(c) ==
    LET diff == call[c].seen - account.available
    IN  /\ At(c, "compare")
        /\ Update(c, [call[c] EXCEPT !.diff = diff,
                                     !.at = IF diff = 0 THEN "apply" ELSE "align"])
        /\ UNCHANGED <<wallet, faults, due, history>>

\* applyLedgerDelta: a credit, or a reservation and its settlement.
ApplyLedgerDelta(c, n, row) ==
    /\ IF CanPay(account, n)
       THEN account' = Charged(account, n) /\ Update(c, row)
       ELSE End(c) /\ UNCHANGED account
    /\ UNCHANGED <<quota, granted, lots, drawn, paid, faults, due, history>>

Align(c) ==
    /\ At(c, "align")
    /\ ApplyLedgerDelta(c, -call[c].diff, [call[c] EXCEPT !.at = "apply"])

Apply(c) ==
    /\ At(c, "apply")
    /\ ApplyLedgerDelta(c, call[c].delta, [call[c] EXCEPT !.at = "project"])

\* The column moves by an SQL increment, and the call is done.
Project(c) ==
    /\ At(c, "project")
    /\ quota' = quota - call[c].delta
    /\ due' = IF call[c].target = NoTarget THEN due - call[c].delta ELSE call[c].target
    /\ End(c)
    /\ UNCHANGED <<account, granted, lots, drawn, paid, faults, history>>

\* The ledger is compensated for a column that could not be moved.
Undo(c) ==
    /\ At(c, "undo")
    /\ ApplyLedgerDelta(c, -call[c].delta, NoCall)

-----------------------------------------------------------------------------
(* CompleteTopUpByTradeNo, under LockOrder *)

Completing(c, o) == ~At(c, "idle") /\ call[c].subject = o

Complete(c, o) ==
    /\ \A d \in Callers : Process[d] = Process[c] => ~Completing(d, o)
    /\ Begin(c, [NoCall EXCEPT !.at = "order", !.subject = o])
    /\ UNCHANGED <<wallet, faults, due>>

ReadOrder(c) ==
    /\ At(c, "order")
    /\ IF call[c].subject \in paid THEN End(c) ELSE GoTo(c, "save")
    /\ UNCHANGED <<wallet, faults, due, history>>

\* Mutant of HoldsRow: the read of the order takes a shared lock on its row.
HoldsRowShared(c, o) ==
    call[c].subject = o /\ call[c].at \in {"save", "balance", "snapshot", "credit"}

HoldsRow(c, o) == call[c].subject = o /\ call[c].at \in {"balance", "snapshot", "credit"}

\* tx.Save locks the order's row, and waits for another transaction that has it.
SaveOrder(c) ==
    /\ At(c, "save")
    /\ \A d \in Callers \ {c} : ~HoldsRow(d, call[c].subject)
    /\ GoTo(c, "balance")
    /\ UNCHANGED <<wallet, faults, due, history>>

\* creditUserWalletQuotaTx reads the column, not the ledger ...
ReadColumn(c) ==
    /\ At(c, "balance")
    /\ Update(c, [call[c] EXCEPT !.seen = quota, !.at = "snapshot"])
    /\ UNCHANGED <<wallet, faults, due, history>>

\* ... and compares it with a snapshot that it, too, reads without a lock:
\* ensureMirroredUserAccountTx and reconcileAccountBalanceTx.
ReadSnapshot(c) ==
    LET boot == IF account.used \/ call[c].seen <= 0 THEN 0 ELSE call[c].seen
    IN  /\ At(c, "snapshot")
        /\ Update(c, [call[c] EXCEPT !.boot = boot, !.fresh = ~account.exists,
                                     !.diff = call[c].seen - account.available - boot,
                                     !.at = "credit"])
        /\ UNCHANGED <<wallet, faults, due, history>>

\* The writes of the transaction: a unique index refuses a second account and a
\* second first credit, and a charge the account does not cover fails.
CanCommit(c) ==
    /\ call[c].fresh => ~account.exists
    /\ call[c].boot > 0 => account.boot = 0
    /\ CanPay(account, -(call[c].diff + call[c].boot))

\* CreditAccountTx moves nothing under a key it has already seen.
LedgerCredit(o) == IF granted[o] = 0 THEN Value[o] ELSE 0

\* recordFundingLotTx, likewise.
RecordFundingLot(ls, o) ==
    IF \E i \in DOMAIN ls : ls[i].of = o THEN ls
    ELSE Append(ls, [of |-> o, original |-> Value[o], remaining |-> Value[o]])

\* The column is increased whatever the ledger did.
Credit(c) ==
    LET o == call[c].subject
        gift == LedgerCredit(o)
        moved == call[c].boot + call[c].diff + gift
    IN  /\ At(c, "credit")
        /\ CanCommit(c)
        /\ account' = [exists |-> TRUE, available |-> account.available + moved,
                       used |-> TRUE, boot |-> account.boot + call[c].boot]
        /\ granted' = [granted EXCEPT ![o] = @ + gift]
        /\ lots' = RecordFundingLot(lots, o)
        /\ quota' = quota + Value[o]
        /\ paid' = paid \cup {o}
        /\ due' = IF o \in paid THEN due ELSE due + Value[o]
        /\ End(c)
        /\ UNCHANGED <<drawn, faults, history>>

RollbackCredit(c) ==
    /\ At(c, "credit")
    /\ ~CanCommit(c)
    /\ End(c)
    /\ UNCHANGED <<wallet, faults, due, history>>

-----------------------------------------------------------------------------
(* A relay request settles; its cost is attributed to the lots *)

\* The steps up to the settlement are those of RelayBilling.
Settle(c, r) ==
    /\ account.exists
    /\ account.available >= Value[r]
    /\ \A d \in Callers : call[d].subject # r
    /\ ~\E p \in drawn : p.request = r
    /\ Begin(c, [NoCall EXCEPT !.at = "lots", !.subject = r])
    /\ account' = Charged(account, Value[r])
    /\ quota' = quota - Value[r]
    /\ due' = due - Value[r]
    /\ UNCHANGED <<granted, lots, drawn, paid, faults>>

Remaining(ls) == SumFunction([i \in DOMAIN ls |-> ls[i].remaining])

\* Mutant of Missing: the balance that is left is not covered.
MissingForBalance(n) == IF account.available > Remaining(lots)
                        THEN account.available - Remaining(lots) ELSE 0

\* ensureLegacyFundingLotTx: what the lots lack to cover the balance before n was spent.
Missing(n) ==
    LET target == account.available + n
    IN  IF Remaining(lots) >= target THEN 0 ELSE target - Remaining(lots)

ReadLots(c) ==
    /\ At(c, "lots")
    /\ Update(c, [call[c] EXCEPT !.missing = Missing(Value[call[c].subject]),
                                 !.known = Len(lots), !.at = "allocate"])
    /\ UNCHANGED <<wallet, faults, due, history>>

WithLegacyLot(ls, n) ==
    IF n = 0 THEN ls ELSE Append(ls, [of |-> "legacy", original |-> n, remaining |-> n])

\* Mutant of Used: the newest lot gives first.
UsedNewestFirst(ls, visible, n) ==
    [i \in DOMAIN ls |->
        LET later == SumFunction([j \in {k \in visible : k > i} |-> ls[j].remaining])
            open == Max({0, n - later})
        IN  IF i \in visible THEN Min({open, ls[i].remaining}) ELSE 0]

\* What each lot gives of n when the oldest visible one gives first.
Used(ls, visible, n) ==
    [i \in DOMAIN ls |->
        LET older == SumFunction([j \in {k \in visible : k < i} |-> ls[j].remaining])
            open == Max({0, n - older})
        IN  IF i \in visible THEN Min({open, ls[i].remaining}) ELSE 0]

Drained(ls, used) ==
    [i \in DOMAIN ls |-> [ls[i] EXCEPT !.remaining = ls[i].remaining - used[i]]]

Allocations(r, used) ==
    {[request |-> r, lot |-> i, amount |-> used[i]] : i \in {j \in DOMAIN used : used[j] # 0}}

\* The lots that the allocation of c sees: all up to the one at seen, and its own.
Visible(ls, seen) == {i \in DOMAIN ls : i <= seen \/ i > Len(lots)}

\* Mutant of Allocate: what the lots lack is left unattributed.
AllocatePartly(c, seen) ==
    LET r == call[c].subject
        ls == WithLegacyLot(lots, call[c].missing)
        used == Used(ls, Visible(ls, seen), Value[r])
    IN  /\ At(c, "allocate")
        /\ seen >= call[c].known
        /\ lots' = Drained(ls, used)
        /\ drawn' = drawn \cup Allocations(r, used)
        /\ End(c)
        /\ UNCHANGED <<account, quota, granted, paid, faults, due, history>>

\* The rest of AllocateSettledFundingFIFO.  Its query locks the lots and waits for
\* transactions that hold them: it then has their new amounts, but it may miss
\* lots committed while it waited.  Lots that do not suffice roll it back.
Allocate(c, seen) ==
    LET r == call[c].subject
        ls == WithLegacyLot(lots, call[c].missing)
        used == Used(ls, Visible(ls, seen), Value[r])
    IN  /\ At(c, "allocate")
        /\ seen >= call[c].known
        /\ IF SumFunction(used) = Value[r]
           THEN lots' = Drained(ls, used) /\ drawn' = drawn \cup Allocations(r, used)
           ELSE UNCHANGED <<lots, drawn>>
        /\ End(c)
        /\ UNCHANGED <<account, quota, granted, paid, faults, due, history>>

-----------------------------------------------------------------------------
(* Faults, and the whole *)

\* A database call fails.  A transaction is rolled back; of the other calls what
\* was committed stays, and only a column that did not move is compensated.
Fail(c) ==
    /\ ~At(c, "idle")
    /\ faults < MaxFaults
    /\ faults' = faults + 1
    /\ IF At(c, "project") THEN GoTo(c, "undo") ELSE End(c)
    /\ UNCHANGED <<wallet, due, history>>

\* A charge of the ledger fails after its reservation: the hold stays.
FailSettling(c) ==
    LET n == CASE At(c, "align") -> -call[c].diff
               [] At(c, "apply") -> call[c].delta
               [] At(c, "undo")  -> -call[c].delta
               [] OTHER          -> 0
    IN  /\ n > 0
        /\ CanPay(account, n)
        /\ faults < MaxFaults
        /\ faults' = faults + 1
        /\ account' = Charged(account, n)
        /\ End(c)
        /\ UNCHANGED <<quota, granted, lots, drawn, paid, due, history>>

Init ==
    /\ account = NewAccount
    /\ quota = InitialQuota
    /\ granted = [o \in Orders |-> 0]
    /\ lots = <<>>
    /\ drawn = {}
    /\ paid = {}
    /\ call = [c \in Callers |-> NoCall]
    /\ calls = 0
    /\ faults = 0
    /\ due = InitialQuota
    /\ apart = TRUE

Proceed(c) ==
    \/ SetRead(c) \/ Read(c) \/ Ensure(c) \/ Bootstrap(c) \/ Compare(c)
    \/ Align(c) \/ Apply(c) \/ Project(c) \/ Undo(c)
    \/ ReadOrder(c) \/ SaveOrder(c) \/ ReadColumn(c) \/ ReadSnapshot(c)
    \/ Credit(c) \/ RollbackCredit(c)
    \/ ReadLots(c) \/ \E seen \in 0 .. Len(lots) : Allocate(c, seen)

Next ==
    \E c \in Callers :
        \/ \E delta \in Deltas : Adjust(c, delta)
        \/ \E target \in Targets : Set(c, target)
        \/ \E o \in Orders : Complete(c, o)
        \/ \E r \in Requests : Settle(c, r)
        \/ Proceed(c)
        \/ Fail(c) \/ FailSettling(c)

Spec == Init /\ [][Next]_vars /\ \A c \in Callers : WF_vars(Proceed(c))

-----------------------------------------------------------------------------
(* Properties *)

\* Rows are well typed; no lot gives more than it holds, and none goes negative.
TypeOK ==
    /\ account \in Account
    /\ quota \in Int
    /\ granted \in [Orders -> Nat]
    /\ lots \in Seq(Lot)
    /\ \A i \in DOMAIN lots : lots[i].remaining \in 0 .. lots[i].original
    /\ drawn \subseteq [request : Requests, lot : Nat, amount : Nat \ {0}]
    /\ paid \subseteq Orders
    /\ call \in [Callers -> Call]
    /\ calls \in Nat /\ faults \in Nat /\ due \in Int /\ apart \in BOOLEAN

\* Calls that ran one after the other, without a fault, leave the ledger and the
\* column with what they add up to, whichever of the two each of them read first
\* and whichever created the account.
ExactWhenApart ==
    apart /\ faults = 0 /\ AllIdle =>
        /\ quota = due
        /\ account.exists => account.available = due

\* However first uses of the wallet overlap, the balance of the column enters the
\* ledger once, and never more of it than there was.
BootstrapOnce == account.boot \in {0, InitialQuota}

\* Notifications may come twice, at once, and in different processes: the ledger
\* and the lots are credited once for a paid order, and not at all for another.
OneGrantPerOrder ==
    \A o \in Orders :
        /\ granted[o] = IF o \in paid THEN Value[o] ELSE 0
        /\ Cardinality({i \in DOMAIN lots : lots[i].of = o}) = IF o \in paid THEN 1 ELSE 0

\* However calls overlap, repeat and fail, rows are well typed, and the first
\* balance and every paid order enter the ledger and the lots once.
WalletInv == TypeOK /\ BootstrapOnce /\ OneGrantPerOrder

Funded(ls) == SumFunction([i \in DOMAIN ls |-> ls[i].original])

Drawn(r) == SumFunction([p \in {q \in drawn : q.request = r} |-> p.amount])

Attributed ==
    INSTANCE Attribution WITH
        Cost <- [r \in Requests |-> Value[r]],
        funded <- Funded(lots),
        drawn <- [r \in Requests |-> Drawn(r)]

\* The lots and allocations implement Attribution: however settlements overlap, a
\* request is attributed in full or not at all, once, and never to quota that was
\* not funded or that another request drew.
ImplementsAttribution == Attributed!Spec

\* A lot gives when older ones are used up.  (A settlement that waited for another
\* may miss the lot which that one created, and take from its own.)
OldestFirstWhenApart ==
    [][apart =>
        \A i, j \in DOMAIN lots' :
            LET before == IF j \in DOMAIN lots THEN lots[j].remaining ELSE lots'[j].original
            IN  i < j /\ lots'[j].remaining < before => lots'[i].remaining = 0]_vars

\* The lots suffice for a settled request, whatever moved the balance without
\* recording a lot.  (Two at once may both count on the same quota: one fails.)
SufficesWhenApart ==
    [][apart /\ faults' = faults =>
        \A c \in Callers : At(c, "allocate") /\ call'[c].at = "idle" => drawn' # drawn]_vars

\* No call waits for ever, for an order's row or for LockOrder.
CallsEnd == \A c \in Callers : ~At(c, "idle") ~> At(c, "idle")
=============================================================================
