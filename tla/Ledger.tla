------------------------------- MODULE Ledger -------------------------------
(***************************************************************************)
(* The billing ledger of internal/billing/domain.  Every operation is one  *)
(* database transaction: it looks its idempotency key up without a lock,   *)
(* locks the rows it changes, checks them, writes all its tables and       *)
(* commits, or rolls everything back.  Only the lookup can be separated    *)
(* from the rest by the transactions of other callers (row locks are held  *)
(* until the commit), so an operation is two steps: BeginCall (the lookup) *)
(* and the Tx action of the operation (locks, writes, unique indexes and   *)
(* commit).  Idempotency keys identify the rows they are unique in.        *)
(***************************************************************************)
EXTENDS Integers, Sequences, FiniteSets

CONSTANTS
    Accounts,     \* billing accounts
    Keys,         \* idempotency keys the callers may pass
    Callers,      \* concurrent executions of ledger operations
    MaxAmount,    \* largest amount of a call, in quota units
    NoCall        \* a caller that runs no operation

ASSUME MaxAmountAssumption == MaxAmount \in Nat \ {0}
ASSUME KeysAssumption == IsFiniteSet(Keys)
ASSUME AccountsAssumption == Accounts # {}

VARIABLES
    snapshot,     \* account -> balance snapshot row
    reservation,  \* key -> reservation row; status "absent" before the insert
    settlement,   \* settlement rows
    entries,      \* account -> ledger entries that move money, oldest first
    audit,        \* zero-amount adjustment entries: no money, no BalanceAfter
    outbox,       \* key -> outbox event recorded under "outbox:" + key
    call          \* caller -> the operation it runs past its key lookup

ledger == <<snapshot, reservation, settlement, entries, audit, outbox>>
vars == <<ledger, call>>

-----------------------------------------------------------------------------
(* Rows *)

Snapshot == [available : Int, reserved : Int, consumed : Int,
             refunded : Int, granted : Int]

Status == {"open", "settled", "released"}

AnyAccount == CHOOSE a \in Accounts : TRUE

NoReservation == [account |-> AnyAccount, amount |-> 0, status |-> "absent"]

Reservation == [account : Accounts, amount : 1 .. MaxAmount, status : Status]
               \cup {NoReservation}

Settlement == [reservation : Keys, key : Keys, actual : 0 .. MaxAmount, delta : Int]

\* The ledger stores a caller's key as it is, or prefixed with "entry:".
EntryKeys == {"raw", "entry"} \X Keys

EntryTypes == {"grant_credit", "reserve_hold", "reserve_release",
               "settle_debit", "settle_credit"}

\* ref is the reservation an entry belongs to (its own key for a grant).
Entry == [type : EntryTypes, amount : 1 .. MaxAmount, after : Int,
          key : EntryKeys, ref : Keys]

EventTypes == {"credit_granted", "reservation_created", "reservation_released",
               "reservation_settled", "adjustment_recorded"}

Event == [type : EventTypes \cup {"none"}, account : Accounts,
          status : {"pending", "published"}]

NoEvent == [type |-> "none", account |-> AnyAccount, status |-> "pending"]

EmptySnapshot == [available |-> 0, reserved |-> 0, consumed |-> 0,
                  refunded |-> 0, granted |-> 0]

-----------------------------------------------------------------------------
(* Calls: the parameters that pass the validation of the exported functions *)

CreditCall(k, a, n)  == [op |-> "credit", key |-> k, account |-> a, amount |-> n]
ReserveCall(k, a, n) == [op |-> "reserve", key |-> k, account |-> a, amount |-> n]
SettleCall(k, r, n)  == [op |-> "settle", key |-> k, target |-> r, amount |-> n]
ReleaseCall(k, r)    == [op |-> "release", key |-> k, target |-> r]
AdjustCall(k, a)     == [op |-> "adjust", key |-> k, account |-> a]

Calls == [op : {"credit", "reserve"}, key : Keys, account : Accounts,
          amount : 1 .. MaxAmount]
         \cup [op : {"settle"}, key : Keys, target : Keys, amount : 0 .. MaxAmount]
         \cup [op : {"release"}, key : Keys, target : Keys]
         \cup [op : {"adjust"}, key : Keys, account : Accounts]

-----------------------------------------------------------------------------
(* Unique indexes and idempotency lookups *)

EntryExists(ek) ==
    \/ \E a \in Accounts : \E i \in DOMAIN entries[a] : entries[a][i].key = ek
    \/ \E row \in audit : ek = <<"raw", row.key>>

ReservationExists(k) == reservation[k].status # "absent"

\* What settle and release require of the reservation row they lock.
IsOpen(r) == reservation[r].status = "open"

SettlementExists(k) == \E s \in settlement : s.key = k

\* Mutant of OutboxFree: an existing event is not compared with the new one.
OutboxFreeUnchecked(k) == TRUE

\* An event under an existing key makes the transaction fail: the aggregate
\* of the new row is a fresh identifier, never the one already recorded.
OutboxFree(k) == outbox[k].type = "none"

\* What the lookup that opens an operation finds.  The operation then returns
\* the existing row or ErrLedgerConflict, and changes nothing.  A release does
\* its lookup under the reservation's lock, inside ReleaseReservationTx.
KeyKnown(request) ==
    CASE request.op \in {"credit", "adjust"} -> EntryExists(<<"raw", request.key>>)
      [] request.op = "reserve" -> ReservationExists(request.key)
      [] request.op = "settle"  -> SettlementExists(request.key)
      [] request.op = "release" -> FALSE

-----------------------------------------------------------------------------
(* Balance arithmetic on one snapshot row *)

Moved(s, available, reserved, consumed, refunded, granted) ==
    [available |-> s.available + available,
     reserved  |-> s.reserved + reserved,
     consumed  |-> s.consumed + consumed,
     refunded  |-> s.refunded + refunded,
     granted   |-> s.granted + granted]

Credited(s, n) == Moved(s, n, 0, 0, 0, n)

Held(s, n) == Moved(s, -n, n, 0, 0, 0)

Unheld(s, n) == Moved(s, n, -n, 0, 0, 0)

\* Mutant of Settled: the held amount is booked as consumed.
SettledAsHeld(s, held, actual) ==
    Moved(s, held - actual, -held, held,
          IF actual < held THEN held - actual ELSE 0, 0)

\* actual - held is debited from the available balance, or returned to it.
Settled(s, held, actual) ==
    Moved(s, held - actual, -held, actual,
          IF actual < held THEN held - actual ELSE 0, 0)

CanHold(s, n) == s.available >= n

\* Mutant of CanSettle: the extra debit is not checked against the balance.
CanSettleUnchecked(s, held, actual) == s.reserved >= held

CanSettle(s, held, actual) ==
    /\ s.reserved >= held
    /\ actual > held => s.available >= actual - held

-----------------------------------------------------------------------------
(* Writes shared by the operations *)

\* Mutant of SetStatus: every reservation is closed as a released one.
SetStatusReleased(r, status) ==
    reservation' = [reservation EXCEPT ![r] = [@ EXCEPT !.status = "released"]]

SetStatus(r, status) ==
    reservation' = [reservation EXCEPT ![r] = [@ EXCEPT !.status = status]]

Record(k, type, a) ==
    /\ OutboxFree(k)
    /\ outbox' = [outbox EXCEPT ![k] =
                    [type |-> type, account |-> a, status |-> "pending"]]

Post(a, type, n, ek, ref) ==
    /\ ~EntryExists(ek)
    /\ entries' = [entries EXCEPT ![a] =
                     Append(@, [type |-> type, amount |-> n,
                                after |-> snapshot'[a].available,
                                key |-> ek, ref |-> ref])]

Done(c) == call' = [call EXCEPT ![c] = NoCall]

-----------------------------------------------------------------------------
(* Actions *)

Init ==
    /\ snapshot = [a \in Accounts |-> EmptySnapshot]
    /\ reservation = [k \in Keys |-> NoReservation]
    /\ settlement = {}
    /\ entries = [a \in Accounts |-> <<>>]
    /\ audit = {}
    /\ outbox = [k \in Keys |-> NoEvent]
    /\ call = [c \in Callers |-> NoCall]

\* The transaction opens and its lookup finds no row under the key.
BeginCall(c, request) ==
    /\ call[c] = NoCall
    /\ ~KeyKnown(request)
    /\ call' = [call EXCEPT ![c] = request]
    /\ UNCHANGED ledger

\* creditAccountTx past its lookup.
CreditAccountTx(c, k, a, n) ==
    /\ call[c] = CreditCall(k, a, n)
    /\ snapshot' = [snapshot EXCEPT ![a] = Credited(@, n)]
    /\ Post(a, "grant_credit", n, <<"raw", k>>, k)
    /\ Record(k, "credit_granted", a)
    /\ Done(c)
    /\ UNCHANGED <<reservation, settlement, audit>>

\* createReservationTx past its lookup.
CreateReservationTx(c, k, a, n) ==
    /\ call[c] = ReserveCall(k, a, n)
    /\ CanHold(snapshot[a], n)
    /\ ~ReservationExists(k)
    /\ snapshot' = [snapshot EXCEPT ![a] = Held(@, n)]
    /\ reservation' = [reservation EXCEPT ![k] =
                         [account |-> a, amount |-> n, status |-> "open"]]
    /\ Post(a, "reserve_hold", n, <<"entry", k>>, k)
    /\ Record(k, "reservation_created", a)
    /\ Done(c)
    /\ UNCHANGED <<settlement, audit>>

\* releaseReservationTx.  A released reservation is returned as it is (see
\* RollbackTx).  The branch that finds the release entry of a reservation
\* that is still open is unreachable, as both are written by one commit
\* (ClosedOnce), and is left out.
ReleaseReservationTx(c, k, r) ==
    LET a == reservation[r].account
        held == reservation[r].amount
    IN  /\ call[c] = ReleaseCall(k, r)
        /\ IsOpen(r)
        /\ snapshot[a].reserved >= held
        /\ snapshot' = [snapshot EXCEPT ![a] = Unheld(@, held)]
        /\ SetStatus(r, "released")
        /\ Post(a, "reserve_release", held, <<"raw", k>>, r)
        /\ Record(k, "reservation_released", a)
        /\ Done(c)
        /\ UNCHANGED <<settlement, audit>>

\* The entry of a settlement: none when the actual amount is the held one.
PostSettlement(a, k, r, held, actual) ==
    \/ /\ actual = held
       /\ UNCHANGED entries
    \/ /\ actual > held
       /\ Post(a, "settle_debit", actual - held, <<"entry", k>>, r)
    \/ /\ actual < held
       /\ Post(a, "settle_credit", held - actual, <<"entry", k>>, r)

\* settleReservationTx past its lookup.
SettleReservationTx(c, k, r, actual) ==
    LET a == reservation[r].account
        held == reservation[r].amount
    IN  /\ call[c] = SettleCall(k, r, actual)
        /\ IsOpen(r)
        /\ CanSettle(snapshot[a], held, actual)
        /\ ~SettlementExists(k)
        /\ \A s \in settlement : s.reservation # r
        /\ snapshot' = [snapshot EXCEPT ![a] = Settled(@, held, actual)]
        /\ settlement' = settlement \cup
             {[reservation |-> r, key |-> k, actual |-> actual,
               delta |-> actual - held]}
        /\ SetStatus(r, "settled")
        /\ PostSettlement(a, k, r, held, actual)
        /\ Record(k, "reservation_settled", a)
        /\ Done(c)
        /\ UNCHANGED audit

\* recordAdjustmentTx past its lookup: it locks and changes no balance.
RecordAdjustmentTx(c, k, a) ==
    /\ call[c] = AdjustCall(k, a)
    /\ ~EntryExists(<<"raw", k>>)
    /\ audit' = audit \cup {[account |-> a, key |-> k]}
    /\ Record(k, "adjustment_recorded", a)
    /\ Done(c)
    /\ UNCHANGED <<snapshot, reservation, settlement, entries>>

\* The transaction leaves no trace: a check or a unique index refused it, the
\* reservation was released already, the database failed or the process died.
RollbackTx(c) ==
    /\ call[c] # NoCall
    /\ Done(c)
    /\ UNCHANGED ledger

Next ==
    \E c \in Callers :
        \/ \E request \in Calls : BeginCall(c, request)
        \/ RollbackTx(c)
        \/ \E k \in Keys, a \in Accounts, n \in 1 .. MaxAmount :
              CreditAccountTx(c, k, a, n) \/ CreateReservationTx(c, k, a, n)
        \/ \E k \in Keys, r \in Keys : ReleaseReservationTx(c, k, r)
        \/ \E k \in Keys, r \in Keys, actual \in 0 .. MaxAmount :
              SettleReservationTx(c, k, r, actual)
        \/ \E k \in Keys, a \in Accounts : RecordAdjustmentTx(c, k, a)

Spec == Init /\ [][Next]_vars

-----------------------------------------------------------------------------
(* Properties *)

\* Every table holds rows of its type.
TypeOK ==
    /\ snapshot \in [Accounts -> Snapshot]
    /\ reservation \in [Keys -> Reservation]
    /\ settlement \in SUBSET Settlement
    /\ entries \in [Accounts -> Seq(Entry)]
    /\ audit \in SUBSET [account : Accounts, key : Keys]
    /\ outbox \in [Keys -> Event]
    /\ call \in [Callers -> Calls \cup {NoCall}]

\* Whatever the operations interleave, what was granted to an account is
\* available, held or consumed: no delta of a settlement is lost or doubled.
FundsConserved ==
    \A a \in Accounts :
        snapshot[a].granted = snapshot[a].available + snapshot[a].reserved
                                + snapshot[a].consumed

\* No account is overdrawn: concurrent reservations and settlements that
\* cost more than was held check and take the balance under one lock.
NoOverdraft ==
    \A a \in Accounts : snapshot[a].available >= 0 /\ snapshot[a].reserved >= 0

\* The quota units that the open reservations of an account hold.
HeldUnits(a) ==
    {u \in Keys \X (1 .. MaxAmount) :
        /\ reservation[u[1]].status = "open"
        /\ reservation[u[1]].account = a
        /\ u[2] <= reservation[u[1]].amount}

\* The held balance of an account is the sum of its open reservations, so the
\* "reserved balance underflow" error of settle and release cannot happen.
HeldByOpenReservations ==
    \A a \in Accounts : snapshot[a].reserved = Cardinality(HeldUnits(a))

Signed(type, n) ==
    IF type \in {"grant_credit", "reserve_release", "settle_credit"} THEN n ELSE -n

\* Each entry carries the balance after it, and the last one the balance.
Chained(es, balance) ==
    /\ \A i \in DOMAIN es :
          es[i].after = Signed(es[i].type, es[i].amount)
                          + IF i = 1 THEN 0 ELSE es[i - 1].after
    /\ balance = IF es = <<>> THEN 0 ELSE es[Len(es)].after

\* Replaying the entries of an account in order explains every BalanceAfter
\* they carry and ends in its available balance.
BalanceChain == \A a \in Accounts : Chained(entries[a], snapshot[a].available)

HasReleaseEntry(r) ==
    \E a \in Accounts : \E i \in DOMAIN entries[a] :
        entries[a][i].type = "reserve_release" /\ entries[a][i].ref = r

\* A reservation is closed by one settlement or by one release entry and never
\* by both, and its status says which, when callers settle and release at once.
ClosedOnce ==
    \A r \in Keys :
        /\ (reservation[r].status = "settled") <=> \E s \in settlement : s.reservation = r
        /\ (reservation[r].status = "released") <=> HasReleaseEntry(r)
        /\ \A s, t \in settlement : s.reservation = t.reservation => s = t

HasEntry(ek, type) ==
    \E a \in Accounts : \E i \in DOMAIN entries[a] :
        entries[a][i].key = ek /\ entries[a][i].type = type

\* The effect of an operation that owns the key k.
HasEffect(k, type) ==
    CASE type = "reservation_created" -> ReservationExists(k)
      [] type = "reservation_settled" -> SettlementExists(k)
      [] type = "adjustment_recorded" -> \E row \in audit : row.key = k
      [] type = "credit_granted" -> HasEntry(<<"raw", k>>, "grant_credit")
      [] type = "reservation_released" -> HasEntry(<<"raw", k>>, "reserve_release")

\* A key has at most one effect in all the tables together, although each has
\* its own unique index, and the outbox announces exactly that effect.
OneEffectPerKey ==
    \A k \in Keys : \A type \in EventTypes :
        HasEffect(k, type) <=> outbox[k].type = type

\* A reservation is opened once, keeps its account and amount, and is never
\* reopened or closed a second time.
ReservationStep(old, new) ==
    \/ new = old
    \/ old.status = "absent" /\ new.status = "open"
    \/ /\ old.status = "open"
       /\ new \in {[old EXCEPT !.status = "settled"], [old EXCEPT !.status = "released"]}

ReservationLifecycle ==
    [][\A k \in Keys : ReservationStep(reservation[k], reservation'[k])]_vars

\* Ledger entries are immutable facts: a step appends at most one entry to one
\* account and never changes or removes one.
EntriesAppendOnly ==
    [][\A a \in Accounts :
          /\ Len(entries'[a]) >= Len(entries[a])
          /\ \A i \in DOMAIN entries[a] : entries'[a][i] = entries[a][i]]_vars
=============================================================================
