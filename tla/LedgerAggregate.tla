-------------------------- MODULE LedgerAggregate --------------------------
(***************************************************************************)
(* The balances of an account recomputed from the rows of the ledger, as   *)
(* internal/billing/app aggregates them: one query per table, each with    *)
(* the fields of the balance snapshot that it can explain.                 *)
(***************************************************************************)
EXTENDS Ledger, Functions

\* The sums of the queries, each over the rows its WHERE selects.
Available(a) ==
    LET es == entries[a]
    IN  SumFunction([i \in DOMAIN es |-> Signed(es[i].type, es[i].amount)])

Granted(a) ==
    LET es == entries[a]
    IN  SumFunction([i \in DOMAIN es |->
                        IF es[i].type = "grant_credit" THEN es[i].amount ELSE 0])

SettlementsOf(a) == {s \in settlement : reservation[s.reservation].account = a}

Consumed(a) == SumFunction([s \in SettlementsOf(a) |-> s.actual])

Refunded(a) == SumFunction([s \in SettlementsOf(a) |-> IF s.delta < 0 THEN -s.delta ELSE 0])

OpenOf(a) == {k \in Keys : IsOpen(k) /\ reservation[k].account = a}

Reserved(a) == SumFunction([k \in OpenOf(a) |-> reservation[k].amount])

\* Query 1: available balance and granted total, from the account's entries.
EntryTotals(row, a) ==
    [row EXCEPT !.available = Available(a), !.granted = Granted(a)]

\* Query 2: consumed and refunded totals, from the account's settlements.
SettlementTotals(row, a) ==
    [row EXCEPT !.consumed = Consumed(a), !.refunded = Refunded(a)]

\* Query 3: reserved balance, from the account's open reservations.
OpenTotals(row, a) == [row EXCEPT !.reserved = Reserved(a)]

\* aggregateExpectedBalanceSnapshot, when nothing commits between the queries.
ExpectedSnapshot(a) ==
    OpenTotals(SettlementTotals(EntryTotals(EmptySnapshot, a), a), a)

\* The snapshot that the operations update in place is the one a rebuild
\* computes from the rows they leave behind: every field of the snapshot is
\* explained by entries, settlements and open reservations.
SnapshotRebuildable == \A a \in Accounts : snapshot[a] = ExpectedSnapshot(a)
=============================================================================
