---------------------------- MODULE LedgerWorker ----------------------------
(***************************************************************************)
(* The ledger together with the rebuilds of its balance snapshots, from    *)
(* internal/billing/app.  A rebuild is one transaction, but the database   *)
(* lets each of its queries see what other transactions have committed by  *)
(* then.  It locks the outbox event it serves and the account row: a       *)
(* second rebuild of the account waits.  The operations of the ledger lock *)
(* neither row, so they commit between the queries and before the Save,    *)
(* which overwrites the whole snapshot.                                    *)
(***************************************************************************)
EXTENDS LedgerAggregate

CONSTANTS
    Idle,       \* an account that no transaction is rebuilding
    Refresh     \* a rebuild asked for by an operator or a workflow, without event

VARIABLE rebuild    \* account -> the rebuild transaction that holds its lock

workerVars == <<vars, rebuild>>

Rebuild == [job : Keys \cup {Refresh},
            stage : {"settlements", "reservations", "save"},
            row : Snapshot]

IsPending(k) == outbox[k].type # "none" /\ outbox[k].status = "pending"

-----------------------------------------------------------------------------

WorkerInit == Init /\ rebuild = [a \in Accounts |-> Idle]

LedgerStep == Next /\ UNCHANGED rebuild

\* The transaction opens and takes its locks; an event that is published by
\* then needs nothing more.  Its first query reads the entries.
BeginRebuild(a, job) ==
    /\ rebuild[a] = Idle
    /\ job # Refresh => IsPending(job) /\ outbox[job].account = a
    /\ rebuild' = [rebuild EXCEPT ![a] =
                     [job |-> job, stage |-> "settlements",
                      row |-> EntryTotals(EmptySnapshot, a)]]
    /\ UNCHANGED vars

ReadSettlements(a) ==
    /\ rebuild[a] # Idle
    /\ rebuild[a].stage = "settlements"
    /\ rebuild' = [rebuild EXCEPT ![a] =
                     [@ EXCEPT !.stage = "reservations",
                               !.row = SettlementTotals(rebuild[a].row, a)]]
    /\ UNCHANGED vars

ReadReservations(a) ==
    /\ rebuild[a] # Idle
    /\ rebuild[a].stage = "reservations"
    /\ rebuild' = [rebuild EXCEPT ![a] =
                     [@ EXCEPT !.stage = "save",
                               !.row = OpenTotals(rebuild[a].row, a)]]
    /\ UNCHANGED vars

\* Mutant of Publish: one rebuild publishes all the events of the account.
PublishAll(a, job) ==
    outbox' = [k \in Keys |-> IF outbox[k].account = a
                              THEN [outbox[k] EXCEPT !.status = "published"]
                              ELSE outbox[k]]

\* The event served by the rebuild is marked published, and no other.
Publish(a, job) ==
    outbox' = IF job = Refresh THEN outbox
              ELSE [outbox EXCEPT ![job].status = "published"]

\* The Save writes every field of the snapshot; event and snapshot commit
\* together.
SaveSnapshot(a) ==
    /\ rebuild[a] # Idle
    /\ rebuild[a].stage = "save"
    /\ snapshot' = [snapshot EXCEPT ![a] = rebuild[a].row]
    /\ Publish(a, rebuild[a].job)
    /\ rebuild' = [rebuild EXCEPT ![a] = Idle]
    /\ UNCHANGED <<reservation, settlement, entries, audit, call>>

\* The transaction fails or its process dies.  Its queries wrote nothing, so a
\* failure at any point is one at this point; the event stays pending for the
\* next batch (attempts and last_error are only reported).
FailRebuild(a) ==
    /\ rebuild[a] # Idle
    /\ rebuild[a].stage = "save"
    /\ rebuild' = [rebuild EXCEPT ![a] = Idle]
    /\ UNCHANGED vars

WorkerNext ==
    \/ LedgerStep
    \/ \E a \in Accounts :
          \/ \E job \in Keys \cup {Refresh} : BeginRebuild(a, job)
          \/ ReadSettlements(a)
          \/ ReadReservations(a)
          \/ SaveSnapshot(a)
          \/ FailRebuild(a)

SaveFor(a, k) == rebuild[a] # Idle /\ rebuild[a].job = k /\ SaveSnapshot(a)

\* Every 15 seconds a batch tries the pending events again, whatever failed
\* before and without a limit on attempts: an event that can be served again
\* and again is served, and one whose rebuild reaches the Save again and again
\* commits in the end.
WorkerFairness ==
    \A a \in Accounts :
        /\ WF_workerVars(ReadSettlements(a))
        /\ WF_workerVars(ReadReservations(a))
        /\ WF_workerVars(SaveSnapshot(a) \/ FailRebuild(a))
        /\ \A k \in Keys : /\ SF_workerVars(BeginRebuild(a, k))
                           /\ SF_workerVars(SaveFor(a, k))

WorkerSafety == WorkerInit /\ [][WorkerNext]_workerVars

WorkerSpec == WorkerSafety /\ WorkerFairness

-----------------------------------------------------------------------------
(* Properties *)

WorkerTypeOK == TypeOK /\ rebuild \in [Accounts -> Rebuild \cup {Idle}]

\* Some event of the account has not been served yet.
HasPending(a) == \E k \in Keys : IsPending(k) /\ outbox[k].account = a

\* A snapshot that a race has corrupted is never mistaken for settled: while no
\* event of the account is pending, whether a rebuild runs or not, the snapshot
\* is what the ledger rows say, however operations and rebuilds overlapped.
QuietSnapshotIsExpected ==
    \A a \in Accounts : HasPending(a) \/ snapshot[a] = ExpectedSnapshot(a)

\* Throughout the races of rebuilds and operations rows stay well typed and no
\* corrupted snapshot is left without somebody to repair it.
WorkerInv == WorkerTypeOK /\ QuietSnapshotIsExpected

\* A snapshot that disagrees with the ledger rows is repaired in the end.
SnapshotsConverge ==
    \A a \in Accounts :
        (snapshot[a] # ExpectedSnapshot(a)) ~> (snapshot[a] = ExpectedSnapshot(a))

\* A reservation is granted only out of money the account has (section 3.2 of
\* the ledger design: "available balance" is sufficient), so the entries of an
\* account never add up to a negative balance.
EntriesNeverOverdrawn ==
    \A a \in Accounts : ExpectedSnapshot(a).available >= 0
=============================================================================
