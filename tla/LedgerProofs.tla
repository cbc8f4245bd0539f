---------------------------- MODULE LedgerProofs ----------------------------
(***************************************************************************)
(* Proofs about Ledger, for every set of accounts, keys and callers and    *)
(* every bound on amounts.                                                 *)
(***************************************************************************)
EXTENDS Ledger, FiniteSetTheorems, SequenceTheorems, TLAPS

-----------------------------------------------------------------------------
(* Type correctness *)

\* The rows that stand for "nothing recorded yet" are rows of their tables.
LEMMA EmptyRowsTyped ==
    /\ EmptySnapshot \in Snapshot
    /\ NoReservation \in Reservation
    /\ NoEvent \in Event
<1>1. AnyAccount \in Accounts
  BY AccountsAssumption DEF AnyAccount
<1>2. QED
  BY <1>1, MaxAmountAssumption
     DEF EmptySnapshot, Snapshot, NoReservation, Reservation, Status, NoEvent,
         Event, EventTypes

\* The balance arithmetic maps snapshot rows to snapshot rows.
LEMMA ArithmeticTyped ==
    ASSUME NEW s \in Snapshot, NEW n \in Int
    PROVE  /\ Credited(s, n) \in Snapshot
           /\ Held(s, n) \in Snapshot
           /\ Unheld(s, n) \in Snapshot
           /\ \A m \in Int : Settled(s, n, m) \in Snapshot
BY DEF Snapshot, Moved, Credited, Held, Unheld, Settled

\* What the balance arithmetic does to the fields of a snapshot row.
LEMMA ArithmeticFields ==
    ASSUME NEW s \in Snapshot, NEW n \in Int
    PROVE  /\ Credited(s, n).available = s.available + n
           /\ Credited(s, n).reserved = s.reserved
           /\ Credited(s, n).consumed = s.consumed
           /\ Credited(s, n).granted = s.granted + n
           /\ Held(s, n).available = s.available - n
           /\ Held(s, n).reserved = s.reserved + n
           /\ Held(s, n).consumed = s.consumed
           /\ Held(s, n).granted = s.granted
           /\ Unheld(s, n).available = s.available + n
           /\ Unheld(s, n).reserved = s.reserved - n
           /\ Unheld(s, n).consumed = s.consumed
           /\ Unheld(s, n).granted = s.granted
           /\ \A m \in Int :
                 /\ Settled(s, n, m).available = s.available + (n - m)
                 /\ Settled(s, n, m).reserved = s.reserved - n
                 /\ Settled(s, n, m).consumed = s.consumed + m
                 /\ Settled(s, n, m).granted = s.granted
BY DEF Snapshot, Moved, Credited, Held, Unheld, Settled

\* Writing a typed row keeps the snapshot table typed.
LEMMA SnapshotTyped ==
    ASSUME TypeOK, NEW a \in Accounts, NEW row \in Snapshot,
           snapshot' = [snapshot EXCEPT ![a] = row]
    PROVE  snapshot' \in [Accounts -> Snapshot]
BY DEF TypeOK

\* The account and the amount of any reservation row.
LEMMA ReservationFields ==
    ASSUME TypeOK, NEW r \in Keys
    PROVE  /\ reservation[r].account \in Accounts
           /\ reservation[r].amount \in 0 .. MaxAmount
           /\ reservation[r].status # "absent" => reservation[r].amount \in 1 .. MaxAmount
<1>1. reservation[r] \in Reservation
  BY DEF TypeOK
<1>2. CASE reservation[r] = NoReservation
  BY <1>2, AccountsAssumption, MaxAmountAssumption DEF NoReservation, AnyAccount
<1>3. CASE reservation[r] \in [account : Accounts, amount : 1 .. MaxAmount, status : Status]
  BY <1>3, MaxAmountAssumption
<1>4. QED
  BY <1>1, <1>2, <1>3 DEF Reservation

\* A reservation row that exists keeps its type when its status is set.
LEMMA SetStatusTyped ==
    ASSUME TypeOK, NEW r \in Keys, NEW status \in Status,
           reservation[r].status = "open", SetStatus(r, status)
    PROVE  reservation' \in [Keys -> Reservation]
<1> DEFINE row == [reservation[r] EXCEPT !.status = status]
<1>1. reservation[r] \in [account : Accounts, amount : 1 .. MaxAmount, status : Status]
  BY DEF TypeOK, Reservation, NoReservation
<1>2. row \in Reservation
  BY <1>1 DEF Reservation
<1> HIDE DEF row
<1>3. reservation' = [reservation EXCEPT ![r] = row]
  BY DEF SetStatus, row
<1>4. QED
  BY <1>2, <1>3 DEF TypeOK

\* Posting an entry keeps the entry table typed.
LEMMA PostTyped ==
    ASSUME TypeOK, snapshot' \in [Accounts -> Snapshot],
           NEW a \in Accounts, NEW type \in EntryTypes, NEW n \in 1 .. MaxAmount,
           NEW ek \in EntryKeys, NEW ref \in Keys, Post(a, type, n, ek, ref)
    PROVE  entries' \in [Accounts -> Seq(Entry)]
<1> DEFINE e == [type |-> type, amount |-> n, after |-> snapshot'[a].available,
                 key |-> ek, ref |-> ref]
<1>1. snapshot'[a].available \in Int
  BY DEF Snapshot
<1>2. e \in Entry
  BY <1>1 DEF Entry
<1>3. entries[a] \in Seq(Entry)
  BY DEF TypeOK
<1>4. Append(entries[a], e) \in Seq(Entry)
  BY <1>2, <1>3, AppendProperties
<1>5. QED
  BY <1>4 DEF Post, TypeOK

\* Recording an event keeps the outbox typed.
LEMMA RecordTyped ==
    ASSUME TypeOK, NEW k \in Keys, NEW type \in EventTypes, NEW a \in Accounts,
           Record(k, type, a)
    PROVE  outbox' \in [Keys -> Event]
BY DEF Record, TypeOK, Event

\* Finishing an operation leaves its caller idle.
LEMMA DoneTyped ==
    ASSUME TypeOK, NEW c \in Callers, Done(c)
    PROVE  call' \in [Callers -> Calls \cup {NoCall}]
BY DEF Done, TypeOK

\* Empty tables are well typed.
LEMMA TypeInit == Init => TypeOK
<1> SUFFICES ASSUME Init PROVE TypeOK
  OBVIOUS
<1>1. [a \in Accounts |-> <<>>] \in [Accounts -> Seq(Entry)]
  OBVIOUS
<1>2. QED
  BY <1>1, EmptyRowsTyped DEF Init, TypeOK

\* Every operation keeps the tables well typed.
LEMMA TypeStep == TypeOK /\ [Next]_vars => TypeOK'
<1> SUFFICES ASSUME TypeOK, [Next]_vars PROVE TypeOK'
  OBVIOUS
<1>0. \A a \in Accounts : snapshot[a] \in Snapshot
  BY DEF TypeOK
<1>1. CASE UNCHANGED vars
  BY <1>1 DEF vars, ledger, TypeOK
<1>2. ASSUME NEW c \in Callers, NEW request \in Calls, BeginCall(c, request)
      PROVE  TypeOK'
  BY <1>2 DEF BeginCall, ledger, TypeOK
<1>3. ASSUME NEW c \in Callers, RollbackTx(c)
      PROVE  TypeOK'
  BY <1>3, DoneTyped DEF RollbackTx, ledger, TypeOK
<1>4. ASSUME NEW c \in Callers, NEW k \in Keys, NEW a \in Accounts,
             NEW n \in 1 .. MaxAmount, CreditAccountTx(c, k, a, n)
      PROVE  TypeOK'
  <2>1. snapshot' \in [Accounts -> Snapshot]
    <3>1. Credited(snapshot[a], n) \in Snapshot
      BY <1>0, ArithmeticTyped
    <3>2. QED
      BY <1>4, <3>1, SnapshotTyped DEF CreditAccountTx
  <2>2. entries' \in [Accounts -> Seq(Entry)]
    BY <1>4, <2>1, PostTyped DEF CreditAccountTx, EntryTypes, EntryKeys
  <2>3. outbox' \in [Keys -> Event]
    BY <1>4, RecordTyped DEF CreditAccountTx, EventTypes
  <2>4. QED
    BY <1>4, <2>1, <2>2, <2>3, DoneTyped DEF CreditAccountTx, TypeOK
<1>5. ASSUME NEW c \in Callers, NEW k \in Keys, NEW a \in Accounts,
             NEW n \in 1 .. MaxAmount, CreateReservationTx(c, k, a, n)
      PROVE  TypeOK'
  <2>1. snapshot' \in [Accounts -> Snapshot]
    <3>1. Held(snapshot[a], n) \in Snapshot
      BY <1>0, ArithmeticTyped
    <3>2. QED
      BY <1>5, <3>1, SnapshotTyped DEF CreateReservationTx
  <2>2. entries' \in [Accounts -> Seq(Entry)]
    BY <1>5, <2>1, PostTyped DEF CreateReservationTx, EntryTypes, EntryKeys
  <2>3. outbox' \in [Keys -> Event]
    BY <1>5, RecordTyped DEF CreateReservationTx, EventTypes
  <2>4. reservation' \in [Keys -> Reservation]
    BY <1>5, MaxAmountAssumption DEF CreateReservationTx, TypeOK, Reservation, Status
  <2>5. QED
    BY <1>5, <2>1, <2>2, <2>3, <2>4, DoneTyped DEF CreateReservationTx, TypeOK
<1>6. ASSUME NEW c \in Callers, NEW k \in Keys, NEW r \in Keys,
             ReleaseReservationTx(c, k, r)
      PROVE  TypeOK'
  <2> DEFINE a == reservation[r].account
             held == reservation[r].amount
  <2>0. a \in Accounts /\ held \in 1 .. MaxAmount /\ held \in Nat
    BY <1>6, ReservationFields, MaxAmountAssumption DEF ReleaseReservationTx, IsOpen
  <2>1. snapshot' \in [Accounts -> Snapshot]
    <3>1. Unheld(snapshot[a], held) \in Snapshot
      BY <1>0, <2>0, ArithmeticTyped
    <3>2. QED
      BY <1>6, <2>0, <3>1, SnapshotTyped DEF ReleaseReservationTx, IsOpen
  <2>2. entries' \in [Accounts -> Seq(Entry)]
    BY <1>6, <2>0, <2>1, PostTyped DEF ReleaseReservationTx, IsOpen, EntryTypes, EntryKeys
  <2>3. outbox' \in [Keys -> Event]
    BY <1>6, <2>0, RecordTyped DEF ReleaseReservationTx, IsOpen, EventTypes
  <2>4. reservation' \in [Keys -> Reservation]
    BY <1>6, SetStatusTyped DEF ReleaseReservationTx, IsOpen, Status
  <2>5. QED
    BY <1>6, <2>1, <2>2, <2>3, <2>4, DoneTyped DEF ReleaseReservationTx, IsOpen, TypeOK
<1>7. ASSUME NEW c \in Callers, NEW k \in Keys, NEW r \in Keys,
             NEW actual \in 0 .. MaxAmount, SettleReservationTx(c, k, r, actual)
      PROVE  TypeOK'
  <2> DEFINE a == reservation[r].account
             held == reservation[r].amount
  <2>0. /\ a \in Accounts /\ held \in 1 .. MaxAmount
        /\ held \in Nat /\ actual \in Nat /\ MaxAmount \in Nat
    BY <1>7, ReservationFields, MaxAmountAssumption DEF SettleReservationTx, IsOpen
  <2>1. snapshot' \in [Accounts -> Snapshot]
    <3>1. Settled(snapshot[a], held, actual) \in Snapshot
      <4>1. snapshot[a] \in Snapshot /\ held \in Int /\ actual \in Int
        BY <1>0, <2>0
      <4> HIDE DEF a, held
      <4>2. QED
        BY <4>1, ArithmeticTyped
    <3>2. QED
      BY <1>7, <2>0, <3>1, SnapshotTyped DEF SettleReservationTx, IsOpen
  <2>2. entries' \in [Accounts -> Seq(Entry)]
    <3>1. <<"entry", k>> \in EntryKeys
      BY DEF EntryKeys
    <3>2. PostSettlement(a, k, r, held, actual)
      BY <1>7 DEF SettleReservationTx, IsOpen
    <3>3. CASE actual = held
      BY <3>2, <3>3, <2>0 DEF PostSettlement, TypeOK
    <3>4. CASE actual > held
      <4>1. actual - held \in 1 .. MaxAmount
        BY <2>0, <3>4
      <4>2. Post(a, "settle_debit", actual - held, <<"entry", k>>, r)
        BY <3>2, <3>4, <2>0 DEF PostSettlement
      <4> HIDE DEF a, held
      <4>3. QED
        BY <2>0, <2>1, <3>1, <4>1, <4>2, PostTyped DEF EntryTypes
    <3>5. CASE actual < held
      <4>1. held - actual \in 1 .. MaxAmount
        BY <2>0, <3>5
      <4>2. Post(a, "settle_credit", held - actual, <<"entry", k>>, r)
        BY <3>2, <3>5, <2>0 DEF PostSettlement
      <4> HIDE DEF a, held
      <4>3. QED
        BY <2>0, <2>1, <3>1, <4>1, <4>2, PostTyped DEF EntryTypes
    <3>6. QED
      BY <2>0, <3>3, <3>4, <3>5
  <2>3. outbox' \in [Keys -> Event]
    BY <1>7, <2>0, RecordTyped DEF SettleReservationTx, IsOpen, EventTypes
  <2>4. reservation' \in [Keys -> Reservation]
    BY <1>7, SetStatusTyped DEF SettleReservationTx, IsOpen, Status
  <2>5. settlement' \in SUBSET Settlement
    <3>1. [reservation |-> r, key |-> k, actual |-> actual, delta |-> actual - held]
             \in Settlement
      BY <2>0 DEF Settlement
    <3>2. QED
      BY <1>7, <3>1 DEF SettleReservationTx, IsOpen, TypeOK
  <2>6. QED
    BY <1>7, <2>1, <2>2, <2>3, <2>4, <2>5, DoneTyped DEF SettleReservationTx, IsOpen, TypeOK
<1>8. ASSUME NEW c \in Callers, NEW k \in Keys, NEW a \in Accounts,
             RecordAdjustmentTx(c, k, a)
      PROVE  TypeOK'
  <2>1. outbox' \in [Keys -> Event]
    BY <1>8, RecordTyped DEF RecordAdjustmentTx, EventTypes
  <2>2. audit' \in SUBSET [account : Accounts, key : Keys]
    BY <1>8 DEF RecordAdjustmentTx, TypeOK
  <2>3. QED
    BY <1>8, <2>1, <2>2, DoneTyped DEF RecordAdjustmentTx, TypeOK
<1>9. QED
  BY <1>1, <1>2, <1>3, <1>4, <1>5, <1>6, <1>7, <1>8 DEF Next

\* Every reachable state has well-typed tables.
THEOREM TypeCorrect == Spec => []TypeOK
<1>1. Init => TypeOK
  BY TypeInit
<1>2. TypeOK /\ [Next]_vars => TypeOK'
  BY TypeStep
<1>3. QED
  BY <1>1, <1>2, PTL DEF Spec

-----------------------------------------------------------------------------
(* Conservation and solvency *)

\* A step that writes one row changes the balances of one account.
FundsInv == FundsConserved /\ NoOverdraft

\* A snapshot that neither loses nor overdraws what was granted.
RowSound(row) ==
    /\ row.granted = row.available + row.reserved + row.consumed
    /\ row.available >= 0
    /\ row.reserved >= 0

\* An operation that leaves a sound snapshot keeps the invariant.
LEMMA FundsByRow ==
    ASSUME TypeOK, FundsInv, NEW a \in Accounts, NEW row, RowSound(row),
           snapshot' = [snapshot EXCEPT ![a] = row]
    PROVE  FundsInv'
<1>1. \A b \in Accounts : snapshot'[b] = IF b = a THEN row ELSE snapshot[b]
  BY DEF TypeOK
<1>2. QED
  BY <1>1 DEF FundsInv, FundsConserved, NoOverdraft, RowSound

\* Every operation leaves a sound snapshot.
LEMMA FundsStep == TypeOK /\ FundsInv /\ [Next]_vars => FundsInv'
<1> SUFFICES ASSUME TypeOK, FundsInv, [Next]_vars PROVE FundsInv'
  OBVIOUS
<1>0. ASSUME NEW a \in Accounts
      PROVE  /\ snapshot[a] \in Snapshot
             /\ RowSound(snapshot[a])
             /\ snapshot[a].available \in Int /\ snapshot[a].reserved \in Int
             /\ snapshot[a].consumed \in Int /\ snapshot[a].granted \in Int
  BY DEF TypeOK, FundsInv, FundsConserved, NoOverdraft, RowSound, Snapshot
<1>1. CASE snapshot' = snapshot
  BY <1>1 DEF FundsInv, FundsConserved, NoOverdraft
<1>2. ASSUME NEW c \in Callers, NEW k \in Keys, NEW a \in Accounts,
             NEW n \in 1 .. MaxAmount, CreditAccountTx(c, k, a, n)
      PROVE  FundsInv'
  <2>1. n \in Int /\ n >= 1
    BY MaxAmountAssumption
  <2> DEFINE row == Credited(snapshot[a], n)
  <2>2. /\ row.available = snapshot[a].available + n
        /\ row.reserved = snapshot[a].reserved
        /\ row.consumed = snapshot[a].consumed
        /\ row.granted = snapshot[a].granted + n
    BY <1>0, <2>1, ArithmeticFields
  <2>3. snapshot' = [snapshot EXCEPT ![a] = row]
    BY <1>2 DEF CreditAccountTx
  <2> HIDE DEF row
  <2>4. RowSound(row)
    BY <1>0, <2>1, <2>2 DEF RowSound
  <2>5. QED
    BY <2>3, <2>4, FundsByRow
<1>3. ASSUME NEW c \in Callers, NEW k \in Keys, NEW a \in Accounts,
             NEW n \in 1 .. MaxAmount, CreateReservationTx(c, k, a, n)
      PROVE  FundsInv'
  <2>1. n \in Int /\ n >= 1 /\ snapshot[a].available >= n
    BY <1>3, MaxAmountAssumption DEF CreateReservationTx, CanHold
  <2> DEFINE row == Held(snapshot[a], n)
  <2>2. /\ row.available = snapshot[a].available - n
        /\ row.reserved = snapshot[a].reserved + n
        /\ row.consumed = snapshot[a].consumed
        /\ row.granted = snapshot[a].granted
    BY <1>0, <2>1, ArithmeticFields
  <2>3. snapshot' = [snapshot EXCEPT ![a] = row]
    BY <1>3 DEF CreateReservationTx
  <2> HIDE DEF row
  <2>4. RowSound(row)
    BY <1>0, <2>1, <2>2 DEF RowSound
  <2>5. QED
    BY <2>3, <2>4, FundsByRow
<1>4. ASSUME NEW c \in Callers, NEW k \in Keys, NEW r \in Keys,
             ReleaseReservationTx(c, k, r)
      PROVE  FundsInv'
  <2> DEFINE a == reservation[r].account
             held == reservation[r].amount
             row == Unheld(snapshot[a], held)
  <2>1. a \in Accounts /\ held \in Int /\ held >= 0 /\ snapshot[a].reserved >= held
    BY <1>4, ReservationFields, MaxAmountAssumption DEF ReleaseReservationTx, IsOpen
  <2>2. snapshot' = [snapshot EXCEPT ![a] = row]
    BY <1>4 DEF ReleaseReservationTx, IsOpen
  <2> HIDE DEF a, held
  <2>3. /\ row.available = snapshot[a].available + held
        /\ row.reserved = snapshot[a].reserved - held
        /\ row.consumed = snapshot[a].consumed
        /\ row.granted = snapshot[a].granted
    BY <1>0, <2>1, ArithmeticFields
  <2> HIDE DEF row
  <2>4. RowSound(row)
    BY <1>0, <2>1, <2>3 DEF RowSound
  <2>5. QED
    BY <2>1, <2>2, <2>4, FundsByRow
<1>5. ASSUME NEW c \in Callers, NEW k \in Keys, NEW r \in Keys,
             NEW actual \in 0 .. MaxAmount, SettleReservationTx(c, k, r, actual)
      PROVE  FundsInv'
  <2> DEFINE a == reservation[r].account
             held == reservation[r].amount
             row == Settled(snapshot[a], held, actual)
  <2>1. /\ a \in Accounts /\ held \in Int /\ held >= 0
        /\ actual \in Int /\ actual >= 0
        /\ snapshot[a].reserved >= held
        /\ actual > held => snapshot[a].available >= actual - held
    BY <1>5, ReservationFields, MaxAmountAssumption DEF SettleReservationTx, IsOpen, CanSettle
  <2>2. snapshot' = [snapshot EXCEPT ![a] = row]
    BY <1>5 DEF SettleReservationTx, IsOpen
  <2> HIDE DEF a, held
  <2>3. /\ row.available = snapshot[a].available + (held - actual)
        /\ row.reserved = snapshot[a].reserved - held
        /\ row.consumed = snapshot[a].consumed + actual
        /\ row.granted = snapshot[a].granted
    BY <1>0, <2>1, ArithmeticFields
  <2> HIDE DEF row
  <2>4. RowSound(row)
    BY <1>0, <2>1, <2>3 DEF RowSound
  <2>5. QED
    BY <2>1, <2>2, <2>4, FundsByRow
<1>6. QED
  <2>1. ASSUME NEW c \in Callers, NEW request \in Calls, BeginCall(c, request)
        PROVE  snapshot' = snapshot
    BY <2>1 DEF BeginCall, ledger
  <2>2. ASSUME NEW c \in Callers, RollbackTx(c)
        PROVE  snapshot' = snapshot
    BY <2>2 DEF RollbackTx, ledger
  <2>3. ASSUME NEW c \in Callers, NEW k \in Keys, NEW a \in Accounts,
               RecordAdjustmentTx(c, k, a)
        PROVE  snapshot' = snapshot
    BY <2>3 DEF RecordAdjustmentTx
  <2>4. CASE UNCHANGED vars
    BY <1>1, <2>4 DEF vars, ledger
  <2>5. QED
    BY <1>1, <1>2, <1>3, <1>4, <1>5, <2>1, <2>2, <2>3, <2>4 DEF Next

\* An account that was granted nothing is sound.
LEMMA FundsInit == Init => FundsInv
BY DEF Init, EmptySnapshot, FundsInv, FundsConserved, NoOverdraft

\* What was granted is available, held or consumed, after any interleaving of
\* credits, reservations, releases and settlements.
THEOREM Conservation == Spec => []FundsConserved
<1>1. TypeOK /\ FundsInv /\ [Next]_vars => FundsInv'
  BY FundsStep
<1>2. FundsInv => FundsConserved
  BY DEF FundsInv
<1>3. QED
  BY <1>1, <1>2, FundsInit, TypeCorrect, PTL DEF Spec

\* No interleaving of ledger transactions overdraws an account.
THEOREM Solvency == Spec => []NoOverdraft
<1>1. TypeOK /\ FundsInv /\ [Next]_vars => FundsInv'
  BY FundsStep
<1>2. FundsInv => NoOverdraft
  BY DEF FundsInv
<1>3. QED
  BY <1>1, <1>2, FundsInit, TypeCorrect, PTL DEF Spec

-----------------------------------------------------------------------------
(* The entries explain the balance *)

\* What posting an entry does to the entry table.
LEMMA PostEntries ==
    ASSUME TypeOK, NEW a \in Accounts, NEW type, NEW n, NEW ek, NEW ref,
           Post(a, type, n, ek, ref)
    PROVE  LET last == Len(entries[a]) + 1
           IN  /\ \A b \in Accounts : b # a => entries'[b] = entries[b]
               /\ Len(entries'[a]) = last
               /\ DOMAIN entries'[a] = 1 .. last
               /\ \A i \in 1 .. Len(entries[a]) : entries'[a][i] = entries[a][i]
               /\ entries'[a][last] =
                    [type |-> type, amount |-> n, after |-> snapshot'[a].available,
                     key |-> ek, ref |-> ref]
<1> DEFINE e == [type |-> type, amount |-> n,
                 after |-> snapshot'[a].available, key |-> ek, ref |-> ref]
<1>1. entries \in [Accounts -> Seq(Entry)]
  BY DEF TypeOK
<1>2. entries' = [entries EXCEPT ![a] = Append(entries[a], e)]
  BY DEF Post
<1> HIDE DEF e
<1>3. \A b \in Accounts : entries'[b] = IF b = a THEN Append(entries[a], e) ELSE entries[b]
  BY <1>1, <1>2
<1>4. entries[a] \in Seq(Entry) /\ entries'[a] = Append(entries[a], e)
  BY <1>1, <1>3
<1>5. /\ Len(entries'[a]) = Len(entries[a]) + 1
      /\ DOMAIN entries'[a] = 1 .. Len(entries[a]) + 1
      /\ \A i \in 1 .. Len(entries[a]) : entries'[a][i] = entries[a][i]
      /\ entries'[a][Len(entries[a]) + 1] = e
  BY <1>4
<1>6. QED
  BY <1>3, <1>5 DEF e

\* An entry posted with the balance it leads to extends the chain.
LEMMA ChainByPost ==
    ASSUME TypeOK, BalanceChain, NEW a \in Accounts, NEW row \in Snapshot,
           NEW type, NEW n \in Int, NEW ek, NEW ref,
           snapshot' = [snapshot EXCEPT ![a] = row],
           row.available = snapshot[a].available + Signed(type, n),
           Post(a, type, n, ek, ref)
    PROVE  BalanceChain'
<1> DEFINE es == entries[a]
           new == entries'[a]
           last == Len(es) + 1
<1>1. /\ \A b \in Accounts : snapshot'[b] = IF b = a THEN row ELSE snapshot[b]
      /\ es \in Seq(Entry)
      /\ snapshot[a].available \in Int
      /\ row.available \in Int
  BY DEF TypeOK, Snapshot
<1>2. /\ Len(new) = last
      /\ DOMAIN new = 1 .. last
      /\ \A i \in 1 .. Len(es) : new[i] = es[i]
      /\ \A b \in Accounts : b # a => entries'[b] = entries[b]
  BY PostEntries
<1>3. new[last] = [type |-> type, amount |-> n, after |-> snapshot'[a].available,
                   key |-> ek, ref |-> ref]
  BY PostEntries
<1>4. /\ new[last].type = type
      /\ new[last].amount = n
      /\ new[last].after = row.available
  BY <1>1, <1>3
<1>5. Chained(es, snapshot[a].available)
  BY DEF BalanceChain
<1>6. Len(es) \in Nat /\ DOMAIN es = 1 .. Len(es) /\ (es = <<>> <=> Len(es) = 0)
  BY <1>1
<1>7. Chained(new, row.available)
  <2> HIDE DEF es, new
  <2>1. ASSUME NEW i \in 1 .. Len(es)
        PROVE  new[i].after = Signed(new[i].type, new[i].amount)
                                + IF i = 1 THEN 0 ELSE new[i - 1].after
    <3>1. es[i].after = Signed(es[i].type, es[i].amount)
                          + IF i = 1 THEN 0 ELSE es[i - 1].after
      BY <1>5, <1>6 DEF Chained
    <3>2. i # 1 => i - 1 \in 1 .. Len(es)
      BY <1>6
    <3>3. QED
      BY <1>2, <3>1, <3>2
  <2>2. snapshot[a].available = IF last = 1 THEN 0 ELSE new[last - 1].after
    <3>1. CASE Len(es) = 0
      BY <1>5, <1>6, <3>1 DEF Chained
    <3>2. CASE Len(es) # 0
      <4>1. last - 1 = Len(es) /\ Len(es) \in 1 .. Len(es) /\ last # 1
        BY <1>6, <3>2
      <4>2. snapshot[a].available = es[Len(es)].after
        BY <1>5, <1>6, <3>2 DEF Chained
      <4>3. QED
        BY <1>2, <4>1, <4>2
    <3>3. QED
      BY <3>1, <3>2
  <2>3. new[last].after = Signed(new[last].type, new[last].amount)
                            + IF last = 1 THEN 0 ELSE new[last - 1].after
    <3>1. Signed(type, n) \in Int
      BY DEF Signed
    <3>2. QED
      BY <1>1, <1>4, <2>2, <3>1
  <2>4. new # <<>> /\ last \in Nat
    BY <1>2, <1>6
  <2>5. ASSUME NEW i \in 1 .. last
        PROVE  i \in 1 .. Len(es) \/ i = last
    BY <1>6
  <2>6. \A i \in 1 .. last :
           new[i].after = Signed(new[i].type, new[i].amount)
                            + IF i = 1 THEN 0 ELSE new[i - 1].after
    BY <2>1, <2>3, <2>5
  <2>7. QED
    BY <1>2, <1>4, <2>4, <2>6 DEF Chained
<1>8. QED
  BY <1>1, <1>2, <1>7 DEF BalanceChain

\* Every operation posts the entry that its balance needs.
LEMMA ChainStep == TypeOK /\ BalanceChain /\ [Next]_vars => BalanceChain'
<1> SUFFICES ASSUME TypeOK, BalanceChain, [Next]_vars PROVE BalanceChain'
  OBVIOUS
<1>0. ASSUME NEW a \in Accounts
      PROVE  snapshot[a] \in Snapshot
  BY DEF TypeOK
<1>1. CASE snapshot' = snapshot /\ entries' = entries
  BY <1>1 DEF BalanceChain
<1>2. ASSUME NEW c \in Callers, NEW k \in Keys, NEW a \in Accounts,
             NEW n \in 1 .. MaxAmount, CreditAccountTx(c, k, a, n)
      PROVE  BalanceChain'
  <2> DEFINE row == Credited(snapshot[a], n)
  <2>0. n \in Int /\ snapshot[a].available \in Int
    BY <1>0, MaxAmountAssumption DEF Snapshot
  <2>1. row \in Snapshot
    BY <1>0, <2>0, ArithmeticTyped
  <2>4. row.available = snapshot[a].available + Signed("grant_credit", n)
    BY <1>0, <2>0, ArithmeticFields DEF Signed
  <2>2. /\ snapshot' = [snapshot EXCEPT ![a] = row]
        /\ Post(a, "grant_credit", n, <<"raw", k>>, k)
    BY <1>2 DEF CreditAccountTx
  <2> HIDE DEF row
  <2>3. QED
    BY <2>0, <2>1, <2>2, <2>4, ChainByPost
<1>3. ASSUME NEW c \in Callers, NEW k \in Keys, NEW a \in Accounts,
             NEW n \in 1 .. MaxAmount, CreateReservationTx(c, k, a, n)
      PROVE  BalanceChain'
  <2> DEFINE row == Held(snapshot[a], n)
  <2>0. n \in Int /\ snapshot[a].available \in Int
    BY <1>0, MaxAmountAssumption DEF Snapshot
  <2>1. row \in Snapshot
    BY <1>0, <2>0, ArithmeticTyped
  <2>4. row.available = snapshot[a].available + Signed("reserve_hold", n)
    BY <1>0, <2>0, ArithmeticFields DEF Signed
  <2>2. /\ snapshot' = [snapshot EXCEPT ![a] = row]
        /\ Post(a, "reserve_hold", n, <<"entry", k>>, k)
    BY <1>3 DEF CreateReservationTx
  <2> HIDE DEF row
  <2>3. QED
    BY <2>0, <2>1, <2>2, <2>4, ChainByPost
<1>4. ASSUME NEW c \in Callers, NEW k \in Keys, NEW r \in Keys,
             ReleaseReservationTx(c, k, r)
      PROVE  BalanceChain'
  <2> DEFINE a == reservation[r].account
             held == reservation[r].amount
             row == Unheld(snapshot[a], held)
  <2>1. a \in Accounts /\ held \in Int
    BY ReservationFields, MaxAmountAssumption
  <2>2. /\ snapshot' = [snapshot EXCEPT ![a] = row]
        /\ Post(a, "reserve_release", held, <<"raw", k>>, r)
    BY <1>4 DEF ReleaseReservationTx, IsOpen
  <2> HIDE DEF a, held
  <2>3. /\ row \in Snapshot
        /\ row.available = snapshot[a].available + Signed("reserve_release", held)
    BY <1>0, <2>1, ArithmeticTyped, ArithmeticFields DEF Signed
  <2> HIDE DEF row
  <2>4. QED
    BY <2>1, <2>2, <2>3, ChainByPost
<1>5. ASSUME NEW c \in Callers, NEW k \in Keys, NEW r \in Keys,
             NEW actual \in 0 .. MaxAmount, SettleReservationTx(c, k, r, actual)
      PROVE  BalanceChain'
  <2> DEFINE a == reservation[r].account
             held == reservation[r].amount
             row == Settled(snapshot[a], held, actual)
  <2>1. a \in Accounts /\ held \in Int /\ actual \in Int
    BY ReservationFields, MaxAmountAssumption
  <2>2. /\ snapshot' = [snapshot EXCEPT ![a] = row]
        /\ PostSettlement(a, k, r, held, actual)
    BY <1>5 DEF SettleReservationTx, IsOpen
  <2> HIDE DEF a, held
  <2>3. /\ row \in Snapshot
        /\ snapshot[a].available \in Int
    BY <1>0, <2>1, ArithmeticTyped DEF Snapshot
  <2>8. row.available = snapshot[a].available + (held - actual)
    BY <1>0, <2>1, ArithmeticFields
  <2> HIDE DEF row
  <2>4. CASE actual = held /\ entries' = entries
    <3>1. \A b \in Accounts : snapshot'[b].available = snapshot[b].available
      BY <2>1, <2>2, <2>3, <2>4, <2>8 DEF TypeOK
    <3>2. QED
      BY <2>4, <3>1 DEF BalanceChain
  <2>5. CASE Post(a, "settle_debit", actual - held, <<"entry", k>>, r)
    <3>1. row.available = snapshot[a].available + Signed("settle_debit", actual - held)
      BY <2>1, <2>3, <2>8 DEF Signed
    <3>2. actual - held \in Int
      BY <2>1
    <3>3. QED
      BY <2>1, <2>2, <2>3, <2>5, <3>1, <3>2, ChainByPost
  <2>6. CASE Post(a, "settle_credit", held - actual, <<"entry", k>>, r)
    <3>1. row.available = snapshot[a].available + Signed("settle_credit", held - actual)
      BY <2>1, <2>3, <2>8 DEF Signed
    <3>2. held - actual \in Int
      BY <2>1
    <3>3. QED
      BY <2>1, <2>2, <2>3, <2>6, <3>1, <3>2, ChainByPost
  <2>7. QED
    BY <2>2, <2>4, <2>5, <2>6 DEF PostSettlement
<1>6. QED
  <2>1. ASSUME NEW c \in Callers, NEW request \in Calls, BeginCall(c, request)
        PROVE  snapshot' = snapshot /\ entries' = entries
    BY <2>1 DEF BeginCall, ledger
  <2>2. ASSUME NEW c \in Callers, RollbackTx(c)
        PROVE  snapshot' = snapshot /\ entries' = entries
    BY <2>2 DEF RollbackTx, ledger
  <2>3. ASSUME NEW c \in Callers, NEW k \in Keys, NEW a \in Accounts,
               RecordAdjustmentTx(c, k, a)
        PROVE  snapshot' = snapshot /\ entries' = entries
    BY <2>3 DEF RecordAdjustmentTx
  <2>4. CASE UNCHANGED vars
    BY <1>1, <2>4 DEF vars, ledger
  <2>5. QED
    BY <1>1, <1>2, <1>3, <1>4, <1>5, <2>1, <2>2, <2>3, <2>4 DEF Next

\* The entries of an account always explain its available balance.
THEOREM EntriesExplainBalance == Spec => []BalanceChain
<1>1. Init => BalanceChain
  BY DEF Init, EmptySnapshot, BalanceChain, Chained
<1>2. TypeOK /\ BalanceChain /\ [Next]_vars => BalanceChain'
  BY ChainStep
<1>3. QED
  BY <1>1, <1>2, TypeCorrect, PTL DEF Spec

-----------------------------------------------------------------------------
(* One effect per key, one closing per reservation *)

\* Posting an entry adds that entry to the table and nothing else.
LEMMA PostAddsEntry ==
    ASSUME TypeOK, NEW a \in Accounts, NEW type, NEW n, NEW ek, NEW ref,
           Post(a, type, n, ek, ref)
    PROVE  /\ \A key, t : HasEntry(key, t)' <=> HasEntry(key, t) \/ (key = ek /\ t = type)
           /\ \A r : HasReleaseEntry(r)' <=>
                       HasReleaseEntry(r) \/ (type = "reserve_release" /\ r = ref)
<1> DEFINE last == Len(entries[a]) + 1
<1>1. /\ \A b \in Accounts : b # a => entries'[b] = entries[b]
      /\ DOMAIN entries'[a] = 1 .. last
      /\ \A i \in 1 .. Len(entries[a]) : entries'[a][i] = entries[a][i]
      /\ entries'[a][last] =
           [type |-> type, amount |-> n, after |-> snapshot'[a].available,
            key |-> ek, ref |-> ref]
  BY PostEntries
<1>e. /\ entries'[a][last].type = type
      /\ entries'[a][last].key = ek
      /\ entries'[a][last].ref = ref
  BY <1>1
<1>2. /\ Len(entries[a]) \in Nat
      /\ DOMAIN entries[a] = 1 .. Len(entries[a])
  BY DEF TypeOK
<1>3. /\ last \in 1 .. last
      /\ \A i \in 1 .. last : i \in 1 .. Len(entries[a]) \/ i = last
      /\ \A i \in 1 .. Len(entries[a]) : i \in 1 .. last
  BY <1>2
<1> HIDE DEF last
<1>4. ASSUME NEW key, NEW t
      PROVE  HasEntry(key, t)' <=> HasEntry(key, t) \/ (key = ek /\ t = type)
  BY <1>1, <1>e, <1>2, <1>3 DEF HasEntry
<1>5. ASSUME NEW r
      PROVE  HasReleaseEntry(r)' <=>
               HasReleaseEntry(r) \/ (type = "reserve_release" /\ r = ref)
  BY <1>1, <1>e, <1>2, <1>3 DEF HasReleaseEntry
<1>6. QED
  BY <1>4, <1>5

\* The entry of a settlement is stored under a prefixed key and is no release.
LEMMA SettlementEntries ==
    ASSUME TypeOK, NEW a \in Accounts, NEW k \in Keys, NEW r \in Keys,
           NEW held \in 0 .. MaxAmount, NEW actual \in 0 .. MaxAmount,
           PostSettlement(a, k, r, held, actual)
    PROVE  /\ \A x, t : HasEntry(<<"raw", x>>, t)' <=> HasEntry(<<"raw", x>>, t)
           /\ \A x : HasReleaseEntry(x)' <=> HasReleaseEntry(x)
<1>1. CASE UNCHANGED entries
  BY <1>1 DEF HasEntry, HasReleaseEntry
<1>2. ASSUME NEW type \in {"settle_debit", "settle_credit"}, NEW n,
             Post(a, type, n, <<"entry", k>>, r)
      PROVE  /\ \A x, t : HasEntry(<<"raw", x>>, t)' <=> HasEntry(<<"raw", x>>, t)
             /\ \A x : HasReleaseEntry(x)' <=> HasReleaseEntry(x)
  BY <1>2, PostAddsEntry
<1>3. QED
  BY <1>1, <1>2 DEF PostSettlement

\* Closing an open reservation changes its status and no other row.
LEMMA StatusKept ==
    ASSUME TypeOK, NEW r \in Keys, NEW status \in Status, reservation[r].status = "open",
           SetStatus(r, status)
    PROVE  /\ \A x \in Keys : ReservationExists(x)' <=> ReservationExists(x)
           /\ \A x \in Keys : reservation'[x].status =
                 IF x = r THEN status ELSE reservation[x].status
<1>1. reservation[r] \in [account : Accounts, amount : 1 .. MaxAmount, status : Status]
  BY DEF TypeOK, Reservation, NoReservation
<1>2. /\ \A x \in Keys : x # r => reservation'[x] = reservation[x]
      /\ reservation'[r] = [reservation[r] EXCEPT !.status = status]
  BY DEF SetStatus, TypeOK
<1>3. reservation'[r].status = status /\ status # "absent"
  BY <1>1, <1>2 DEF Status
<1>4. ASSUME NEW x \in Keys
      PROVE  /\ ReservationExists(x)' <=> ReservationExists(x)
             /\ reservation'[x].status = IF x = r THEN status ELSE reservation[x].status
  <2>1. CASE x = r
    BY <1>3, <2>1 DEF ReservationExists
  <2>2. CASE x # r
    BY <1>2, <2>2 DEF ReservationExists
  <2>3. QED
    BY <2>1, <2>2
<1>5. QED
  BY <1>4

\* OneEffectPerKey, one conjunct per kind of effect.
EffectsOf(k) ==
    /\ outbox[k].type = "reservation_created" <=> ReservationExists(k)
    /\ outbox[k].type = "reservation_settled" <=> SettlementExists(k)
    /\ outbox[k].type = "adjustment_recorded" <=> \E row \in audit : row.key = k
    /\ outbox[k].type = "credit_granted" <=> HasEntry(<<"raw", k>>, "grant_credit")
    /\ outbox[k].type = "reservation_released" <=> HasEntry(<<"raw", k>>, "reserve_release")

\* The rows of every key are those its outbox event announces.
EffectInv == \A k \in Keys : EffectsOf(k)

\* Every operation leaves rows under its own key only.
LEMMA EffectsStep == TypeOK /\ EffectInv /\ [Next]_vars => EffectInv'
<1> SUFFICES ASSUME TypeOK, \A k \in Keys : EffectsOf(k), [Next]_vars
             PROVE  \A x \in Keys : EffectsOf(x)'
  BY DEF EffectInv
<1>0. ASSUME NEW k \in Keys, NEW type \in EventTypes, NEW a \in Accounts, Record(k, type, a)
      PROVE  /\ outbox[k].type = "none"
             /\ \A x \in Keys : outbox'[x].type = IF x = k THEN type ELSE outbox[x].type
  BY <1>0 DEF Record, OutboxFree, TypeOK
<1>1. CASE UNCHANGED ledger
  BY <1>1 DEF ledger, EffectsOf, ReservationExists, SettlementExists, HasEntry
<1>2. ASSUME NEW c \in Callers, NEW k \in Keys, NEW a \in Accounts,
             NEW n \in 1 .. MaxAmount, CreditAccountTx(c, k, a, n), NEW x \in Keys
      PROVE  EffectsOf(x)'
  <2>1. /\ outbox[k].type = "none"
        /\ outbox'[x].type = IF x = k THEN "credit_granted" ELSE outbox[x].type
    BY <1>0, <1>2 DEF CreditAccountTx, EventTypes
  <2>2. /\ \A t : HasEntry(<<"raw", x>>, t)' <=>
                    HasEntry(<<"raw", x>>, t) \/ (x = k /\ t = "grant_credit")
    BY <1>2, PostAddsEntry DEF CreditAccountTx
  <2>3. UNCHANGED <<reservation, settlement, audit>>
    BY <1>2 DEF CreditAccountTx
  <2>4. EffectsOf(x) /\ EffectsOf(k)
    OBVIOUS
  <2>5. QED
    BY <2>1, <2>2, <2>3, <2>4 DEF EffectsOf, ReservationExists, SettlementExists
<1>3. ASSUME NEW c \in Callers, NEW k \in Keys, NEW a \in Accounts,
             NEW n \in 1 .. MaxAmount, CreateReservationTx(c, k, a, n), NEW x \in Keys
      PROVE  EffectsOf(x)'
  <2>1. /\ outbox[k].type = "none"
        /\ outbox'[x].type = IF x = k THEN "reservation_created" ELSE outbox[x].type
    BY <1>0, <1>3 DEF CreateReservationTx, EventTypes
  <2>2. \A t : HasEntry(<<"raw", x>>, t)' <=> HasEntry(<<"raw", x>>, t)
    BY <1>3, PostAddsEntry DEF CreateReservationTx
  <2>3. UNCHANGED <<settlement, audit>>
    BY <1>3 DEF CreateReservationTx
  <2>4. ReservationExists(x)' <=> ReservationExists(x) \/ x = k
    BY <1>3 DEF CreateReservationTx, TypeOK, ReservationExists
  <2>5. EffectsOf(x) /\ EffectsOf(k)
    OBVIOUS
  <2>6. QED
    BY <2>1, <2>2, <2>3, <2>4, <2>5 DEF EffectsOf, SettlementExists
<1>4. ASSUME NEW c \in Callers, NEW k \in Keys, NEW r \in Keys,
             ReleaseReservationTx(c, k, r), NEW x \in Keys
      PROVE  EffectsOf(x)'
  <2>0. reservation[r].account \in Accounts
    BY ReservationFields
  <2>1. /\ outbox[k].type = "none"
        /\ outbox'[x].type = IF x = k THEN "reservation_released" ELSE outbox[x].type
    BY <1>0, <1>4, <2>0 DEF ReleaseReservationTx, EventTypes
  <2>2. \A t : HasEntry(<<"raw", x>>, t)' <=>
                 HasEntry(<<"raw", x>>, t) \/ (x = k /\ t = "reserve_release")
    BY <1>4, <2>0, PostAddsEntry DEF ReleaseReservationTx
  <2>3. UNCHANGED <<settlement, audit>>
    BY <1>4 DEF ReleaseReservationTx
  <2>4. ReservationExists(x)' <=> ReservationExists(x)
    BY <1>4, StatusKept DEF ReleaseReservationTx, IsOpen, Status
  <2>5. EffectsOf(x) /\ EffectsOf(k)
    OBVIOUS
  <2>6. QED
    BY <2>1, <2>2, <2>3, <2>4, <2>5 DEF EffectsOf, SettlementExists
<1>5. ASSUME NEW c \in Callers, NEW k \in Keys, NEW r \in Keys,
             NEW actual \in 0 .. MaxAmount, SettleReservationTx(c, k, r, actual),
             NEW x \in Keys
      PROVE  EffectsOf(x)'
  <2>0. reservation[r].account \in Accounts
    BY ReservationFields
  <2>1. /\ outbox[k].type = "none"
        /\ outbox'[x].type = IF x = k THEN "reservation_settled" ELSE outbox[x].type
    BY <1>0, <1>5, <2>0 DEF SettleReservationTx, EventTypes
  <2>2. \A t : HasEntry(<<"raw", x>>, t)' <=> HasEntry(<<"raw", x>>, t)
    <3>1. /\ PostSettlement(reservation[r].account, k, r, reservation[r].amount, actual)
          /\ reservation[r].amount \in 0 .. MaxAmount
      BY <1>5, ReservationFields DEF SettleReservationTx
    <3>2. QED
      BY <2>0, <3>1, SettlementEntries
  <2>3. UNCHANGED audit
    BY <1>5 DEF SettleReservationTx
  <2>4. ReservationExists(x)' <=> ReservationExists(x)
    BY <1>5, StatusKept DEF SettleReservationTx, IsOpen, Status
  <2>5. SettlementExists(x)' <=> SettlementExists(x) \/ x = k
    <3> DEFINE row == [reservation |-> r, key |-> k, actual |-> actual,
                       delta |-> actual - reservation[r].amount]
    <3>1. settlement' = settlement \cup {row} /\ row.key = k
      BY <1>5 DEF SettleReservationTx
    <3> HIDE DEF row
    <3>2. QED
      BY <3>1 DEF SettlementExists
  <2>6. EffectsOf(x) /\ EffectsOf(k)
    OBVIOUS
  <2>7. QED
    BY <2>1, <2>2, <2>3, <2>4, <2>5, <2>6 DEF EffectsOf
<1>6. ASSUME NEW c \in Callers, NEW k \in Keys, NEW a \in Accounts,
             RecordAdjustmentTx(c, k, a), NEW x \in Keys
      PROVE  EffectsOf(x)'
  <2>1. /\ outbox[k].type = "none"
        /\ outbox'[x].type = IF x = k THEN "adjustment_recorded" ELSE outbox[x].type
    BY <1>0, <1>6 DEF RecordAdjustmentTx, EventTypes
  <2>2. UNCHANGED <<reservation, settlement, entries>>
    BY <1>6 DEF RecordAdjustmentTx
  <2>3. (\E row \in audit' : row.key = x) <=> (\E row \in audit : row.key = x) \/ x = k
    <3> DEFINE new == [account |-> a, key |-> k]
    <3>1. audit' = audit \cup {new} /\ new.key = k
      BY <1>6 DEF RecordAdjustmentTx
    <3> HIDE DEF new
    <3>2. QED
      BY <3>1
  <2>4. EffectsOf(x) /\ EffectsOf(k)
    OBVIOUS
  <2>5. QED
    BY <2>1, <2>2, <2>3, <2>4 DEF EffectsOf, ReservationExists, SettlementExists, HasEntry
<1>7. QED
  <2>1. ASSUME NEW c \in Callers, NEW request \in Calls, BeginCall(c, request)
        PROVE  UNCHANGED ledger
    BY <2>1 DEF BeginCall
  <2>2. ASSUME NEW c \in Callers, RollbackTx(c)
        PROVE  UNCHANGED ledger
    BY <2>2 DEF RollbackTx
  <2>3. CASE UNCHANGED vars
    BY <1>1, <2>3 DEF vars
  <2>4. QED
    BY <1>1, <1>2, <1>3, <1>4, <1>5, <1>6, <2>1, <2>2, <2>3 DEF Next

\* A key has one effect at most, across tables that do not share an index.
THEOREM KeysAreIdempotent == Spec => []OneEffectPerKey
<1>1. Init => EffectInv
  <2> SUFFICES ASSUME Init, NEW k \in Keys PROVE EffectsOf(k)
    BY DEF EffectInv
  <2>1. outbox[k].type = "none" /\ ~ReservationExists(k)
    BY DEF Init, NoEvent, NoReservation, ReservationExists
  <2>2. ~SettlementExists(k) /\ ~(\E row \in audit : row.key = k)
    BY DEF Init, SettlementExists
  <2>3. \A type : ~HasEntry(<<"raw", k>>, type)
    BY DEF Init, HasEntry
  <2>4. QED
    BY <2>1, <2>2, <2>3 DEF EffectsOf
<1>2. TypeOK /\ EffectInv /\ [Next]_vars => EffectInv'
  BY EffectsStep
<1>3. EffectInv => OneEffectPerKey
  BY DEF EffectInv, OneEffectPerKey, EffectsOf, EventTypes, HasEffect
<1>4. QED
  BY <1>1, <1>2, <1>3, TypeCorrect, PTL DEF Spec

\* ClosedOnce, for one reservation.
ClosedAs(r) ==
    /\ reservation[r].status = "settled" <=> \E s \in settlement : s.reservation = r
    /\ reservation[r].status = "released" <=> HasReleaseEntry(r)
    /\ \A s, t \in settlement : s.reservation = r /\ t.reservation = r => s = t

\* Every reservation is closed as its status says.
ClosedInv == \A r \in Keys : ClosedAs(r)

\* A settlement or a release finds the reservation open, and closes it.
LEMMA ClosedStep == TypeOK /\ ClosedInv /\ [Next]_vars => ClosedInv'
<1> SUFFICES ASSUME TypeOK, \A r \in Keys : ClosedAs(r), [Next]_vars
             PROVE  \A x \in Keys : ClosedAs(x)'
  BY DEF ClosedInv
<1>1. CASE UNCHANGED ledger
  BY <1>1 DEF ledger, ClosedAs, HasReleaseEntry
<1>2. ASSUME NEW c \in Callers, NEW k \in Keys, NEW a \in Accounts,
             NEW n \in 1 .. MaxAmount, CreditAccountTx(c, k, a, n), NEW x \in Keys
      PROVE  ClosedAs(x)'
  <2>1. HasReleaseEntry(x)' <=> HasReleaseEntry(x)
    BY <1>2, PostAddsEntry DEF CreditAccountTx
  <2>2. UNCHANGED <<reservation, settlement>>
    BY <1>2 DEF CreditAccountTx
  <2>3. QED
    BY <2>1, <2>2 DEF ClosedAs
<1>3. ASSUME NEW c \in Callers, NEW k \in Keys, NEW a \in Accounts,
             NEW n \in 1 .. MaxAmount, CreateReservationTx(c, k, a, n), NEW x \in Keys
      PROVE  ClosedAs(x)'
  <2>1. HasReleaseEntry(x)' <=> HasReleaseEntry(x)
    BY <1>3, PostAddsEntry DEF CreateReservationTx
  <2>2. settlement' = settlement
    BY <1>3 DEF CreateReservationTx
  <2>3. /\ reservation[k].status = "absent"
        /\ reservation'[x].status = IF x = k THEN "open" ELSE reservation[x].status
    BY <1>3 DEF CreateReservationTx, ReservationExists, TypeOK
  <2>4. QED
    BY <2>1, <2>2, <2>3 DEF ClosedAs
<1>4. ASSUME NEW c \in Callers, NEW k \in Keys, NEW r \in Keys,
             ReleaseReservationTx(c, k, r), NEW x \in Keys
      PROVE  ClosedAs(x)'
  <2>0. reservation[r].account \in Accounts
    BY ReservationFields
  <2>1. HasReleaseEntry(x)' <=> HasReleaseEntry(x) \/ x = r
    BY <1>4, <2>0, PostAddsEntry DEF ReleaseReservationTx
  <2>2. settlement' = settlement
    BY <1>4 DEF ReleaseReservationTx
  <2>3. /\ reservation[r].status = "open"
        /\ reservation'[x].status = IF x = r THEN "released" ELSE reservation[x].status
    BY <1>4, StatusKept DEF ReleaseReservationTx, IsOpen, Status
  <2>4. QED
    BY <2>1, <2>2, <2>3 DEF ClosedAs
<1>5. ASSUME NEW c \in Callers, NEW k \in Keys, NEW r \in Keys,
             NEW actual \in 0 .. MaxAmount, SettleReservationTx(c, k, r, actual),
             NEW x \in Keys
      PROVE  ClosedAs(x)'
  <2>0. /\ reservation[r].account \in Accounts
        /\ reservation[r].amount \in 0 .. MaxAmount
    BY ReservationFields
  <2>1. HasReleaseEntry(x)' <=> HasReleaseEntry(x)
    BY <1>5, <2>0, SettlementEntries DEF SettleReservationTx
  <2>2. /\ reservation[r].status = "open"
        /\ reservation'[x].status = IF x = r THEN "settled" ELSE reservation[x].status
    BY <1>5, StatusKept DEF SettleReservationTx, IsOpen, Status
  <2> DEFINE row == [reservation |-> r, key |-> k, actual |-> actual,
                     delta |-> actual - reservation[r].amount]
  <2>3. settlement' = settlement \cup {row} /\ row.reservation = r
    BY <1>5 DEF SettleReservationTx
  <2> HIDE DEF row
  <2>4. \A s \in settlement : s.reservation # r
    BY <1>5 DEF SettleReservationTx
  <2>5. ClosedAs(x)
    OBVIOUS
  <2>6. (\E s \in settlement' : s.reservation = x)
          <=> x = r \/ \E s \in settlement : s.reservation = x
    BY <2>3
  <2>7. \A s, t \in settlement' : s.reservation = x /\ t.reservation = x => s = t
    BY <2>3, <2>4, <2>5 DEF ClosedAs
  <2>8. QED
    BY <2>1, <2>2, <2>5, <2>6, <2>7 DEF ClosedAs
<1>6. ASSUME NEW c \in Callers, NEW k \in Keys, NEW a \in Accounts,
             RecordAdjustmentTx(c, k, a), NEW x \in Keys
      PROVE  ClosedAs(x)'
  BY <1>6 DEF RecordAdjustmentTx, ClosedAs, HasReleaseEntry
<1>7. QED
  <2>1. ASSUME NEW c \in Callers, NEW request \in Calls, BeginCall(c, request)
        PROVE  UNCHANGED ledger
    BY <2>1 DEF BeginCall
  <2>2. ASSUME NEW c \in Callers, RollbackTx(c)
        PROVE  UNCHANGED ledger
    BY <2>2 DEF RollbackTx
  <2>3. CASE UNCHANGED vars
    BY <1>1, <2>3 DEF vars
  <2>4. QED
    BY <1>1, <1>2, <1>3, <1>4, <1>5, <1>6, <2>1, <2>2, <2>3 DEF Next

\* A reservation is closed by one settlement or one release, never by both.
THEOREM ReservationsCloseOnce == Spec => []ClosedOnce
<1>1. Init => ClosedInv
  <2> SUFFICES ASSUME Init, NEW r \in Keys PROVE ClosedAs(r)
    BY DEF ClosedInv
  <2>1. reservation[r].status = "absent" /\ settlement = {} /\ ~HasReleaseEntry(r)
    BY DEF Init, NoReservation, HasReleaseEntry
  <2>2. QED
    BY <2>1 DEF ClosedAs
<1>2. TypeOK /\ ClosedInv /\ [Next]_vars => ClosedInv'
  BY ClosedStep
<1>3. TypeOK /\ ClosedInv => ClosedOnce
  <2> SUFFICES ASSUME TypeOK, ClosedInv PROVE ClosedOnce
    OBVIOUS
  <2>1. \A s \in settlement : s.reservation \in Keys
    BY DEF TypeOK, Settlement
  <2>2. \A s, t \in settlement : s.reservation = t.reservation => s = t
    BY <2>1 DEF ClosedInv, ClosedAs
  <2>3. QED
    BY <2>2 DEF ClosedInv, ClosedAs, ClosedOnce
<1>4. QED
  BY <1>1, <1>2, <1>3, TypeCorrect, PTL DEF Spec

-----------------------------------------------------------------------------
(* What a step may never do *)

\* A step opens, closes or keeps a reservation.
LEMMA LifecycleStep ==
    TypeOK /\ [Next]_vars => \A x \in Keys : ReservationStep(reservation[x], reservation'[x])
<1> SUFFICES ASSUME TypeOK, [Next]_vars, NEW x \in Keys
             PROVE  ReservationStep(reservation[x], reservation'[x])
  OBVIOUS
<1>1. CASE UNCHANGED reservation
  BY <1>1 DEF ReservationStep
<1>2. ASSUME NEW k \in Keys, NEW a, NEW n, ~ReservationExists(k),
             reservation' = [reservation EXCEPT ![k] =
                               [account |-> a, amount |-> n, status |-> "open"]]
      PROVE  ReservationStep(reservation[x], reservation'[x])
  BY <1>2 DEF ReservationStep, ReservationExists, TypeOK
<1>3. ASSUME NEW r \in Keys, NEW status \in {"settled", "released"}, IsOpen(r),
             SetStatus(r, status)
      PROVE  ReservationStep(reservation[x], reservation'[x])
  BY <1>3 DEF ReservationStep, IsOpen, SetStatus, TypeOK
<1>4. ASSUME NEW c \in Callers, NEW k \in Keys, NEW a \in Accounts,
             NEW n \in 1 .. MaxAmount, CreateReservationTx(c, k, a, n)
      PROVE  ReservationStep(reservation[x], reservation'[x])
  BY <1>2, <1>4 DEF CreateReservationTx
<1>5. ASSUME NEW c \in Callers, NEW k \in Keys, NEW r \in Keys,
             ReleaseReservationTx(c, k, r)
      PROVE  ReservationStep(reservation[x], reservation'[x])
  BY <1>3, <1>5 DEF ReleaseReservationTx
<1>6. ASSUME NEW c \in Callers, NEW k \in Keys, NEW r \in Keys,
             NEW actual \in 0 .. MaxAmount, SettleReservationTx(c, k, r, actual)
      PROVE  ReservationStep(reservation[x], reservation'[x])
  BY <1>3, <1>6 DEF SettleReservationTx
<1>7. QED
  BY <1>1, <1>4, <1>5, <1>6
     DEF Next, vars, ledger, BeginCall, RollbackTx, CreditAccountTx, RecordAdjustmentTx

\* A reservation is opened once and never reopened or closed again.
THEOREM LifecycleRespected == Spec => ReservationLifecycle
<1>1. TypeOK /\ [Next]_vars =>
        [\A k \in Keys : ReservationStep(reservation[k], reservation'[k])]_vars
  BY LifecycleStep
<1>2. QED
  BY <1>1, TypeCorrect, PTL DEF Spec, ReservationLifecycle

\* A step keeps every entry where it is.
EntriesKept ==
    \A a \in Accounts :
        /\ Len(entries'[a]) >= Len(entries[a])
        /\ \A i \in DOMAIN entries[a] : entries'[a][i] = entries[a][i]

\* No operation changes an entry.
LEMMA AppendStep == TypeOK /\ [Next]_vars => EntriesKept
<1> SUFFICES ASSUME TypeOK, [Next]_vars PROVE EntriesKept
  OBVIOUS
<1>0. \A b \in Accounts : Len(entries[b]) \in Nat /\ DOMAIN entries[b] = 1 .. Len(entries[b])
  BY DEF TypeOK
<1>1. CASE UNCHANGED entries
  BY <1>0, <1>1 DEF EntriesKept
<1>2. ASSUME NEW a \in Accounts, NEW type, NEW n, NEW ek, NEW ref, Post(a, type, n, ek, ref)
      PROVE  EntriesKept
  <2>1. /\ \A b \in Accounts : b # a => entries'[b] = entries[b]
        /\ Len(entries'[a]) = Len(entries[a]) + 1
        /\ \A i \in 1 .. Len(entries[a]) : entries'[a][i] = entries[a][i]
    BY <1>2, PostEntries
  <2>2. QED
    BY <1>0, <2>1 DEF EntriesKept
<1>3. ASSUME NEW a \in Accounts, NEW k, NEW r, NEW held, NEW actual,
             PostSettlement(a, k, r, held, actual)
      PROVE  EntriesKept
  BY <1>1, <1>2, <1>3 DEF PostSettlement
<1>4. \A r \in Keys : reservation[r].account \in Accounts
  BY ReservationFields
<1>5. ASSUME NEW c \in Callers, NEW k \in Keys, NEW a \in Accounts,
             NEW n \in 1 .. MaxAmount,
             CreditAccountTx(c, k, a, n) \/ CreateReservationTx(c, k, a, n)
      PROVE  EntriesKept
  BY <1>2, <1>5 DEF CreditAccountTx, CreateReservationTx
<1>6. ASSUME NEW c \in Callers, NEW k \in Keys, NEW r \in Keys,
             ReleaseReservationTx(c, k, r)
      PROVE  EntriesKept
  BY <1>2, <1>4, <1>6 DEF ReleaseReservationTx
<1>7. ASSUME NEW c \in Callers, NEW k \in Keys, NEW r \in Keys,
             NEW actual \in 0 .. MaxAmount, SettleReservationTx(c, k, r, actual)
      PROVE  EntriesKept
  BY <1>3, <1>4, <1>7 DEF SettleReservationTx
<1>8. QED
  BY <1>1, <1>5, <1>6, <1>7
     DEF Next, vars, ledger, BeginCall, RollbackTx, RecordAdjustmentTx

\* Ledger entries are appended and never changed.
THEOREM EntriesImmutable == Spec => EntriesAppendOnly
<1>1. TypeOK /\ [Next]_vars => [EntriesKept]_vars
  BY AppendStep
<1>2. QED
  BY <1>1, TypeCorrect, PTL DEF Spec, EntriesAppendOnly, EntriesKept

-----------------------------------------------------------------------------
(* The held balance is the sum of the open reservations *)

\* The quota units 1 .. n of the reservation r.
Units(r, n) == {r} \X (1 .. n)

\* Adding the units of one more reservation adds its amount.
LEMMA UnitsAdded ==
    ASSUME NEW S, IsFiniteSet(S), NEW r, NEW n \in Nat, S \cap Units(r, n) = {}
    PROVE  Cardinality(S \cup Units(r, n)) = Cardinality(S) + n
<1>1. IsFiniteSet(1 .. n) /\ Cardinality(1 .. n) = n
  BY FS_Interval
<1>2. IsFiniteSet({r}) /\ Cardinality({r}) = 1
  BY FS_Singleton
<1>3. IsFiniteSet(Units(r, n)) /\ Cardinality(Units(r, n)) = 1 * n
  <2>1. /\ IsFiniteSet({r} \X (1 .. n))
        /\ Cardinality({r} \X (1 .. n)) = Cardinality({r}) * Cardinality(1 .. n)
    BY <1>1, <1>2, FS_Product, Zenon
  <2>2. QED
    BY <1>1, <1>2, <2>1, Zenon DEF Units
<1>4. Cardinality(S \cup Units(r, n)) = Cardinality(S) + Cardinality(Units(r, n)) - 0
  BY <1>3, FS_Union, FS_EmptySet
<1>5. Cardinality(S) \in Nat
  BY FS_CardinalityType
<1>6. QED
  BY <1>3, <1>4, <1>5

\* Only finitely many units can be held.
LEMMA HeldUnitsFinite ==
    ASSUME NEW a PROVE IsFiniteSet(HeldUnits(a)) /\ IsFiniteSet(HeldUnits(a)')
<1>1. IsFiniteSet(1 .. MaxAmount)
  BY FS_Interval, MaxAmountAssumption
<1>2. IsFiniteSet(Keys \X (1 .. MaxAmount))
  BY <1>1, KeysAssumption, FS_Product
<1>3. HeldUnits(a) \in SUBSET (Keys \X (1 .. MaxAmount))
  BY DEF HeldUnits
<1>4. HeldUnits(a)' \in SUBSET (Keys \X (1 .. MaxAmount))
  BY DEF HeldUnits
<1>5. QED
  BY <1>2, <1>3, <1>4, FS_Subset

\* Opening a reservation holds its units.
LEMMA UnitsHeld ==
    ASSUME TypeOK, NEW k \in Keys, NEW a \in Accounts, NEW n \in 1 .. MaxAmount,
           reservation[k].status # "open",
           reservation' = [reservation EXCEPT ![k] =
                             [account |-> a, amount |-> n, status |-> "open"]]
    PROVE  /\ \A b \in Accounts : b # a => HeldUnits(b)' = HeldUnits(b)
           /\ HeldUnits(a)' = HeldUnits(a) \cup Units(k, n)
           /\ HeldUnits(a) \cap Units(k, n) = {}
<1>1. \A x \in Keys : reservation'[x] = IF x = k
                        THEN [account |-> a, amount |-> n, status |-> "open"]
                        ELSE reservation[x]
  BY DEF TypeOK
<1>2. ASSUME NEW b \in Accounts, b # a
      PROVE  HeldUnits(b)' = HeldUnits(b)
  <2>1. ASSUME NEW u \in Keys \X (1 .. MaxAmount)
        PROVE  u \in HeldUnits(b)' <=> u \in HeldUnits(b)
    BY <1>1, <1>2 DEF HeldUnits
  <2>2. QED
    BY <2>1 DEF HeldUnits
<1>3. HeldUnits(a)' = HeldUnits(a) \cup Units(k, n)
  <2>1. ASSUME NEW u \in Keys \X (1 .. MaxAmount)
        PROVE  u \in HeldUnits(a)' <=> u \in HeldUnits(a) \/ u \in Units(k, n)
    BY <1>1, MaxAmountAssumption DEF HeldUnits, Units
  <2>2. Units(k, n) \subseteq Keys \X (1 .. MaxAmount)
    BY MaxAmountAssumption DEF Units
  <2>3. QED
    BY <2>1, <2>2 DEF HeldUnits
<1>4. HeldUnits(a) \cap Units(k, n) = {}
  BY DEF HeldUnits, Units
<1>5. QED
  BY <1>2, <1>3, <1>4

\* Closing a reservation gives its units up.
LEMMA UnitsUnheld ==
    ASSUME TypeOK, NEW r \in Keys, NEW status \in {"settled", "released"},
           IsOpen(r), SetStatus(r, status),
           NEW a \in Accounts, a = reservation[r].account, NEW n, n = reservation[r].amount
    PROVE  /\ \A b \in Accounts : b # a => HeldUnits(b)' = HeldUnits(b)
           /\ HeldUnits(a) = HeldUnits(a)' \cup Units(r, n)
           /\ HeldUnits(a)' \cap Units(r, n) = {}
<1>0. n \in 1 .. MaxAmount /\ n \in Nat /\ MaxAmount \in Nat
  BY ReservationFields, MaxAmountAssumption DEF IsOpen
<1>1. \A x \in Keys : /\ x # r => reservation'[x] = reservation[x]
                      /\ x = r => reservation'[x].status # "open"
  BY StatusKept DEF SetStatus, TypeOK, IsOpen, Status
<1>2. ASSUME NEW b \in Accounts, b # a
      PROVE  HeldUnits(b)' = HeldUnits(b)
  <2>1. ASSUME NEW u \in Keys \X (1 .. MaxAmount)
        PROVE  u \in HeldUnits(b)' <=> u \in HeldUnits(b)
    BY <1>1, <1>2 DEF HeldUnits
  <2>2. QED
    BY <2>1 DEF HeldUnits
<1>3. HeldUnits(a) = HeldUnits(a)' \cup Units(r, n)
  <2>1. ASSUME NEW u \in Keys \X (1 .. MaxAmount)
        PROVE  u \in HeldUnits(a) <=> u \in HeldUnits(a)' \/ u \in Units(r, n)
    <3>1. CASE u[1] = r
      <4>1. u \in Units(r, n) <=> u[2] <= n
        BY <1>0, <3>1 DEF Units
      <4>2. u \in HeldUnits(a) <=> u[2] <= n
        BY <3>1 DEF HeldUnits, IsOpen
      <4>3. u \notin HeldUnits(a)'
        BY <1>1, <3>1 DEF HeldUnits
      <4>4. QED
        BY <4>1, <4>2, <4>3
    <3>2. CASE u[1] # r
      <4>1. u \notin Units(r, n)
        BY <3>2 DEF Units
      <4>2. reservation'[u[1]] = reservation[u[1]]
        BY <1>1, <3>2
      <4>3. u \in HeldUnits(a)' <=> u \in HeldUnits(a)
        BY <4>2 DEF HeldUnits
      <4>4. QED
        BY <4>1, <4>3
    <3>3. QED
      BY <3>1, <3>2
  <2>2. Units(r, n) \subseteq Keys \X (1 .. MaxAmount)
    BY <1>0 DEF Units
  <2>3. QED
    BY <2>1, <2>2 DEF HeldUnits
<1>4. HeldUnits(a)' \cap Units(r, n) = {}
  BY <1>1 DEF HeldUnits, Units
<1>5. QED
  BY <1>2, <1>3, <1>4

\* Every operation moves the held balance with the reservation it opens or closes.
LEMMA HeldStep == TypeOK /\ HeldByOpenReservations /\ [Next]_vars => HeldByOpenReservations'
<1> SUFFICES ASSUME TypeOK, HeldByOpenReservations, [Next]_vars, NEW b \in Accounts
             PROVE  snapshot'[b].reserved = Cardinality(HeldUnits(b)')
  BY DEF HeldByOpenReservations
<1>0. /\ snapshot[b].reserved = Cardinality(HeldUnits(b))
      /\ \A a \in Accounts : snapshot[a] \in Snapshot /\ snapshot[a].reserved \in Int
      /\ IsFiniteSet(HeldUnits(b)) /\ IsFiniteSet(HeldUnits(b)')
  BY HeldUnitsFinite DEF HeldByOpenReservations, TypeOK, Snapshot
<1>1. ASSUME NEW a \in Accounts, NEW row, row.reserved = snapshot[a].reserved,
             snapshot' = [snapshot EXCEPT ![a] = row], reservation' = reservation
      PROVE  snapshot'[b].reserved = Cardinality(HeldUnits(b)')
  BY <1>0, <1>1 DEF HeldUnits, TypeOK
<1>2. CASE UNCHANGED <<snapshot, reservation>>
  BY <1>0, <1>2 DEF HeldUnits
<1>3. ASSUME NEW c \in Callers, NEW k \in Keys, NEW a \in Accounts,
             NEW n \in 1 .. MaxAmount, CreditAccountTx(c, k, a, n)
      PROVE  snapshot'[b].reserved = Cardinality(HeldUnits(b)')
  <2>1. Credited(snapshot[a], n).reserved = snapshot[a].reserved
    BY <1>0, MaxAmountAssumption, ArithmeticFields
  <2>2. QED
    BY <1>1, <1>3, <2>1 DEF CreditAccountTx
<1>4. ASSUME NEW c \in Callers, NEW k \in Keys, NEW a \in Accounts,
             NEW n \in 1 .. MaxAmount, CreateReservationTx(c, k, a, n)
      PROVE  snapshot'[b].reserved = Cardinality(HeldUnits(b)')
  <2>1. n \in Nat
    BY MaxAmountAssumption
  <2>2. Held(snapshot[a], n).reserved = snapshot[a].reserved + n
    <3>1. snapshot[a] \in Snapshot /\ n \in Int
      BY <1>0, <2>1
    <3>2. QED
      BY <3>1, ArithmeticFields
  <2>3. /\ a # b => HeldUnits(b)' = HeldUnits(b)
        /\ HeldUnits(a)' = HeldUnits(a) \cup Units(k, n)
        /\ HeldUnits(a) \cap Units(k, n) = {}
    BY <1>4, UnitsHeld DEF CreateReservationTx, ReservationExists
  <2>4. snapshot'[b].reserved = snapshot[b].reserved + IF a = b THEN n ELSE 0
    BY <1>0, <1>4, <2>1, <2>2 DEF CreateReservationTx, TypeOK
  <2>5. a = b => Cardinality(HeldUnits(b)') = Cardinality(HeldUnits(b)) + n
    BY <1>0, <2>1, <2>3, UnitsAdded
  <2>6. QED
    BY <1>0, <2>1, <2>3, <2>4, <2>5
<1>5. ASSUME NEW r \in Keys, NEW status \in {"settled", "released"},
             IsOpen(r), SetStatus(r, status), NEW row,
             row.reserved = snapshot[reservation[r].account].reserved - reservation[r].amount,
             snapshot' = [snapshot EXCEPT ![reservation[r].account] = row]
      PROVE  snapshot'[b].reserved = Cardinality(HeldUnits(b)')
  <2>1. PICK a \in Accounts, n \in Nat :
            a = reservation[r].account /\ n = reservation[r].amount
    BY ReservationFields, MaxAmountAssumption
  <2>2. /\ a # b => HeldUnits(b)' = HeldUnits(b)
        /\ HeldUnits(a) = HeldUnits(a)' \cup Units(r, n)
        /\ HeldUnits(a)' \cap Units(r, n) = {}
    BY <1>5, <2>1, UnitsUnheld
  <2>3. snapshot'[b].reserved = snapshot[b].reserved - IF a = b THEN n ELSE 0
    BY <1>0, <1>5, <2>1 DEF TypeOK
  <2>4. a = b => Cardinality(HeldUnits(b)) = Cardinality(HeldUnits(b)') + n
    BY <1>0, <2>1, <2>2, UnitsAdded
  <2>5. Cardinality(HeldUnits(b)') \in Nat
    BY <1>0, FS_CardinalityType
  <2>6. QED
    BY <1>0, <2>1, <2>2, <2>3, <2>4, <2>5
<1>6. ASSUME NEW c \in Callers, NEW k \in Keys, NEW r \in Keys,
             ReleaseReservationTx(c, k, r)
      PROVE  snapshot'[b].reserved = Cardinality(HeldUnits(b)')
  <2> DEFINE a == reservation[r].account
             n == reservation[r].amount
  <2>1. a \in Accounts /\ n \in Int
    BY ReservationFields, MaxAmountAssumption
  <2>2. Unheld(snapshot[a], n).reserved = snapshot[a].reserved - n
    <3> HIDE DEF a, n
    <3>1. QED
      BY <1>0, <2>1, ArithmeticFields
  <2>3. QED
    BY <1>5, <1>6, <2>2 DEF ReleaseReservationTx
<1>7. ASSUME NEW c \in Callers, NEW k \in Keys, NEW r \in Keys,
             NEW actual \in 0 .. MaxAmount, SettleReservationTx(c, k, r, actual)
      PROVE  snapshot'[b].reserved = Cardinality(HeldUnits(b)')
  <2> DEFINE a == reservation[r].account
             n == reservation[r].amount
  <2>1. a \in Accounts /\ n \in Int /\ actual \in Int
    BY ReservationFields, MaxAmountAssumption
  <2>2. Settled(snapshot[a], n, actual).reserved = snapshot[a].reserved - n
    <3> HIDE DEF a, n
    <3>1. QED
      BY <1>0, <2>1, ArithmeticFields
  <2>3. QED
    BY <1>5, <1>7, <2>2 DEF SettleReservationTx
<1>8. QED
  BY <1>2, <1>3, <1>4, <1>6, <1>7
     DEF Next, vars, ledger, BeginCall, RollbackTx, RecordAdjustmentTx

\* The held balance of an account is what its open reservations hold, so the
\* underflow checks of settle and release never refuse an open reservation.
THEOREM HeldBalanceExplained == Spec => []HeldByOpenReservations
<1>1. Init => HeldByOpenReservations
  <2> SUFFICES ASSUME Init, NEW a \in Accounts
               PROVE  snapshot[a].reserved = Cardinality(HeldUnits(a))
    BY DEF HeldByOpenReservations
  <2>1. HeldUnits(a) = {}
    BY DEF Init, HeldUnits, NoReservation
  <2>2. QED
    BY <2>1, FS_EmptySet DEF Init, EmptySnapshot
<1>2. TypeOK /\ HeldByOpenReservations /\ [Next]_vars => HeldByOpenReservations'
  BY HeldStep
<1>3. QED
  BY <1>1, <1>2, TypeCorrect, PTL DEF Spec
=============================================================================
