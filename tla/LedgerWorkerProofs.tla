------------------------- MODULE LedgerWorkerProofs -------------------------
(***************************************************************************)
(* Proofs about the balance snapshots of the ledger: the operations keep   *)
(* them equal to what a rebuild computes from the rows, and rebuilds that  *)
(* race with operations never leave a wrong snapshot for settled.          *)
(***************************************************************************)
EXTENDS LedgerWorker, LedgerProofs, SumTheorems

-----------------------------------------------------------------------------
(* The sums of one account under the writes of the operations *)

\* Settlements belong to reservations that exist, and are finitely many.
SettlementsOwned ==
    /\ IsFiniteSet(settlement)
    /\ \A s \in settlement : ReservationExists(s.reservation)

\* The rows that explain the snapshot of an account are what they were.
Unmoved(a) ==
    /\ Available(a)' = Available(a)
    /\ Reserved(a)' = Reserved(a)
    /\ Consumed(a)' = Consumed(a)
    /\ Refunded(a)' = Refunded(a)
    /\ Granted(a)' = Granted(a)

\* What an entry adds to the granted total.
GrantOf(type, n) == IF type = "grant_credit" THEN n ELSE 0

\* Posting an entry moves the entry totals of its account and of no other.
LEMMA PostMoves ==
    ASSUME TypeOK, TypeOK', NEW a \in Accounts, NEW type \in EntryTypes,
           NEW n \in 1 .. MaxAmount, NEW ek, NEW ref, Post(a, type, n, ek, ref)
    PROVE  /\ Available(a)' = Available(a) + Signed(type, n)
           /\ Granted(a)' = Granted(a) + GrantOf(type, n)
           /\ \A b \in Accounts \ {a} :
                 Available(b)' = Available(b) /\ Granted(b)' = Granted(b)
<1> DEFINE es == entries[a]
           e == [type |-> type, amount |-> n, after |-> snapshot'[a].available,
                 key |-> ek, ref |-> ref]
           new == Append(es, e)
<1>1. /\ entries'[a] = new
      /\ \A b \in Accounts \ {a} : entries'[b] = entries[b]
      /\ es \in Seq(Entry) /\ new \in Seq(Entry)
  BY DEF Post, TypeOK
<1>2. e.type = type /\ e.amount = n
  OBVIOUS
<1> HIDE DEF e
<1>3. /\ Len(es) \in Nat /\ Len(new) = Len(es) + 1
      /\ \A i \in 1 .. Len(es) : new[i] = es[i]
      /\ new[Len(es) + 1] = e
      /\ DOMAIN es = 1 .. Len(es) /\ DOMAIN new = 1 .. Len(es) + 1
  BY <1>1
<1>4. \A x \in Entry : Signed(x.type, x.amount) \in Int /\ x.amount \in Int
  BY MaxAmountAssumption DEF Entry, Signed
<1>5. \A i \in 1 .. Len(es) : es[i] \in Entry
  BY <1>1, <1>3
<1>6. Signed(type, n) \in Int /\ GrantOf(type, n) \in Int
  BY MaxAmountAssumption DEF Signed, GrantOf
<1>7. Available(a)' = Available(a) + Signed(type, n)
  <2> DEFINE f == [i \in DOMAIN es |-> Signed(es[i].type, es[i].amount)]
             g == [i \in DOMAIN new |-> Signed(new[i].type, new[i].amount)]
             k == Len(es)
  <2>1. k \in Nat /\ DOMAIN f = 1 .. k /\ DOMAIN g = 1 .. (k + 1)
    BY <1>3
  <2>2. \A i \in 1 .. k : f[i] \in Int /\ g[i] = f[i]
    BY <1>3, <1>4, <1>5
  <2>3. g[k + 1] = Signed(type, n)
    BY <1>2, <1>3
  <2>4. Available(a) = SumFunction(f) /\ Available(a)' = SumFunction(g)
    BY <1>1 DEF Available
  <2> HIDE DEF f, g, k
  <2> QED
    BY <1>6, <2>1, <2>2, <2>3, <2>4, SumAppended
<1>8. Granted(a)' = Granted(a) + GrantOf(type, n)
  <2> DEFINE f == [i \in DOMAIN es |-> IF es[i].type = "grant_credit" THEN es[i].amount ELSE 0]
             g == [i \in DOMAIN new |-> IF new[i].type = "grant_credit" THEN new[i].amount ELSE 0]
             k == Len(es)
  <2>1. k \in Nat /\ DOMAIN f = 1 .. k /\ DOMAIN g = 1 .. (k + 1)
    BY <1>3
  <2>2. \A i \in 1 .. k : f[i] \in Int /\ g[i] = f[i]
    BY <1>3, <1>4, <1>5
  <2>3. g[k + 1] = GrantOf(type, n)
    BY <1>2, <1>3 DEF GrantOf
  <2>4. Granted(a) = SumFunction(f) /\ Granted(a)' = SumFunction(g)
    BY <1>1 DEF Granted
  <2> HIDE DEF f, g, k
  <2> QED
    BY <1>6, <2>1, <2>2, <2>3, <2>4, SumAppended
<1>9. \A b \in Accounts \ {a} : Available(b)' = Available(b) /\ Granted(b)' = Granted(b)
  BY <1>1 DEF Available, Granted
<1> QED
  BY <1>7, <1>8, <1>9

\* What a reservation row holds of the balance of an account.
HeldBy(row, a) == IF row.status = "open" /\ row.account = a THEN row.amount ELSE 0

\* A reservation row holds a whole number of units.
LEMMA HeldByTyped ==
    ASSUME NEW row \in Reservation, NEW a
    PROVE  HeldBy(row, a) \in Nat
<1>1. CASE row = NoReservation
  BY <1>1 DEF NoReservation, HeldBy
<1>2. CASE row \in [account : Accounts, amount : 1 .. MaxAmount, status : Status]
  BY <1>2, MaxAmountAssumption DEF HeldBy
<1> QED
  BY <1>1, <1>2 DEF Reservation

\* The reserved balance is a sum over all rows, closed ones holding nothing.
LEMMA ReservedIsSum ==
    ASSUME NEW rows \in [Keys -> Reservation], NEW a
    PROVE  LET open == {k \in Keys : rows[k].status = "open" /\ rows[k].account = a}
           IN  SumFunction([k \in open |-> rows[k].amount])
                 = SumFunctionOnSet([k \in Keys |-> HeldBy(rows[k], a)], Keys)
<1> DEFINE f == [k \in Keys |-> HeldBy(rows[k], a)]
           T == {k \in Keys : rows[k].status = "open" /\ rows[k].account = a}
           g == [k \in T |-> rows[k].amount]
<1>1. T \in SUBSET Keys /\ DOMAIN g = T
  OBVIOUS
<1>2. \A k \in Keys : f[k] \in Int
  BY HeldByTyped
<1>3. \A k \in T : g[k] = f[k]
  BY DEF HeldBy
<1>4. \A k \in Keys \ T : f[k] = 0
  BY DEF HeldBy
<1>5. SumFunction(g) = SumFunctionOnSet(g, T)
  BY DEF SumFunction
<1> HIDE DEF f, g, T
<1>6. SumFunctionOnSet(f, Keys) = SumFunctionOnSet(g, T)
  BY <1>1, <1>2, <1>3, <1>4, KeysAssumption, SumSupport
<1> QED
  BY <1>5, <1>6 DEF f, g, T

\* When one reservation changes, the reserved balances change by what it holds.
LEMMA ReservedMoves ==
    ASSUME TypeOK, TypeOK', NEW k \in Keys, NEW a \in Accounts,
           \A j \in Keys \ {k} : reservation'[j] = reservation[j]
    PROVE  Reserved(a)' = Reserved(a) + HeldBy(reservation'[k], a) - HeldBy(reservation[k], a)
<1> DEFINE f == [j \in Keys |-> HeldBy(reservation[j], a)]
           g == [j \in Keys |-> HeldBy(reservation'[j], a)]
<1>1. reservation \in [Keys -> Reservation] /\ reservation' \in [Keys -> Reservation]
  BY DEF TypeOK
<1>2. Reserved(a) = SumFunctionOnSet(f, Keys)
  BY <1>1, ReservedIsSum DEF Reserved, OpenOf, IsOpen
<1>3. Reserved(a)' = SumFunctionOnSet(g, Keys)
  BY <1>1, ReservedIsSum DEF Reserved, OpenOf, IsOpen
<1>4. /\ \A j \in Keys : f[j] \in Int /\ g[j] \in Int
      /\ \A j \in Keys \ {k} : g[j] = f[j]
  BY <1>1, HeldByTyped
<1>5. f[k] = HeldBy(reservation[k], a) /\ g[k] = HeldBy(reservation'[k], a)
  OBVIOUS
<1> HIDE DEF f, g
<1> QED
  BY <1>2, <1>3, <1>4, <1>5, KeysAssumption, SumUpdate

-----------------------------------------------------------------------------
(* Settlements *)

\* What a settlement of an account adds to the totals.
RefundOf(s) == IF s.delta < 0 THEN -s.delta ELSE 0

\* Settlements keep their account: only a reservation that does not exist yet
\* can be given one.
LEMMA SettlementsStay ==
    ASSUME TypeOK, SettlementsOwned, NEW k \in Keys,
           \A j \in Keys \ {k} : reservation'[j] = reservation[j],
           ReservationExists(k) => reservation'[k].account = reservation[k].account
    PROVE  \A s \in settlement :
              reservation'[s.reservation].account = reservation[s.reservation].account
BY DEF TypeOK, SettlementsOwned, Settlement

\* The totals of settlements that stay do not change.
LEMMA SettlementsUnmoved ==
    ASSUME NEW a,
           \A s \in settlement :
              reservation'[s.reservation].account = reservation[s.reservation].account,
           settlement' = settlement
    PROVE  Consumed(a)' = Consumed(a) /\ Refunded(a)' = Refunded(a)
<1>1. SettlementsOf(a)' = SettlementsOf(a)
  BY DEF SettlementsOf
<1> QED
  BY <1>1 DEF Consumed, Refunded

\* A settlement adds to the totals of the account of its reservation.
LEMMA SettlementAdded ==
    ASSUME TypeOK, TypeOK', SettlementsOwned, NEW s \in Settlement, s \notin settlement,
           settlement' = settlement \cup {s},
           \A t \in settlement' :
              reservation'[t.reservation].account = reservation[t.reservation].account,
           NEW a
    PROVE  /\ reservation[s.reservation].account = a =>
                 /\ Consumed(a)' = Consumed(a) + s.actual
                 /\ Refunded(a)' = Refunded(a) + RefundOf(s)
           /\ reservation[s.reservation].account # a =>
                 Consumed(a)' = Consumed(a) /\ Refunded(a)' = Refunded(a)
<1> DEFINE T == SettlementsOf(a)
           U == SettlementsOf(a)'
<1>1. CASE reservation[s.reservation].account # a
  <2>1. U = T
    BY <1>1 DEF SettlementsOf
  <2> QED
    BY <1>1, <2>1 DEF Consumed, Refunded
<1>2. CASE reservation[s.reservation].account = a
  <2>1. U = T \cup {s} /\ s \notin T /\ IsFiniteSet(T)
    BY <1>2, FS_Subset DEF SettlementsOf, SettlementsOwned
  <2>2. \A t \in U : t.actual \in Int /\ t.delta \in Int /\ RefundOf(t) \in Int
    BY MaxAmountAssumption DEF SettlementsOf, TypeOK, Settlement, RefundOf
  <2>3. Consumed(a)' = Consumed(a) + s.actual
    <3> DEFINE f == [t \in T |-> t.actual]
               g == [t \in U |-> t.actual]
    <3>1. Consumed(a) = SumFunctionOnSet(f, T) /\ Consumed(a)' = SumFunctionOnSet(g, U)
      BY DEF Consumed, SumFunction
    <3>2. /\ \A t \in T : f[t] \in Int /\ g[t] = f[t]
          /\ \A t \in T \cup {s} : g[t] \in Int
          /\ g[s] = s.actual
      BY <2>1, <2>2
    <3> HIDE DEF f, g, T, U
    <3>3. SumFunctionOnSet(g, T \cup {s}) = g[s] + SumFunctionOnSet(g, T)
      BY <2>1, <3>2, SumAdd
    <3>4. SumFunctionOnSet(g, T) = SumFunctionOnSet(f, T) /\ SumFunctionOnSet(f, T) \in Int
      BY <2>1, <3>2, SumSame, SumInt
    <3> QED
      BY <2>1, <3>1, <3>2, <3>3, <3>4
  <2>4. Refunded(a)' = Refunded(a) + RefundOf(s)
    <3> DEFINE f == [t \in T |-> RefundOf(t)]
               g == [t \in U |-> RefundOf(t)]
    <3>1. Refunded(a) = SumFunctionOnSet(f, T) /\ Refunded(a)' = SumFunctionOnSet(g, U)
      BY DEF Refunded, SumFunction, RefundOf
    <3>2. /\ \A t \in T : f[t] \in Int /\ g[t] = f[t]
          /\ \A t \in T \cup {s} : g[t] \in Int
          /\ g[s] = RefundOf(s)
      BY <2>1, <2>2
    <3> HIDE DEF f, g, T, U
    <3>3. SumFunctionOnSet(g, T \cup {s}) = g[s] + SumFunctionOnSet(g, T)
      BY <2>1, <3>2, SumAdd
    <3>4. SumFunctionOnSet(g, T) = SumFunctionOnSet(f, T) /\ SumFunctionOnSet(f, T) \in Int
      BY <2>1, <3>2, SumSame, SumInt
    <3> QED
      BY <2>1, <3>1, <3>2, <3>3, <3>4
  <2> QED
    BY <1>2, <2>3, <2>4
<1> QED
  BY <1>1, <1>2

-----------------------------------------------------------------------------
(* Every operation moves the snapshot and the rows alike *)

\* The snapshot of an account and the sums of its rows move by the same amounts.
Moves(a, available, reserved, consumed, refunded, granted) ==
    /\ snapshot'[a] = Moved(snapshot[a], available, reserved, consumed, refunded, granted)
    /\ Available(a)' = Available(a) + available
    /\ Reserved(a)' = Reserved(a) + reserved
    /\ Consumed(a)' = Consumed(a) + consumed
    /\ Refunded(a)' = Refunded(a) + refunded
    /\ Granted(a)' = Granted(a) + granted

\* Neither the snapshot of an account nor its rows move.
Still(a) == snapshot'[a] = snapshot[a] /\ Unmoved(a)

\* The sums of an account are integers.
LEMMA SumsTyped ==
    ASSUME TypeOK, SettlementsOwned, NEW a \in Accounts
    PROVE  /\ Available(a) \in Int /\ Reserved(a) \in Int /\ Consumed(a) \in Int
           /\ Refunded(a) \in Int /\ Granted(a) \in Int
<1>1. /\ entries[a] \in Seq(Entry)
      /\ DOMAIN entries[a] = 1 .. Len(entries[a]) /\ Len(entries[a]) \in Nat
      /\ \A i \in DOMAIN entries[a] : entries[a][i] \in Entry
  BY DEF TypeOK
<1>2. IsFiniteSet(DOMAIN entries[a])
  BY <1>1, FS_Interval
<1>3. \A x \in Entry : Signed(x.type, x.amount) \in Int /\ x.amount \in Int
  BY MaxAmountAssumption DEF Entry, Signed
<1>4. Available(a) \in Int
  <2> DEFINE f == [i \in DOMAIN entries[a] |-> Signed(entries[a][i].type, entries[a][i].amount)]
  <2>1. \A i \in DOMAIN entries[a] : f[i] \in Int
    BY <1>1, <1>3
  <2>2. Available(a) = SumFunctionOnSet(f, DOMAIN entries[a])
    BY DEF Available, SumFunction
  <2> HIDE DEF f
  <2> QED
    BY <1>2, <2>1, <2>2, SumInt
<1>5. Granted(a) \in Int
  <2> DEFINE f == [i \in DOMAIN entries[a] |->
                     IF entries[a][i].type = "grant_credit" THEN entries[a][i].amount ELSE 0]
  <2>1. \A i \in DOMAIN entries[a] : f[i] \in Int
    BY <1>1, <1>3
  <2>2. Granted(a) = SumFunctionOnSet(f, DOMAIN entries[a])
    BY DEF Granted, SumFunction
  <2> HIDE DEF f
  <2> QED
    BY <1>2, <2>1, <2>2, SumInt
<1>6. Reserved(a) \in Int
  <2> DEFINE f == [k \in Keys |-> HeldBy(reservation[k], a)]
  <2>1. reservation \in [Keys -> Reservation]
    BY DEF TypeOK
  <2>2. Reserved(a) = SumFunctionOnSet(f, Keys)
    BY <2>1, ReservedIsSum DEF Reserved, OpenOf, IsOpen
  <2>3. \A k \in Keys : f[k] \in Int
    BY <2>1, HeldByTyped
  <2> HIDE DEF f
  <2> QED
    BY <2>2, <2>3, SumInt, KeysAssumption
<1>7. IsFiniteSet(SettlementsOf(a)) /\ SettlementsOf(a) \subseteq Settlement
  BY FS_Subset DEF SettlementsOf, SettlementsOwned, TypeOK
<1>8. Consumed(a) \in Int
  <2> DEFINE f == [s \in SettlementsOf(a) |-> s.actual]
  <2>1. \A s \in SettlementsOf(a) : f[s] \in Int
    BY <1>7, MaxAmountAssumption DEF Settlement
  <2>2. Consumed(a) = SumFunctionOnSet(f, SettlementsOf(a))
    BY DEF Consumed, SumFunction
  <2> HIDE DEF f
  <2> QED
    BY <1>7, <2>1, <2>2, SumInt
<1>9. Refunded(a) \in Int
  <2> DEFINE f == [s \in SettlementsOf(a) |-> RefundOf(s)]
  <2>1. \A s \in SettlementsOf(a) : f[s] \in Int
    BY <1>7 DEF Settlement, RefundOf
  <2>2. Refunded(a) = SumFunctionOnSet(f, SettlementsOf(a))
    BY DEF Refunded, SumFunction, RefundOf
  <2> HIDE DEF f
  <2> QED
    BY <1>7, <2>1, <2>2, SumInt
<1> QED
  BY <1>4, <1>5, <1>6, <1>8, <1>9

\* A credit moves the available balance and the granted total, in both.
LEMMA CreditMoves ==
    ASSUME TypeOK, TypeOK', SettlementsOwned,
           NEW c \in Callers, NEW k \in Keys, NEW a \in Accounts, NEW n \in 1 .. MaxAmount,
           CreditAccountTx(c, k, a, n)
    PROVE  Moves(a, n, 0, 0, 0, n) /\ \A b \in Accounts \ {a} : Still(b)
<1>1. /\ snapshot'[a] = Credited(snapshot[a], n)
      /\ \A b \in Accounts \ {a} : snapshot'[b] = snapshot[b]
      /\ reservation' = reservation /\ settlement' = settlement
      /\ Post(a, "grant_credit", n, <<"raw", k>>, k)
  BY DEF CreditAccountTx, TypeOK
<1>2. /\ Available(a)' = Available(a) + n /\ Granted(a)' = Granted(a) + n
      /\ \A b \in Accounts \ {a} : Available(b)' = Available(b) /\ Granted(b)' = Granted(b)
  <2>1. "grant_credit" \in EntryTypes
    BY DEF EntryTypes
  <2>2. Signed("grant_credit", n) = n /\ GrantOf("grant_credit", n) = n
    BY DEF Signed, GrantOf
  <2> QED
    BY <1>1, <2>1, <2>2, PostMoves
<1>3. \A b \in Accounts : Reserved(b)' = Reserved(b)
  BY <1>1 DEF Reserved, OpenOf, IsOpen
<1>4. \A b \in Accounts : Consumed(b)' = Consumed(b) /\ Refunded(b)' = Refunded(b)
  BY <1>1, SettlementsUnmoved
<1>5. \A b \in Accounts \ {a} : Still(b)
  BY <1>1, <1>2, <1>3, <1>4 DEF Still, Unmoved
<1>6. Reserved(a) \in Int /\ Consumed(a) \in Int /\ Refunded(a) \in Int
  BY SumsTyped
<1> QED
  BY <1>1, <1>2, <1>3, <1>4, <1>5, <1>6 DEF Moves, Credited

\* A reservation moves its amount from available to reserved, in both.
LEMMA ReserveMoves ==
    ASSUME TypeOK, TypeOK', SettlementsOwned,
           NEW c \in Callers, NEW k \in Keys, NEW a \in Accounts, NEW n \in 1 .. MaxAmount,
           CreateReservationTx(c, k, a, n)
    PROVE  Moves(a, -n, n, 0, 0, 0) /\ \A b \in Accounts \ {a} : Still(b)
<1>1. /\ snapshot'[a] = Held(snapshot[a], n)
      /\ \A b \in Accounts \ {a} : snapshot'[b] = snapshot[b]
      /\ ~ReservationExists(k)
      /\ reservation'[k] = [account |-> a, amount |-> n, status |-> "open"]
      /\ \A j \in Keys \ {k} : reservation'[j] = reservation[j]
      /\ settlement' = settlement
      /\ Post(a, "reserve_hold", n, <<"entry", k>>, k)
  BY DEF CreateReservationTx, TypeOK
<1>0. n \in Int /\ n \in Nat
  BY MaxAmountAssumption
<1>2. /\ Available(a)' = Available(a) + -n /\ Granted(a)' = Granted(a) + 0
      /\ \A b \in Accounts \ {a} : Available(b)' = Available(b) /\ Granted(b)' = Granted(b)
  <2>1. "reserve_hold" \in EntryTypes
    BY DEF EntryTypes
  <2>2. Signed("reserve_hold", n) = -n /\ GrantOf("reserve_hold", n) = 0
    BY DEF Signed, GrantOf
  <2> QED
    BY <1>1, <2>1, <2>2, PostMoves
<1>3. \A b \in Accounts : Reserved(b)' = Reserved(b) + IF b = a THEN n ELSE 0
  <2> SUFFICES ASSUME NEW b \in Accounts
               PROVE  Reserved(b)' = Reserved(b) + IF b = a THEN n ELSE 0
    OBVIOUS
  <2>1. Reserved(b)' = Reserved(b) + HeldBy(reservation'[k], b) - HeldBy(reservation[k], b)
    BY <1>1, ReservedMoves
  <2>2. HeldBy(reservation[k], b) = 0
    BY <1>1 DEF ReservationExists, HeldBy
  <2>3. HeldBy(reservation'[k], b) = IF b = a THEN n ELSE 0
    BY <1>1 DEF HeldBy
  <2>4. Reserved(b) \in Int
    BY SumsTyped
  <2> QED
    BY <1>0, <2>1, <2>2, <2>3, <2>4
<1>4. \A b \in Accounts : Consumed(b)' = Consumed(b) /\ Refunded(b)' = Refunded(b)
  BY <1>1, SettlementsStay, SettlementsUnmoved
<1>6. \A b \in Accounts : Reserved(b) \in Int /\ Consumed(b) \in Int /\ Refunded(b) \in Int
  BY SumsTyped
<1>5. \A b \in Accounts \ {a} : Still(b)
  BY <1>1, <1>2, <1>3, <1>4, <1>6 DEF Still, Unmoved
<1> QED
  BY <1>1, <1>2, <1>3, <1>4, <1>5, <1>6 DEF Moves, Held

\* Closing a reservation frees what it held and keeps the settlements' accounts.
LEMMA ClosingMoves ==
    ASSUME TypeOK, TypeOK', SettlementsOwned, NEW r \in Keys, IsOpen(r),
           NEW status \in {"released", "settled"}, SetStatus(r, status)
    PROVE  /\ \A b \in Accounts :
                 Reserved(b)' = Reserved(b)
                    + IF b = reservation[r].account THEN -reservation[r].amount ELSE 0
           /\ \A s \in settlement :
                 reservation'[s.reservation].account = reservation[s.reservation].account
           /\ reservation'[r].account = reservation[r].account
           /\ reservation'[r].status = status
           /\ \A j \in Keys \ {r} : reservation'[j] = reservation[j]
<1> DEFINE row == [reservation[r] EXCEPT !.status = status]
<1>1. reservation[r] \in [account : Accounts, amount : 1 .. MaxAmount, status : Status]
  BY DEF TypeOK, Reservation, NoReservation, IsOpen
<1>2. row.account = reservation[r].account /\ row.status = status
  BY <1>1
<1>3. reservation' = [reservation EXCEPT ![r] = row]
  BY DEF SetStatus
<1> HIDE DEF row
<1>4. reservation'[r] = row /\ \A j \in Keys \ {r} : reservation'[j] = reservation[j]
  BY <1>3 DEF TypeOK
<1>5. ASSUME NEW b \in Accounts
      PROVE  Reserved(b)' = Reserved(b)
                + IF b = reservation[r].account THEN -reservation[r].amount ELSE 0
  <2>1. Reserved(b)' = Reserved(b) + HeldBy(reservation'[r], b) - HeldBy(reservation[r], b)
    BY <1>4, ReservedMoves
  <2>2. HeldBy(reservation'[r], b) = 0
    BY <1>2, <1>4 DEF HeldBy
  <2>3. HeldBy(reservation[r], b) = IF b = reservation[r].account THEN reservation[r].amount ELSE 0
    BY DEF HeldBy, IsOpen
  <2>4. Reserved(b) \in Int /\ reservation[r].amount \in Int
    BY <1>1, SumsTyped, MaxAmountAssumption
  <2> QED
    BY <2>1, <2>2, <2>3, <2>4
<1>6. \A s \in settlement :
        reservation'[s.reservation].account = reservation[s.reservation].account
  BY <1>2, <1>4, SettlementsStay
<1> QED
  BY <1>2, <1>4, <1>5, <1>6

\* A release moves it back.
LEMMA ReleaseMoves ==
    ASSUME TypeOK, TypeOK', SettlementsOwned,
           NEW c \in Callers, NEW k \in Keys, NEW r \in Keys, ReleaseReservationTx(c, k, r),
           NEW a, NEW n, a = reservation[r].account, n = reservation[r].amount
    PROVE  /\ a \in Accounts
           /\ Moves(a, n, -n, 0, 0, 0)
           /\ \A b \in Accounts \ {a} : Still(b)
<1>1. a \in Accounts /\ n \in 1 .. MaxAmount /\ n \in Int
  BY ReservationFields, MaxAmountAssumption DEF ReleaseReservationTx, IsOpen
<1>2. /\ snapshot'[a] = Unheld(snapshot[a], n)
      /\ \A b \in Accounts \ {a} : snapshot'[b] = snapshot[b]
      /\ settlement' = settlement /\ IsOpen(r) /\ SetStatus(r, "released")
      /\ Post(a, "reserve_release", n, <<"raw", k>>, r)
  BY <1>1 DEF ReleaseReservationTx, TypeOK
<1>3. /\ Available(a)' = Available(a) + n /\ Granted(a)' = Granted(a) + 0
      /\ \A b \in Accounts \ {a} : Available(b)' = Available(b) /\ Granted(b)' = Granted(b)
  <2>1. "reserve_release" \in EntryTypes
    BY DEF EntryTypes
  <2>2. Signed("reserve_release", n) = n /\ GrantOf("reserve_release", n) = 0
    BY DEF Signed, GrantOf
  <2> QED
    BY <1>1, <1>2, <2>1, <2>2, PostMoves
<1>4. \A b \in Accounts : Reserved(b)' = Reserved(b) + IF b = a THEN -n ELSE 0
  BY <1>2, ClosingMoves
<1>5. \A b \in Accounts : Consumed(b)' = Consumed(b) /\ Refunded(b)' = Refunded(b)
  BY <1>2, ClosingMoves, SettlementsUnmoved
<1>6. \A b \in Accounts : Reserved(b) \in Int /\ Consumed(b) \in Int /\ Refunded(b) \in Int
  BY SumsTyped
<1>7. \A b \in Accounts \ {a} : Still(b)
  BY <1>2, <1>3, <1>4, <1>5, <1>6 DEF Still, Unmoved
<1> QED
  BY <1>1, <1>2, <1>3, <1>4, <1>5, <1>6, <1>7 DEF Moves, Unheld

\* The entry of a settlement moves the balance by what was held too much.
LEMMA SettlementPosted ==
    ASSUME TypeOK, TypeOK', SettlementsOwned, NEW k \in Keys, NEW r \in Keys, NEW a \in Accounts,
           NEW held \in 1 .. MaxAmount, NEW actual \in 0 .. MaxAmount,
           PostSettlement(a, k, r, held, actual)
    PROVE  /\ Available(a)' = Available(a) + (held - actual) /\ Granted(a)' = Granted(a)
           /\ \A b \in Accounts \ {a} : Available(b)' = Available(b) /\ Granted(b)' = Granted(b)
<1>0. /\ held \in Int /\ actual \in Int /\ MaxAmount \in Nat /\ held >= 1 /\ actual >= 0
      /\ held <= MaxAmount /\ actual <= MaxAmount
      /\ Available(a) \in Int /\ Granted(a) \in Int
  BY SumsTyped, MaxAmountAssumption
<1>1. CASE actual = held /\ UNCHANGED entries
  BY <1>0, <1>1 DEF Available, Granted
<1>2. CASE actual > held /\ Post(a, "settle_debit", actual - held, <<"entry", k>>, r)
  <2> DEFINE n == actual - held
  <2>1. n \in 1 .. MaxAmount /\ -n = held - actual
    BY <1>0, <1>2
  <2> HIDE DEF n
  <2>2. Signed("settle_debit", n) = -n /\ GrantOf("settle_debit", n) = 0
    BY DEF Signed, GrantOf
  <2>3. "settle_debit" \in EntryTypes /\ Post(a, "settle_debit", n, <<"entry", k>>, r)
    BY <1>2 DEF EntryTypes, n
  <2>4. /\ Available(a)' = Available(a) + -n /\ Granted(a)' = Granted(a) + 0
        /\ \A b \in Accounts \ {a} : Available(b)' = Available(b) /\ Granted(b)' = Granted(b)
    BY <2>1, <2>2, <2>3, PostMoves
  <2> QED
    BY <1>0, <2>1, <2>4
<1>3. CASE actual < held /\ Post(a, "settle_credit", held - actual, <<"entry", k>>, r)
  <2> DEFINE n == held - actual
  <2>1. n \in 1 .. MaxAmount
    BY <1>0, <1>3
  <2> HIDE DEF n
  <2>2. Signed("settle_credit", n) = n /\ GrantOf("settle_credit", n) = 0
    BY DEF Signed, GrantOf
  <2>3. "settle_credit" \in EntryTypes /\ Post(a, "settle_credit", n, <<"entry", k>>, r)
    BY <1>3 DEF EntryTypes, n
  <2>4. /\ Available(a)' = Available(a) + n /\ Granted(a)' = Granted(a) + 0
        /\ \A b \in Accounts \ {a} : Available(b)' = Available(b) /\ Granted(b)' = Granted(b)
    BY <2>1, <2>2, <2>3, PostMoves
  <2> QED
    BY <1>0, <2>4 DEF n
<1> QED
  BY <1>1, <1>2, <1>3 DEF PostSettlement

\* A settlement consumes what was used, returns the rest of the hold, or takes more.
LEMMA SettleMoves ==
    ASSUME TypeOK, TypeOK', SettlementsOwned,
           NEW c \in Callers, NEW k \in Keys, NEW r \in Keys, NEW actual \in 0 .. MaxAmount,
           SettleReservationTx(c, k, r, actual),
           NEW a, NEW held, a = reservation[r].account, held = reservation[r].amount
    PROVE  /\ a \in Accounts
           /\ Moves(a, held - actual, -held, actual,
                    IF actual < held THEN held - actual ELSE 0, 0)
           /\ \A b \in Accounts \ {a} : Still(b)
<1>1. /\ a \in Accounts /\ held \in 1 .. MaxAmount /\ held \in Int /\ actual \in Int
      /\ IsOpen(r)
  BY ReservationFields, MaxAmountAssumption DEF SettleReservationTx, IsOpen
<1> DEFINE s == [reservation |-> r, key |-> k, actual |-> actual, delta |-> actual - held]
<1>2. /\ snapshot'[a] = Settled(snapshot[a], held, actual)
      /\ \A b \in Accounts \ {a} : snapshot'[b] = snapshot[b]
      /\ settlement' = settlement \cup {s} /\ SetStatus(r, "settled")
      /\ PostSettlement(a, k, r, held, actual)
  BY <1>1 DEF SettleReservationTx, TypeOK
<1>3. s \in Settlement /\ s \notin settlement
  BY <1>1 DEF SettleReservationTx, Settlement
<1>4. s.reservation = r /\ s.actual = actual /\ s.delta = actual - held
  OBVIOUS
<1> HIDE DEF s
<1>5. RefundOf(s) = IF actual < held THEN held - actual ELSE 0
  BY <1>1, <1>4 DEF RefundOf
<1>6. /\ Available(a)' = Available(a) + (held - actual) /\ Granted(a)' = Granted(a)
      /\ \A b \in Accounts \ {a} : Available(b)' = Available(b) /\ Granted(b)' = Granted(b)
  BY <1>1, <1>2, SettlementPosted
<1>7. /\ \A b \in Accounts : Reserved(b)' = Reserved(b) + IF b = a THEN -held ELSE 0
      /\ \A t \in settlement :
            reservation'[t.reservation].account = reservation[t.reservation].account
      /\ reservation'[r].account = reservation[r].account
  BY <1>1, <1>2, ClosingMoves
<1>8. \A t \in settlement' :
         reservation'[t.reservation].account = reservation[t.reservation].account
  BY <1>2, <1>4, <1>7
<1>9. /\ Consumed(a)' = Consumed(a) + actual /\ Refunded(a)' = Refunded(a) + RefundOf(s)
      /\ \A b \in Accounts \ {a} : Consumed(b)' = Consumed(b) /\ Refunded(b)' = Refunded(b)
  BY <1>2, <1>3, <1>4, <1>8, SettlementAdded
<1>10. \A b \in Accounts : Reserved(b) \in Int /\ Granted(b) \in Int
  BY SumsTyped
<1>11. \A b \in Accounts \ {a} : Still(b)
  BY <1>2, <1>6, <1>7, <1>9, <1>10 DEF Still, Unmoved
<1>12. Granted(a)' = Granted(a) + 0 /\ Reserved(a)' = Reserved(a) + -held
  BY <1>1, <1>6, <1>7, <1>10
<1> QED
  BY <1>1, <1>2, <1>5, <1>6, <1>9, <1>11, <1>12 DEF Moves, Settled

\* Settlements stay finitely many and never lose their reservation.
LEMMA OwnedStep == TypeOK /\ SettlementsOwned /\ [Next]_vars => SettlementsOwned'
<1> SUFFICES ASSUME TypeOK, SettlementsOwned, [Next]_vars PROVE SettlementsOwned'
  OBVIOUS
<1>0. settlement \subseteq Settlement
  BY DEF TypeOK
<1>1. CASE settlement' = settlement /\ \A r \in Keys : ReservationExists(r) => ReservationExists(r)'
  BY <1>0, <1>1 DEF SettlementsOwned, Settlement
<1>2. ASSUME NEW r \in Keys, NEW status \in {"released", "settled"}, IsOpen(r), SetStatus(r, status)
      PROVE  \A j \in Keys : ReservationExists(j) => ReservationExists(j)'
  <2>1. reservation[r] \in [account : Accounts, amount : 1 .. MaxAmount, status : Status]
    BY <1>2 DEF TypeOK, Reservation, NoReservation, IsOpen
  <2>2. reservation'[r].status = status /\ \A j \in Keys \ {r} : reservation'[j] = reservation[j]
    BY <1>2, <2>1 DEF SetStatus, TypeOK
  <2> QED
    BY <2>2 DEF ReservationExists
<1>3. ASSUME NEW c \in Callers, NEW k \in Keys, NEW a \in Accounts, NEW n \in 1 .. MaxAmount,
             CreateReservationTx(c, k, a, n)
      PROVE  SettlementsOwned'
  <2>1. \A r \in Keys : ReservationExists(r) => ReservationExists(r)'
    BY <1>3 DEF CreateReservationTx, ReservationExists, TypeOK
  <2> QED
    BY <1>1, <1>3, <2>1 DEF CreateReservationTx
<1>4. ASSUME NEW c \in Callers, NEW k \in Keys, NEW r \in Keys, ReleaseReservationTx(c, k, r)
      PROVE  SettlementsOwned'
  <2>1. settlement' = settlement /\ IsOpen(r) /\ SetStatus(r, "released")
    BY <1>4 DEF ReleaseReservationTx
  <2> QED
    BY <1>1, <1>2, <2>1
<1>5. ASSUME NEW c \in Callers, NEW k \in Keys, NEW r \in Keys, NEW actual \in 0 .. MaxAmount,
             SettleReservationTx(c, k, r, actual)
      PROVE  SettlementsOwned'
  <2>1. PICK s : s.reservation = r /\ settlement' = settlement \cup {s}
    BY <1>5 DEF SettleReservationTx
  <2>2. IsOpen(r) /\ SetStatus(r, "settled")
    BY <1>5 DEF SettleReservationTx
  <2>3. \A j \in Keys : ReservationExists(j) => ReservationExists(j)'
    BY <1>2, <2>2
  <2>4. ReservationExists(r)
    BY <2>2 DEF IsOpen, ReservationExists
  <2>5. IsFiniteSet(settlement')
    BY <2>1, FS_AddElement DEF SettlementsOwned
  <2> QED
    BY <1>0, <2>1, <2>3, <2>4, <2>5 DEF SettlementsOwned, Settlement
<1>6. CASE settlement' = settlement /\ reservation' = reservation
  BY <1>1, <1>6 DEF ReservationExists
<1> QED
  BY <1>3, <1>4, <1>5, <1>6
     DEF Next, vars, ledger, BeginCall, RollbackTx, CreditAccountTx, RecordAdjustmentTx

\* A step moves one account, whose snapshot and rows then move alike and which
\* has a new event pending, and leaves the others still.
AccountStep(a) ==
    \/ Still(a)
    \/ /\ \E available, reserved, consumed, refunded, granted \in Int :
             Moves(a, available, reserved, consumed, refunded, granted)
       /\ \E k \in Keys : /\ outbox[k].type = "none"
                          /\ IsPending(k)' /\ outbox'[k].account = a

\* Recording an event announces the account that the operation moves.
LEMMA RecordAnnounces ==
    ASSUME TypeOK, NEW k \in Keys, NEW type \in EventTypes, NEW a, Record(k, type, a)
    PROVE  outbox[k].type = "none" /\ IsPending(k)' /\ outbox'[k].account = a
BY DEF Record, OutboxFree, IsPending, TypeOK, EventTypes

\* Every operation moves the snapshot and the rows of an account alike.
LEMMA StepMoves ==
    ASSUME TypeOK, TypeOK', SettlementsOwned, [Next]_vars, NEW b \in Accounts
    PROVE  AccountStep(b)
<1>1. CASE /\ snapshot' = snapshot /\ reservation' = reservation
           /\ settlement' = settlement /\ entries' = entries
  BY <1>1 DEF AccountStep, Still, Unmoved, Available, Granted, Reserved, Consumed, Refunded,
              SettlementsOf, OpenOf, IsOpen
<1>2. ASSUME NEW c \in Callers, NEW k \in Keys, NEW a \in Accounts, NEW n \in 1 .. MaxAmount,
             CreditAccountTx(c, k, a, n)
      PROVE  AccountStep(b)
  <2>1. Moves(a, n, 0, 0, 0, n) /\ \A d \in Accounts \ {a} : Still(d)
    BY <1>2, TypeStep, CreditMoves
  <2>2. n \in Int /\ 0 \in Int
    BY MaxAmountAssumption
  <2>3. Record(k, "credit_granted", a) /\ "credit_granted" \in EventTypes
    BY <1>2 DEF CreditAccountTx, EventTypes
  <2> QED
    BY <2>1, <2>2, <2>3, RecordAnnounces DEF AccountStep
<1>3. ASSUME NEW c \in Callers, NEW k \in Keys, NEW a \in Accounts, NEW n \in 1 .. MaxAmount,
             CreateReservationTx(c, k, a, n)
      PROVE  AccountStep(b)
  <2>1. Moves(a, -n, n, 0, 0, 0) /\ \A d \in Accounts \ {a} : Still(d)
    BY <1>3, ReserveMoves
  <2>2. n \in Int /\ -n \in Int /\ 0 \in Int
    BY MaxAmountAssumption
  <2>3. Record(k, "reservation_created", a) /\ "reservation_created" \in EventTypes
    BY <1>3 DEF CreateReservationTx, EventTypes
  <2> QED
    BY <2>1, <2>2, <2>3, RecordAnnounces DEF AccountStep
<1>4. ASSUME NEW c \in Callers, NEW k \in Keys, NEW r \in Keys, ReleaseReservationTx(c, k, r)
      PROVE  AccountStep(b)
  <2> DEFINE a == reservation[r].account
             n == reservation[r].amount
  <2>1. /\ a \in Accounts /\ Moves(a, n, -n, 0, 0, 0)
        /\ \A d \in Accounts \ {a} : Still(d)
    <3>1. a = reservation[r].account /\ n = reservation[r].amount
      OBVIOUS
    <3> HIDE DEF a, n
    <3> QED
      BY <1>4, <3>1, ReleaseMoves
  <2>2. n \in Int /\ -n \in Int /\ 0 \in Int
    BY ReservationFields, MaxAmountAssumption
  <2>3. Record(k, "reservation_released", a) /\ "reservation_released" \in EventTypes
    BY <1>4 DEF ReleaseReservationTx, EventTypes
  <2> HIDE DEF a, n
  <2> QED
    BY <2>1, <2>2, <2>3, RecordAnnounces DEF AccountStep
<1>5. ASSUME NEW c \in Callers, NEW k \in Keys, NEW r \in Keys, NEW actual \in 0 .. MaxAmount,
             SettleReservationTx(c, k, r, actual)
      PROVE  AccountStep(b)
  <2> DEFINE a == reservation[r].account
             n == reservation[r].amount
             refund == IF actual < n THEN n - actual ELSE 0
  <2>1. /\ a \in Accounts /\ Moves(a, n - actual, -n, actual, refund, 0)
        /\ \A d \in Accounts \ {a} : Still(d)
    <3>1. a = reservation[r].account /\ n = reservation[r].amount
      OBVIOUS
    <3> HIDE DEF a, n
    <3> QED
      BY <1>5, <3>1, SettleMoves
  <2>2. n - actual \in Int /\ -n \in Int /\ actual \in Int /\ refund \in Int /\ 0 \in Int
    BY ReservationFields, MaxAmountAssumption
  <2>3. Record(k, "reservation_settled", a) /\ "reservation_settled" \in EventTypes
    BY <1>5 DEF SettleReservationTx, EventTypes
  <2> DEFINE left == n - actual
             freed == -n
  <2> HIDE DEF refund, left, freed
  <2>4. \E available, reserved, consumed, refunded, granted \in Int :
           Moves(a, available, reserved, consumed, refunded, granted)
    BY <2>1, <2>2 DEF left, freed
  <2> HIDE DEF a, n
  <2> QED
    BY <2>1, <2>3, <2>4, RecordAnnounces DEF AccountStep
<1> QED
  BY <1>1, <1>2, <1>3, <1>4, <1>5 DEF Next, vars, ledger, BeginCall, RollbackTx, RecordAdjustmentTx

\* The three queries fill every field of an empty snapshot.
AllQueried(a) ==
    ExpectedSnapshot(a) = [available |-> Available(a), reserved |-> Reserved(a),
                           consumed |-> Consumed(a), refunded |-> Refunded(a),
                           granted |-> Granted(a)]

\* A rebuilt snapshot has the sums of the queries in its fields.
LEMMA ExpectedFields == \A a : AllQueried(a)
<1> TAKE a
<1> DEFINE available == Available(a)
           granted == Granted(a)
           consumed == Consumed(a)
           refunded == Refunded(a)
           reserved == Reserved(a)
           p == [EmptySnapshot EXCEPT !.available = available]
           q == [p EXCEPT !.granted = granted]
           r == [q EXCEPT !.consumed = consumed]
           s == [r EXCEPT !.refunded = refunded]
           t == [s EXCEPT !.reserved = reserved]
<1>1. ExpectedSnapshot(a) = t
  BY DEF ExpectedSnapshot, OpenTotals, SettlementTotals, EntryTotals
<1> HIDE DEF t, available, granted, consumed, refunded, reserved
<1>2. p = [available |-> available, reserved |-> 0, consumed |-> 0, refunded |-> 0,
           granted |-> 0]
  BY DEF EmptySnapshot
<1> HIDE DEF p
<1>3. q = [available |-> available, reserved |-> 0, consumed |-> 0, refunded |-> 0,
           granted |-> granted]
  BY <1>2
<1> HIDE DEF q
<1>4. r = [available |-> available, reserved |-> 0, consumed |-> consumed, refunded |-> 0,
           granted |-> granted]
  BY <1>3
<1> HIDE DEF r
<1>5. s = [available |-> available, reserved |-> 0, consumed |-> consumed,
           refunded |-> refunded, granted |-> granted]
  BY <1>4
<1> HIDE DEF s
<1>6. t = [available |-> available, reserved |-> reserved, consumed |-> consumed,
           refunded |-> refunded, granted |-> granted]
  BY <1>5 DEF t
<1> QED
  BY <1>1, <1>6 DEF AllQueried, available, granted, consumed, refunded, reserved

\* So it has after a step.
LEMMA ExpectedFieldsNext == (\A a : AllQueried(a))'
BY ExpectedFields, PTL

\* A snapshot that was explained by the rows stays explained.
LEMMA ExplainedStep ==
    ASSUME NEW a \in Accounts, AccountStep(a), snapshot[a] = ExpectedSnapshot(a)
    PROVE  snapshot'[a] = ExpectedSnapshot(a)'
<1>1. AllQueried(a) /\ AllQueried(a)'
  BY ExpectedFields, ExpectedFieldsNext
<1>3. CASE Still(a)
  BY <1>1, <1>3 DEF AllQueried, Still, Unmoved
<1>4. ASSUME NEW available, NEW reserved, NEW consumed, NEW refunded, NEW granted,
             Moves(a, available, reserved, consumed, refunded, granted)
      PROVE  snapshot'[a] = ExpectedSnapshot(a)'
  BY <1>1, <1>4 DEF AllQueried, Moves, Moved
<1> QED
  BY <1>3, <1>4 DEF AccountStep

\* Without settlements, all of them have a reservation.
LEMMA OwnedInit == Init => SettlementsOwned
BY FS_EmptySet DEF Init, SettlementsOwned

\* At the start there are no rows, and the empty snapshot is what they say.
LEMMA ExplainedInit == Init => SnapshotRebuildable
<1> SUFFICES ASSUME Init, NEW a \in Accounts PROVE snapshot[a] = ExpectedSnapshot(a)
  BY DEF SnapshotRebuildable
<1>1. entries[a] = <<>> /\ snapshot[a] = EmptySnapshot
  BY DEF Init
<1>2. SettlementsOf(a) = {} /\ OpenOf(a) = {} /\ DOMAIN entries[a] = {}
  BY <1>1 DEF Init, SettlementsOf, OpenOf, IsOpen, NoReservation
<1>3. \A f : DOMAIN f = {} => SumFunction(f) = 0
  BY SumEmpty DEF SumFunction
<1>4. Available(a) = 0 /\ Granted(a) = 0
  BY <1>2, <1>3 DEF Available, Granted
<1>5. Consumed(a) = 0 /\ Refunded(a) = 0 /\ Reserved(a) = 0
  BY <1>2, <1>3 DEF Consumed, Refunded, Reserved
<1> QED
  BY <1>1, <1>4, <1>5, ExpectedFields DEF AllQueried, EmptySnapshot

\* The operations leave every snapshot what a rebuild would compute from the
\* entries, settlements and open reservations, in each of its five fields.
THEOREM SnapshotsExplained == Spec => []SnapshotRebuildable
<1>1. Init => TypeOK /\ SettlementsOwned /\ SnapshotRebuildable
  BY TypeInit, OwnedInit, ExplainedInit
<1>2. TypeOK /\ SettlementsOwned /\ SnapshotRebuildable /\ [Next]_vars
        => TypeOK' /\ SettlementsOwned' /\ SnapshotRebuildable'
  <2> SUFFICES ASSUME TypeOK, SettlementsOwned, SnapshotRebuildable, [Next]_vars
               PROVE  TypeOK' /\ SettlementsOwned' /\ SnapshotRebuildable'
    OBVIOUS
  <2>1. TypeOK' /\ SettlementsOwned'
    BY TypeStep, OwnedStep
  <2>2. \A a \in Accounts : snapshot'[a] = ExpectedSnapshot(a)'
    BY <2>1, StepMoves, ExplainedStep DEF SnapshotRebuildable
  <2> QED
    BY <2>1, <2>2 DEF SnapshotRebuildable
<1> QED
  BY <1>1, <1>2, PTL DEF Spec

-----------------------------------------------------------------------------
(* Rebuilds that race with operations *)

\* What the queries of a rebuild have read so far is what the rows say now.
RowCurrent(a) ==
    LET read == rebuild[a]
    IN  /\ read.stage = "settlements" => read.row = EntryTotals(EmptySnapshot, a)
        /\ read.stage = "reservations" =>
              read.row = SettlementTotals(EntryTotals(EmptySnapshot, a), a)
        /\ read.stage = "save" => read.row = ExpectedSnapshot(a)

\* The event a rebuild serves is a pending one of its account, and its row is current
\* unless an operation has announced another event of the account since.
RebuildSound(a) ==
    rebuild[a] # Idle =>
        LET job == rebuild[a].job
        IN  /\ job # Refresh => IsPending(job) /\ outbox[job].account = a
            /\ \/ \E k \in Keys : IsPending(k) /\ outbox[k].account = a
                                /\ (job = Refresh \/ k # job)
               \/ RowCurrent(a)

\* The same for the rebuilds of all accounts.
RebuildsSound == \A a \in Accounts : RebuildSound(a)

\* The queries of a rebuild keep its row typed.
LEMMA QueriesTyped ==
    ASSUME TypeOK, SettlementsOwned, NEW a \in Accounts, NEW row \in Snapshot
    PROVE  /\ EntryTotals(row, a) \in Snapshot
           /\ SettlementTotals(row, a) \in Snapshot
           /\ OpenTotals(row, a) \in Snapshot
<1> DEFINE available == Available(a)
           reserved == Reserved(a)
           consumed == Consumed(a)
           refunded == Refunded(a)
           granted == Granted(a)
<1>1. /\ available \in Int /\ reserved \in Int /\ consumed \in Int
      /\ refunded \in Int /\ granted \in Int
  BY SumsTyped
<1>2. /\ EntryTotals(row, a) = [row EXCEPT !.available = available, !.granted = granted]
      /\ SettlementTotals(row, a) = [row EXCEPT !.consumed = consumed, !.refunded = refunded]
      /\ OpenTotals(row, a) = [row EXCEPT !.reserved = reserved]
  BY DEF EntryTotals, SettlementTotals, OpenTotals
<1> HIDE DEF available, reserved, consumed, refunded, granted
<1> QED
  BY <1>1, <1>2 DEF Snapshot

\* Queries of rows that did not move read what they read before.
LEMMA QueriesUnmoved ==
    ASSUME NEW a, Unmoved(a)
    PROVE  /\ EntryTotals(EmptySnapshot, a)' = EntryTotals(EmptySnapshot, a)
           /\ SettlementTotals(EntryTotals(EmptySnapshot, a), a)'
                = SettlementTotals(EntryTotals(EmptySnapshot, a), a)
           /\ ExpectedSnapshot(a)' = ExpectedSnapshot(a)
<1> DEFINE e == EntryTotals(EmptySnapshot, a)
           s == SettlementTotals(e, a)
<1>1. e' = e
  BY DEF Unmoved, EntryTotals, EmptySnapshot
<1> HIDE DEF e
<1>2. s' = s
  BY <1>1 DEF Unmoved, SettlementTotals
<1>3. OpenTotals(s, a)' = OpenTotals(s, a)
  <2> HIDE DEF s
  <2> QED
    BY <1>2 DEF Unmoved, OpenTotals
<1> QED
  BY <1>1, <1>2, <1>3 DEF ExpectedSnapshot, e

\* Everything the proof keeps of a state of ledger and worker.
WorkerSound ==
    /\ WorkerTypeOK
    /\ SettlementsOwned
    /\ RebuildsSound
    /\ QuietSnapshotIsExpected

\* A rebuild of an account that stays still is as sound as before.
LEMMA RebuildKept ==
    ASSUME NEW a \in Accounts, RebuildSound(a), Unmoved(a), rebuild'[a] = rebuild[a],
           \A k \in Keys : outbox[k].type # "none" /\ outbox[k].account = a
                             => outbox'[k] = outbox[k],
           TypeOK, WorkerTypeOK
    PROVE  RebuildSound(a)'
<1> SUFFICES ASSUME rebuild[a] # Idle PROVE RebuildSound(a)'
  BY DEF RebuildSound
<1>1. RowCurrent(a) => RowCurrent(a)'
  BY QueriesUnmoved DEF RowCurrent
<1>2. rebuild[a].job # Refresh => rebuild[a].job \in Keys
  BY DEF WorkerTypeOK, Rebuild
<1>3. \A k \in Keys : IsPending(k) /\ outbox[k].account = a =>
                         IsPending(k)' /\ outbox'[k].account = a
  BY DEF IsPending
<1> QED
  BY <1>1, <1>2, <1>3 DEF RebuildSound

\* An operation that commits meanwhile announces an event that the rebuild does
\* not serve.
LEMMA RebuildOvertaken ==
    ASSUME NEW a \in Accounts, RebuildSound(a), rebuild'[a] = rebuild[a],
           \A k \in Keys : outbox[k].type # "none" => outbox'[k] = outbox[k],
           WorkerTypeOK,
           \E k \in Keys : /\ outbox[k].type = "none"
                           /\ IsPending(k)' /\ outbox'[k].account = a
    PROVE  RebuildSound(a)'
<1> SUFFICES ASSUME rebuild[a] # Idle PROVE RebuildSound(a)'
  BY DEF RebuildSound
<1>1. PICK k \in Keys : outbox[k].type = "none" /\ IsPending(k)' /\ outbox'[k].account = a
  OBVIOUS
<1>2. rebuild[a].job # Refresh =>
         /\ rebuild[a].job \in Keys /\ rebuild[a].job # k
         /\ outbox'[rebuild[a].job] = outbox[rebuild[a].job]
         /\ IsPending(rebuild[a].job) /\ outbox[rebuild[a].job].account = a
  BY <1>1 DEF WorkerTypeOK, Rebuild, RebuildSound, IsPending
<1>3. rebuild[a].job # Refresh => IsPending(rebuild[a].job)' /\ outbox'[rebuild[a].job].account = a
  BY <1>2 DEF IsPending
<1> QED
  BY <1>1, <1>2, <1>3 DEF RebuildSound

\* No operation changes an event that has been recorded.
LEMMA EventsKept ==
    ASSUME TypeOK, [Next]_vars
    PROVE  \A k \in Keys : outbox[k].type # "none" => outbox'[k] = outbox[k]
<1>1. ASSUME NEW k \in Keys, NEW type, NEW a, Record(k, type, a)
      PROVE  \A j \in Keys : outbox[j].type # "none" => outbox'[j] = outbox[j]
  BY <1>1 DEF Record, OutboxFree, TypeOK
<1>2. CASE outbox' = outbox
  BY <1>2
<1>3. ASSUME NEW c \in Callers, NEW request \in Calls, BeginCall(c, request)
      PROVE  outbox' = outbox
  BY <1>3 DEF BeginCall, ledger
<1>4. ASSUME NEW c \in Callers, RollbackTx(c)
      PROVE  outbox' = outbox
  BY <1>4 DEF RollbackTx, ledger
<1>5. ASSUME NEW c \in Callers, NEW k \in Keys, NEW a, NEW n,
             CreditAccountTx(c, k, a, n) \/ CreateReservationTx(c, k, a, n)
      PROVE  \E type : Record(k, type, a)
  BY <1>5 DEF CreditAccountTx, CreateReservationTx
<1>6. ASSUME NEW c \in Callers, NEW k \in Keys, NEW r, ReleaseReservationTx(c, k, r)
      PROVE  \E type, a : Record(k, type, a)
  BY <1>6 DEF ReleaseReservationTx
<1>7. ASSUME NEW c \in Callers, NEW k \in Keys, NEW r, NEW n, SettleReservationTx(c, k, r, n)
      PROVE  \E type, a : Record(k, type, a)
  BY <1>7 DEF SettleReservationTx
<1>8. ASSUME NEW c \in Callers, NEW k \in Keys, NEW a, RecordAdjustmentTx(c, k, a)
      PROVE  \E type : Record(k, type, a)
  BY <1>8 DEF RecordAdjustmentTx
<1>9. CASE UNCHANGED vars
  BY <1>9 DEF vars, ledger
<1> QED
  BY <1>1, <1>2, <1>3, <1>4, <1>5, <1>6, <1>7, <1>8, <1>9 DEF Next

\* An operation that moves an account while it is quiet makes it unquiet.
LEMMA OperationSound ==
    ASSUME WorkerSound, [Next]_vars, rebuild' = rebuild
    PROVE  WorkerSound'
<1> USE DEF WorkerSound
<1>1. TypeOK /\ TypeOK' /\ SettlementsOwned' /\ WorkerTypeOK'
  BY TypeStep, OwnedStep DEF WorkerTypeOK
<1>2. \A a \in Accounts : AccountStep(a)
  BY <1>1, StepMoves
<1>3. \A k \in Keys : outbox[k].type # "none" => outbox'[k] = outbox[k]
  BY <1>1, EventsKept
<1>4. ASSUME NEW a \in Accounts PROVE RebuildSound(a)'
  <2>1. RebuildSound(a) /\ rebuild'[a] = rebuild[a]
    BY DEF RebuildsSound
  <2>2. CASE Still(a)
    BY <1>1, <1>3, <2>1, <2>2, RebuildKept DEF Still
  <2>3. CASE ~Still(a)
    <3>1. \E k \in Keys : outbox[k].type = "none" /\ IsPending(k)' /\ outbox'[k].account = a
      BY <1>2, <2>3 DEF AccountStep
    <3> QED
      BY <1>3, <2>1, <3>1, RebuildOvertaken
  <2> QED
    BY <2>2, <2>3
<1>5. ASSUME NEW a \in Accounts, ~HasPending(a)'
      PROVE  snapshot'[a] = ExpectedSnapshot(a)'
  <2>1. ~HasPending(a)
    BY <1>3, <1>5 DEF HasPending, IsPending
  <2>2. snapshot[a] = ExpectedSnapshot(a)
    BY <2>1 DEF QuietSnapshotIsExpected
  <2> QED
    BY <1>2, <2>2, ExplainedStep
<1> QED
  BY <1>1, <1>4, <1>5 DEF RebuildsSound, QuietSnapshotIsExpected

\* While a rebuild only reads, or fails, rows, snapshot and events are the same.
LEMMA RowsSame ==
    ASSUME UNCHANGED vars, NEW a
    PROVE  /\ Still(a) /\ snapshot' = snapshot /\ outbox' = outbox
           /\ TypeOK => TypeOK'
           /\ SettlementsOwned => SettlementsOwned'
BY DEF vars, ledger, Still, Unmoved, Available, Granted, Reserved, Consumed, Refunded,
       SettlementsOf, OpenOf, IsOpen, TypeOK, SettlementsOwned, ReservationExists

\* A step of one rebuild that only reads leaves the invariant to its own row.
LEMMA ReadSound ==
    ASSUME WorkerSound, UNCHANGED vars, NEW a \in Accounts, NEW row \in Rebuild \cup {Idle},
           rebuild' = [rebuild EXCEPT ![a] = row], RebuildSound(a)'
    PROVE  WorkerSound'
<1> USE DEF WorkerSound
<1>1. WorkerTypeOK' /\ SettlementsOwned'
  <2>1. TypeOK' /\ SettlementsOwned'
    BY RowsSame DEF WorkerTypeOK
  <2> QED
    BY <2>1 DEF WorkerTypeOK
<1>2. ASSUME NEW b \in Accounts PROVE RebuildSound(b)'
  <2>1. CASE b # a
    <3>1. RebuildSound(b) /\ rebuild'[b] = rebuild[b]
      BY <2>1 DEF RebuildsSound, WorkerTypeOK
    <3>2. Unmoved(b) /\ outbox' = outbox
      BY RowsSame DEF Still
    <3> QED
      BY <3>1, <3>2, RebuildKept DEF WorkerTypeOK
  <2> QED
    BY <2>1
<1>3. ASSUME NEW b \in Accounts, ~HasPending(b)'
      PROVE  snapshot'[b] = ExpectedSnapshot(b)'
  <2>1. Still(b) /\ snapshot' = snapshot /\ outbox' = outbox
    BY RowsSame
  <2>2. ~HasPending(b)
    BY <1>3, <2>1 DEF HasPending, IsPending
  <2>3. snapshot[b] = ExpectedSnapshot(b)
    BY <2>2 DEF QuietSnapshotIsExpected
  <2> QED
    BY <2>1, <2>3, QueriesUnmoved DEF Still
<1> QED
  BY <1>1, <1>2, <1>3 DEF RebuildsSound, QuietSnapshotIsExpected

\* A rebuild that begins, reads or fails.
LEMMA RebuildingSound ==
    ASSUME WorkerSound, NEW a \in Accounts,
           \/ \E job \in Keys \cup {Refresh} : BeginRebuild(a, job)
           \/ ReadSettlements(a) \/ ReadReservations(a) \/ FailRebuild(a)
    PROVE  WorkerSound'
<1> USE DEF WorkerSound
<1>0. /\ UNCHANGED vars /\ rebuild \in [Accounts -> Rebuild \cup {Idle}]
      /\ TypeOK /\ RebuildSound(a) /\ EmptySnapshot \in Snapshot
  BY EmptyRowsTyped DEF BeginRebuild, ReadSettlements, ReadReservations, FailRebuild, WorkerTypeOK,
                        RebuildsSound
<1>1. Unmoved(a) /\ outbox' = outbox /\ \A k \in Keys : IsPending(k)' = IsPending(k)
  BY <1>0, RowsSame DEF Still, IsPending
<1>2. CASE FailRebuild(a)
  <2>1. rebuild' = [rebuild EXCEPT ![a] = Idle] /\ rebuild'[a] = Idle
    BY <1>0, <1>2 DEF FailRebuild
  <2> QED
    BY <1>0, <2>1, ReadSound DEF RebuildSound
<1>3. ASSUME NEW job \in Keys \cup {Refresh}, BeginRebuild(a, job) PROVE WorkerSound'
  <2> DEFINE row == [job |-> job, stage |-> "settlements", row |-> EntryTotals(EmptySnapshot, a)]
  <2>1. row \in Rebuild
    BY <1>0, QueriesTyped DEF Rebuild
  <2>2. rebuild' = [rebuild EXCEPT ![a] = row] /\ rebuild'[a] = row
    BY <1>0, <1>3 DEF BeginRebuild
  <2>3. row.job = job /\ row.stage = "settlements" /\ row.row = EntryTotals(EmptySnapshot, a)
    OBVIOUS
  <2> HIDE DEF row
  <2>4. RowCurrent(a)'
    BY <1>1, <2>2, <2>3, QueriesUnmoved DEF RowCurrent
  <2>5. job # Refresh => IsPending(job)' /\ outbox'[job].account = a
    BY <1>1, <1>3 DEF BeginRebuild
  <2>6. RebuildSound(a)'
    BY <2>2, <2>3, <2>4, <2>5 DEF RebuildSound
  <2> QED
    BY <1>0, <2>1, <2>2, <2>6, ReadSound
<1>4. ASSUME NEW row \in Rebuild, rebuild[a] # Idle, row.job = rebuild[a].job,
             row.stage \in {"reservations", "save"},
             rebuild' = [rebuild EXCEPT ![a] = row],
             RowCurrent(a) => row.row = IF row.stage = "save" THEN ExpectedSnapshot(a)
                                        ELSE SettlementTotals(EntryTotals(EmptySnapshot, a), a)
      PROVE  WorkerSound'
  <2>1. rebuild'[a] = row
    BY <1>0, <1>4
  <2>2. RowCurrent(a) => RowCurrent(a)'
    BY <1>1, <1>4, <2>1, QueriesUnmoved DEF RowCurrent
  <2>3. row.job # Refresh => row.job \in Keys
    BY DEF Rebuild
  <2>4. /\ row.job # Refresh => IsPending(row.job)' /\ outbox'[row.job].account = a
        /\ \/ \E k \in Keys : /\ IsPending(k)' /\ outbox'[k].account = a
                              /\ row.job = Refresh \/ k # row.job
           \/ RowCurrent(a)'
    BY <1>0, <1>1, <1>4, <2>2, <2>3 DEF RebuildSound
  <2>5. RebuildSound(a)'
    BY <2>1, <2>4 DEF RebuildSound
  <2> QED
    BY <1>0, <1>4, <2>5, ReadSound
<1>5. CASE ReadSettlements(a)
  <2> DEFINE row == [rebuild[a] EXCEPT !.stage = "reservations", !.row = SettlementTotals(rebuild[a].row, a)]
             read == SettlementTotals(rebuild[a].row, a)
  <2>1. rebuild[a] # Idle /\ rebuild[a] \in Rebuild /\ rebuild[a].stage = "settlements"
    BY <1>0, <1>5 DEF ReadSettlements
  <2>2. read \in Snapshot
    BY <1>0, <2>1, QueriesTyped DEF Rebuild
  <2>3. RowCurrent(a) => read = SettlementTotals(EntryTotals(EmptySnapshot, a), a)
    BY <2>1 DEF RowCurrent
  <2>4. rebuild' = [rebuild EXCEPT ![a] = row]
    BY <1>5 DEF ReadSettlements
  <2>5. row = [rebuild[a] EXCEPT !.stage = "reservations", !.row = read]
    BY <2>1 DEF Rebuild
  <2> HIDE DEF read, row
  <2>6. /\ row \in Rebuild /\ row.job = rebuild[a].job
        /\ row.stage = "reservations" /\ row.row = read
    BY <2>1, <2>2, <2>5 DEF Rebuild
  <2> QED
    BY <1>4, <2>1, <2>3, <2>4, <2>6
<1>6. CASE ReadReservations(a)
  <2> DEFINE row == [rebuild[a] EXCEPT !.stage = "save", !.row = OpenTotals(rebuild[a].row, a)]
             read == OpenTotals(rebuild[a].row, a)
  <2>1. rebuild[a] # Idle /\ rebuild[a] \in Rebuild /\ rebuild[a].stage = "reservations"
    BY <1>0, <1>6 DEF ReadReservations
  <2>2. read \in Snapshot
    BY <1>0, <2>1, QueriesTyped DEF Rebuild
  <2>3. RowCurrent(a) => read = ExpectedSnapshot(a)
    BY <2>1 DEF RowCurrent, ExpectedSnapshot
  <2>4. rebuild' = [rebuild EXCEPT ![a] = row]
    BY <1>6 DEF ReadReservations
  <2>5. row = [rebuild[a] EXCEPT !.stage = "save", !.row = read]
    BY <2>1 DEF Rebuild
  <2> HIDE DEF read, row
  <2>6. /\ row \in Rebuild /\ row.job = rebuild[a].job
        /\ row.stage = "save" /\ row.row = read
    BY <2>1, <2>2, <2>5 DEF Rebuild
  <2> QED
    BY <1>4, <2>1, <2>3, <2>4, <2>6
<1> QED
  BY <1>2, <1>3, <1>5, <1>6

\* A rebuild that saves a row that operations have overtaken leaves their event
\* pending; the row that it publishes as settled is current.
LEMMA SaveSound ==
    ASSUME WorkerSound, NEW a \in Accounts, SaveSnapshot(a)
    PROVE  WorkerSound'
<1> USE DEF WorkerSound
<1> DEFINE job == rebuild[a].job
           row == rebuild[a].row
<1>1. /\ rebuild[a] \in Rebuild /\ rebuild[a] # Idle /\ rebuild[a].stage = "save"
      /\ row \in Snapshot /\ (job # Refresh => job \in Keys)
      /\ TypeOK /\ RebuildSound(a)
  BY DEF SaveSnapshot, WorkerTypeOK, Rebuild, RebuildsSound
<1>2. /\ snapshot' = [snapshot EXCEPT ![a] = row]
      /\ Publish(a, job)
      /\ rebuild' = [rebuild EXCEPT ![a] = Idle]
      /\ UNCHANGED <<reservation, settlement, entries, audit, call>>
  BY DEF SaveSnapshot
<1>3. job # Refresh => IsPending(job) /\ outbox[job].account = a
  BY <1>1 DEF RebuildSound
<1>4. \/ \E k \in Keys : IsPending(k) /\ outbox[k].account = a /\ (job = Refresh \/ k # job)
      \/ row = ExpectedSnapshot(a)
  BY <1>1 DEF RebuildSound, RowCurrent
<1> HIDE DEF job, row
<1>5. \A k \in Keys : job = Refresh \/ k # job => outbox'[k] = outbox[k]
  BY <1>1, <1>2 DEF Publish, TypeOK
<1>6. outbox' \in [Keys -> Event]
  BY <1>1, <1>2 DEF Publish, TypeOK, Event
<1>7. TypeOK' /\ WorkerTypeOK' /\ SettlementsOwned'
  BY <1>1, <1>2, <1>6 DEF TypeOK, WorkerTypeOK, SettlementsOwned, ReservationExists
<1>8. ASSUME NEW b \in Accounts PROVE Unmoved(b)
  BY <1>2 DEF Unmoved, Available, Granted, Reserved, Consumed, Refunded, SettlementsOf, OpenOf, IsOpen
<1>9. ASSUME NEW b \in Accounts PROVE RebuildSound(b)'
  <2>1. CASE b = a
    BY <1>2, <2>1 DEF RebuildSound, WorkerTypeOK
  <2>2. CASE b # a
    <3>1. RebuildSound(b) /\ rebuild'[b] = rebuild[b]
      BY <1>2, <2>2 DEF RebuildsSound, WorkerTypeOK
    <3>2. \A k \in Keys : outbox[k].type # "none" /\ outbox[k].account = b => outbox'[k] = outbox[k]
      BY <1>3, <1>5, <2>2
    <3> QED
      BY <1>1, <1>8, <3>1, <3>2, RebuildKept
  <2> QED
    BY <2>1, <2>2
<1>10. ASSUME NEW b \in Accounts, ~HasPending(b)'
       PROVE  snapshot'[b] = ExpectedSnapshot(b)'
  <2>1. ExpectedSnapshot(b)' = ExpectedSnapshot(b)
    BY <1>8, QueriesUnmoved
  <2>2. CASE b = a
    <3>1. row = ExpectedSnapshot(a)
      BY <1>4, <1>5, <1>10, <2>2 DEF HasPending, IsPending
    <3> QED
      BY <1>1, <1>2, <2>1, <2>2, <3>1 DEF TypeOK
  <2>3. CASE b # a
    <3>1. ~HasPending(b)
      BY <1>3, <1>5, <1>10, <2>3 DEF HasPending, IsPending
    <3>2. snapshot'[b] = snapshot[b]
      BY <1>1, <1>2, <2>3 DEF TypeOK
    <3> QED
      BY <2>1, <3>1, <3>2 DEF QuietSnapshotIsExpected
  <2> QED
    BY <2>2, <2>3
<1> QED
  BY <1>7, <1>9, <1>10 DEF RebuildsSound, QuietSnapshotIsExpected

\* No account has moved, and no rebuild is under way.
LEMMA WorkerSoundInit == WorkerInit => WorkerSound
<1> SUFFICES ASSUME WorkerInit PROVE WorkerSound
  OBVIOUS
<1>1. Init /\ rebuild = [a \in Accounts |-> Idle]
  BY DEF WorkerInit
<1>2. TypeOK /\ SettlementsOwned /\ SnapshotRebuildable
  BY <1>1, TypeInit, OwnedInit, ExplainedInit
<1> QED
  BY <1>1, <1>2 DEF WorkerSound, WorkerTypeOK, RebuildsSound, RebuildSound, QuietSnapshotIsExpected,
                    SnapshotRebuildable

\* However rebuilds and operations race, an account whose snapshot is not what
\* its rows say has a pending event, for which a batch will rebuild it again.
THEOREM WorkerSafe == WorkerSafety => []WorkerInv
<1>1. WorkerInit => WorkerSound
  BY WorkerSoundInit
<1>2. WorkerSound /\ [WorkerNext]_workerVars => WorkerSound'
  <2> SUFFICES ASSUME WorkerSound, [WorkerNext]_workerVars PROVE WorkerSound'
    OBVIOUS
  <2>1. CASE LedgerStep \/ UNCHANGED workerVars
    <3>1. [Next]_vars /\ rebuild' = rebuild
      BY <2>1 DEF LedgerStep, workerVars
    <3> QED
      BY <3>1, OperationSound
  <2>2. ASSUME NEW a \in Accounts,
               \/ \E job \in Keys \cup {Refresh} : BeginRebuild(a, job)
               \/ ReadSettlements(a) \/ ReadReservations(a) \/ FailRebuild(a)
        PROVE  WorkerSound'
    BY <2>2, RebuildingSound
  <2>3. ASSUME NEW a \in Accounts, SaveSnapshot(a) PROVE WorkerSound'
    BY <2>3, SaveSound
  <2> QED
    BY <2>1, <2>2, <2>3 DEF WorkerNext
<1>3. WorkerSound => WorkerInv
  BY DEF WorkerSound, WorkerInv
<1> QED
  BY <1>1, <1>2, <1>3, PTL DEF WorkerSafety
=============================================================================
