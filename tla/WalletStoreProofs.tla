------------------------- MODULE WalletStoreProofs --------------------------
(***************************************************************************)
(* Proofs about WalletStore, for all callers, processes, orders, requests  *)
(* and amounts, and any number of calls and faults: first balances and     *)
(* orders enter once, allocations implement Attribution, and calls that do *)
(* not overlap leave exact balances and draw in full on the oldest lots.   *)
(***************************************************************************)
EXTENDS WalletStore, SumTheorems

-----------------------------------------------------------------------------
(* The inductive invariant: rows, and the first balance of the ledger *)

\* The places of AdjustWalletQuota and SetWalletQuota.
Adjusting == {"read", "ensure", "bootstrap", "compare", "align", "apply", "project", "undo"}

\* The places of CompleteTopUpByTradeNo.
ToppingUp == {"order", "save", "balance", "snapshot", "credit"}

\* The places of an attribution to lots.
Attributing == {"lots", "allocate"}

\* What every call knows of its own kind.
Formed(k) ==
    /\ k.at = "setRead" => k.target \in Targets
    /\ k.at \in Adjusting => k.delta # 0
    /\ k.at \in ToppingUp => k.subject \in Orders
    /\ k.at \in Attributing => k.subject \in Requests

\* The same of every call under way.
CallsFormed == \A c \in Callers : Formed(call[c])

\* Until the ledger account has moved, it is empty and the column is untouched.
Pristine ==
    ~account.used => account.available = 0 /\ account.boot = 0 /\ quota = InitialQuota

\* A call that may bring the first balance has read the one there was.
FirstBalance(k, used) ==
    /\ k.at = "ensure" /\ ~used => k.seen \in {0, InitialQuota}
    /\ k.at = "bootstrap" => k.seen = InitialQuota
    /\ k.at \in {"project", "undo"} => used
    /\ k.at = "snapshot" /\ ~used => k.seen = InitialQuota
    /\ k.at = "credit" => k.boot \in {0, InitialQuota}

\* The same of every call under way.
FirstBalances == \A c \in Callers : FirstBalance(call[c], account.used)

\* The rows of orders, lots and allocations.
RowsTyped ==
    /\ granted \in [Orders -> Nat]
    /\ lots \in Seq(Lot)
    /\ \A i \in DOMAIN lots : lots[i].remaining \in 0 .. lots[i].original
    /\ drawn \subseteq [request : Requests, lot : Nat, amount : Nat \ {0}]
    /\ paid \subseteq Orders

\* The invariant of the first balance.
BaseInv == TypeOK /\ CallsFormed /\ Pristine /\ BootstrapOnce /\ FirstBalances

-----------------------------------------------------------------------------
(* One call moves *)

\* A caller between calls.
LEMMA NoCallFormed ==
    NoCall \in Call /\ NoCall.at = "idle" /\ NoCall.subject = "none" /\ NoCall.target = NoTarget
BY DEF NoCall, Call, Places, NoTarget

\* The row of a caller, and its parts.
LEMMA CallTyped ==
    ASSUME TypeOK, NEW c \in Callers
    PROVE  /\ call[c] \in Call
           /\ call[c].delta \in Int /\ call[c].seen \in Int /\ call[c].diff \in Int
           /\ call[c].boot \in Nat /\ call[c].known \in Nat /\ call[c].missing \in Nat
           /\ call[c].fresh \in BOOLEAN
           /\ call[c].target \in Targets \cup {NoTarget}
BY DEF TypeOK, Call

\* The balances of a typed state, which the steps compute with.
LEMMA AccountTyped ==
    ASSUME TypeOK
    PROVE  /\ account.available \in Int /\ account.boot \in Nat
           /\ account.used \in BOOLEAN /\ account.exists \in BOOLEAN
           /\ quota \in Int /\ due \in Int /\ InitialQuota \in Nat
BY WalletAssumption DEF TypeOK, Account

\* The row of one caller is replaced; the others keep theirs.
LEMMA OneMoves ==
    ASSUME TypeOK, NEW c \in Callers, NEW k, Update(c, k)
    PROVE  call'[c] = k /\ \A d \in Callers \ {c} : call'[d] = call[d]
BY DEF TypeOK, Update

\* A step of one call, whatever rows it moves.
LEMMA RowsMove ==
    ASSUME BaseInv, NEW c \in Callers, NEW k \in Call, Update(c, k),
           RowsTyped', account' \in Account, quota' \in Int, due' \in Int,
           calls' \in Nat, faults' \in Nat, apart' \in BOOLEAN,
           Formed(k), FirstBalance(k, account'.used), account.used => account'.used,
           Pristine', BootstrapOnce'
    PROVE  BaseInv'
<1>1. call' \in [Callers -> Call]
  BY DEF BaseInv, TypeOK, Update
<1>2. TypeOK'
  BY <1>1 DEF TypeOK, RowsTyped
<1>3. call'[c] = k /\ \A d \in Callers \ {c} : call'[d] = call[d]
  BY OneMoves DEF BaseInv
<1>4. CallsFormed'
  BY <1>3 DEF BaseInv, CallsFormed
<1>5. ASSUME NEW d \in Callers PROVE FirstBalance(call'[d], account'.used)
  <2>1. CASE d = c
    BY <1>3, <2>1
  <2>2. CASE d # c
    <3>1. FirstBalance(call[d], account.used) /\ call'[d] = call[d]
      BY <1>3, <2>2 DEF BaseInv, FirstBalances
    <3> QED
      BY <3>1 DEF FirstBalance
  <2> QED
    BY <2>1, <2>2
<1> QED
  BY <1>2, <1>4, <1>5 DEF BaseInv, FirstBalances

\* A step of one call that moves the account or the column.
LEMMA MoneyMoves ==
    ASSUME BaseInv, NEW c \in Callers, NEW k \in Call, Update(c, k),
           UNCHANGED <<granted, lots, drawn, paid>>,
           account' \in Account, quota' \in Int, due' \in Int,
           calls' \in Nat, faults' \in Nat, apart' \in BOOLEAN,
           Formed(k), FirstBalance(k, account'.used), account.used => account'.used,
           Pristine', BootstrapOnce'
    PROVE  BaseInv'
<1>1. RowsTyped'
  BY DEF BaseInv, TypeOK, RowsTyped
<1> QED
  BY <1>1, RowsMove

\* A step of one call that moves neither.
LEMMA CallMoves ==
    ASSUME BaseInv, NEW c \in Callers, NEW k \in Call, Update(c, k),
           UNCHANGED wallet, due' \in Int, calls' \in Nat, faults' \in Nat, apart' \in BOOLEAN,
           Formed(k), FirstBalance(k, account.used)
    PROVE  BaseInv'
<1>1. account' = account /\ quota' = quota /\ UNCHANGED <<granted, lots, drawn, paid>>
  BY DEF wallet
<1>2. account' \in Account /\ quota' \in Int /\ Pristine' /\ BootstrapOnce'
  BY <1>1 DEF BaseInv, TypeOK, Pristine, BootstrapOnce
<1> QED
  BY <1>1, <1>2, MoneyMoves

\* A call ends.
LEMMA EndMoves ==
    ASSUME BaseInv, NEW c \in Callers, End(c),
           UNCHANGED wallet, due' \in Int, calls' \in Nat, faults' \in Nat, apart' \in BOOLEAN
    PROVE  BaseInv'
<1>1. Formed(NoCall) /\ FirstBalance(NoCall, account.used)
  BY NoCallFormed DEF Formed, FirstBalance, Adjusting, ToppingUp, Attributing
<1> QED
  BY <1>1, NoCallFormed, CallMoves DEF End

\* A charge keeps the account typed, and an account that has moved stays moved.
LEMMA ChargedTyped ==
    ASSUME NEW a \in Account, NEW n \in Int
    PROVE  /\ Charged(a, n) \in Account
           /\ Charged(a, n).available = a.available - n
           /\ Charged(a, n).boot = a.boot /\ Charged(a, n).exists = a.exists
           /\ Charged(a, n).used <=> (a.used \/ n # 0)
<1> DEFINE m == a.available - n
           u == a.used \/ n # 0
<1>1. Charged(a, n) = [a EXCEPT !.available = m, !.used = u]
  BY DEF Charged
<1>2. m \in Int /\ u \in BOOLEAN
  BY DEF Account
<1> HIDE DEF m, u
<1>3. /\ Charged(a, n) \in Account
      /\ Charged(a, n).available = m
      /\ Charged(a, n).boot = a.boot /\ Charged(a, n).exists = a.exists
      /\ Charged(a, n).used = u
  BY <1>1, <1>2 DEF Account
<1> QED
  BY <1>3 DEF m, u

\* The ledger is charged or refuses, and the call goes on or ends.
LEMMA LedgerMoves ==
    ASSUME BaseInv, NEW c \in Callers, NEW n \in Int, NEW k \in Call,
           account' = Charged(account, n), Update(c, k), Formed(k),
           FirstBalance(k, account.used \/ n # 0),
           UNCHANGED <<quota, granted, lots, drawn, paid, due, history>>, faults' \in Nat
    PROVE  BaseInv'
<1>1. account \in Account /\ account.available \in Int
  BY AccountTyped DEF BaseInv, TypeOK
<1>2. /\ account' \in Account /\ account'.available = account.available - n
      /\ account'.boot = account.boot
      /\ account'.used <=> (account.used \/ n # 0)
  BY <1>1, ChargedTyped
<1>3. FirstBalance(k, account'.used)
  BY <1>2 DEF FirstBalance
<1>4. Pristine' /\ BootstrapOnce'
  BY <1>1, <1>2 DEF BaseInv, Pristine, BootstrapOnce
<1>5. quota' \in Int /\ due' \in Int /\ calls' \in Nat /\ apart' \in BOOLEAN
  BY DEF BaseInv, TypeOK, history
<1> QED
  BY <1>2, <1>3, <1>4, <1>5, MoneyMoves

-----------------------------------------------------------------------------
(* Adjusting and setting *)

\* A call begins with a row of its own.
LEMMA BeginMoves ==
    ASSUME BaseInv, NEW c \in Callers, NEW k \in Call, Begin(c, k),
           UNCHANGED <<wallet, faults, due>>, Formed(k), FirstBalance(k, account.used)
    PROVE  BaseInv'
<1>1. Update(c, k) /\ calls' = calls + 1 /\ apart' \in BOOLEAN
  BY DEF Begin, BaseInv, TypeOK
<1>2. calls' \in Nat /\ faults' \in Nat /\ due' \in Int
  BY <1>1 DEF BaseInv, TypeOK
<1> QED
  BY <1>1, <1>2, CallMoves

\* A call that starts has read nothing.
LEMMA StartBase ==
    ASSUME BaseInv, NEW c \in Callers,
           \/ \E delta \in Deltas : Adjust(c, delta)
           \/ \E target \in Targets : Set(c, target)
           \/ \E o \in Orders : Complete(c, o)
    PROVE  BaseInv'
<1>1. ASSUME NEW delta \in Deltas, Adjust(c, delta) PROVE BaseInv'
  <2> DEFINE k == [NoCall EXCEPT !.at = "read", !.delta = delta]
  <2>1. delta \in Int /\ delta # 0
    BY WalletAssumption
  <2>2. k \in Call /\ k.at = "read" /\ k.delta = delta
    BY <2>1, NoCallFormed DEF Call, Places
  <2>3. Begin(c, k) /\ UNCHANGED <<wallet, faults, due>>
    BY <1>1 DEF Adjust
  <2> HIDE DEF k
  <2>4. Formed(k) /\ FirstBalance(k, account.used)
    BY <2>1, <2>2 DEF Formed, FirstBalance, Adjusting, ToppingUp, Attributing
  <2> QED
    BY <2>2, <2>3, <2>4, BeginMoves
<1>2. ASSUME NEW target \in Targets, Set(c, target) PROVE BaseInv'
  <2> DEFINE k == [NoCall EXCEPT !.at = "setRead", !.target = target]
  <2>1. k \in Call /\ k.at = "setRead" /\ k.target = target
    BY NoCallFormed DEF Call, Places
  <2>2. Begin(c, k) /\ UNCHANGED <<wallet, faults, due>>
    BY <1>2 DEF Set
  <2> HIDE DEF k
  <2>3. Formed(k) /\ FirstBalance(k, account.used)
    BY <2>1 DEF Formed, FirstBalance, Adjusting, ToppingUp, Attributing
  <2> QED
    BY <2>1, <2>2, <2>3, BeginMoves
<1>3. ASSUME NEW o \in Orders, Complete(c, o) PROVE BaseInv'
  <2> DEFINE k == [NoCall EXCEPT !.at = "order", !.subject = o]
  <2>1. k \in Call /\ k.at = "order" /\ k.subject = o
    BY NoCallFormed DEF Call, Places
  <2>2. Begin(c, k) /\ UNCHANGED <<wallet, faults, due>>
    BY <1>3 DEF Complete
  <2> HIDE DEF k
  <2>3. Formed(k) /\ FirstBalance(k, account.used)
    BY <2>1 DEF Formed, FirstBalance, Adjusting, ToppingUp, Attributing
  <2> QED
    BY <2>1, <2>2, <2>3, BeginMoves
<1> QED
  BY <1>1, <1>2, <1>3

\* A call that only goes to another place.
LEMMA GoToMoves ==
    ASSUME BaseInv, NEW c \in Callers, NEW place \in Places
    PROVE  LET k == [call[c] EXCEPT !.at = place]
           IN  /\ k \in Call /\ k.at = place
               /\ k.subject = call[c].subject /\ k.delta = call[c].delta
               /\ k.target = call[c].target /\ k.seen = call[c].seen
               /\ k.diff = call[c].diff /\ k.boot = call[c].boot /\ k.fresh = call[c].fresh
               /\ k.known = call[c].known /\ k.missing = call[c].missing
BY CallTyped DEF Call, BaseInv

\* The balance that a wallet answers.
LEMMA BalanceTyped ==
    ASSUME BaseInv
    PROVE  /\ GetUserWalletQuota \in Int
           /\ ~account.used => GetUserWalletQuota \in {0, InitialQuota}
BY AccountTyped DEF BaseInv, GetUserWalletQuota, Pristine

\* A call that reads the account sees its first balance or a later one.
LEMMA ReadsBase ==
    ASSUME BaseInv, NEW c \in Callers, SetRead(c) \/ Read(c) \/ Compare(c)
    PROVE  BaseInv'
<1>0. /\ call[c] \in Call /\ Formed(call[c]) /\ FirstBalance(call[c], account.used)
      /\ calls \in Nat /\ faults \in Nat /\ apart \in BOOLEAN /\ due \in Int
      /\ \A t \in Targets : t \in Int
  BY CallTyped, WalletAssumption DEF BaseInv, CallsFormed, FirstBalances, TypeOK
<1>1. CASE SetRead(c)
  <2> DEFINE delta == GetUserWalletQuota - call[c].target
             k == [call[c] EXCEPT !.delta = delta, !.at = "read"]
  <2>1. /\ UNCHANGED <<wallet, faults, history>>
        /\ Update(c, IF delta = 0 THEN NoCall ELSE k)
        /\ due' = IF delta = 0 THEN call[c].target ELSE due
        /\ call[c].at = "setRead"
    BY <1>1 DEF SetRead, At
  <2>2. call[c].target \in Int /\ delta \in Int
    BY <1>0, <2>1, BalanceTyped DEF Formed
  <2>3. due' \in Int
    BY <1>0, <2>1, <2>2
  <2>4. calls' \in Nat /\ faults' \in Nat /\ apart' \in BOOLEAN /\ UNCHANGED wallet
    BY <1>0, <2>1 DEF history
  <2> HIDE DEF delta
  <2>5. k \in Call /\ k.at = "read" /\ k.delta = delta
    BY <1>0, <2>2 DEF Call, Places
  <2> HIDE DEF k
  <2>6. CASE delta = 0
    BY <2>1, <2>3, <2>4, <2>6, EndMoves DEF End
  <2>7. CASE delta # 0
    <3>1. Formed(k) /\ FirstBalance(k, account.used)
      BY <2>5, <2>7 DEF Formed, FirstBalance, Adjusting, ToppingUp, Attributing
    <3> QED
      BY <2>1, <2>3, <2>4, <2>5, <2>7, <3>1, CallMoves
  <2> QED
    BY <2>6, <2>7
<1>2. CASE Read(c)
  <2> DEFINE seen == GetUserWalletQuota
             k == [call[c] EXCEPT !.seen = seen, !.at = "ensure"]
  <2>1. /\ UNCHANGED <<wallet, faults, due, history>> /\ Update(c, k)
        /\ call[c].at = "read"
    BY <1>2 DEF Read, At
  <2>2. seen \in Int /\ (~account.used => seen \in {0, InitialQuota})
    BY BalanceTyped
  <2>4. calls' \in Nat /\ faults' \in Nat /\ apart' \in BOOLEAN /\ due' \in Int /\ UNCHANGED wallet
    BY <1>0, <2>1 DEF history
  <2> HIDE DEF seen
  <2>5. k \in Call /\ k.at = "ensure" /\ k.seen = seen /\ k.delta = call[c].delta
    BY <1>0, <2>2 DEF Call, Places
  <2> HIDE DEF k
  <2>6. Formed(k) /\ FirstBalance(k, account.used)
    BY <1>0, <2>1, <2>2, <2>5 DEF Formed, FirstBalance, Adjusting, ToppingUp, Attributing
  <2> QED
    BY <2>1, <2>4, <2>5, <2>6, CallMoves
<1>3. CASE Compare(c)
  <2> DEFINE diff == call[c].seen - account.available
             place == IF diff = 0 THEN "apply" ELSE "align"
             k == [call[c] EXCEPT !.diff = diff, !.at = place]
  <2>1. /\ UNCHANGED <<wallet, faults, due, history>> /\ Update(c, k)
        /\ call[c].at = "compare"
    BY <1>3 DEF Compare, At
  <2>2. diff \in Int
    BY <1>0, CallTyped, AccountTyped DEF BaseInv
  <2>3. place \in {"apply", "align"}
    OBVIOUS
  <2>4. calls' \in Nat /\ faults' \in Nat /\ apart' \in BOOLEAN /\ due' \in Int /\ UNCHANGED wallet
    BY <1>0, <2>1 DEF history
  <2> HIDE DEF diff, place
  <2>5. k \in Call /\ k.at = place /\ k.delta = call[c].delta
    BY <1>0, <2>2, <2>3 DEF Call, Places
  <2> HIDE DEF k
  <2>6. Formed(k) /\ FirstBalance(k, account.used)
    BY <1>0, <2>1, <2>3, <2>5 DEF Formed, FirstBalance, Adjusting, ToppingUp, Attributing
  <2> QED
    BY <2>1, <2>4, <2>5, <2>6, CallMoves
<1> QED
  BY <1>1, <1>2, <1>3

\* A call goes on to a place where nothing is known of it yet, or nothing new.
LEMMA EnsureBase ==
    ASSUME BaseInv, NEW c \in Callers, Ensure(c)
    PROVE  BaseInv'
<1> DEFINE place == IF account.used \/ call[c].seen <= 0 THEN "compare" ELSE "bootstrap"
           k == [call[c] EXCEPT !.at = place]
           a == [account EXCEPT !.exists = TRUE]
<1>1. /\ call[c].at = "ensure" /\ account' = a /\ Update(c, k)
      /\ UNCHANGED <<quota, granted, lots, drawn, paid, faults, due, history>>
  BY DEF Ensure, At, GoTo
<1>2. /\ Formed(call[c]) /\ FirstBalance(call[c], account.used)
      /\ call[c] \in Call /\ call[c].seen \in Int
  BY CallTyped DEF BaseInv, CallsFormed, FirstBalances
<1>3. /\ a \in Account /\ a.available = account.available /\ a.boot = account.boot
      /\ a.used = account.used
  BY DEF BaseInv, TypeOK, Account
<1>4. place \in {"compare", "bootstrap"} /\ (place = "bootstrap" => call[c].seen = InitialQuota)
  BY <1>1, <1>2 DEF FirstBalance
<1> HIDE DEF place, a
<1>5. k \in Call /\ k.at = place /\ k.delta = call[c].delta /\ k.seen = call[c].seen
  BY <1>2, <1>4 DEF Call, Places
<1> HIDE DEF k
<1>6. Formed(k) /\ FirstBalance(k, account'.used)
  BY <1>1, <1>2, <1>3, <1>4, <1>5 DEF Formed, FirstBalance, Adjusting, ToppingUp, Attributing
<1>7. /\ quota' \in Int /\ due' \in Int /\ calls' \in Nat /\ faults' \in Nat
      /\ apart' \in BOOLEAN /\ Pristine' /\ BootstrapOnce'
  BY <1>1, <1>3 DEF BaseInv, TypeOK, history, Pristine, BootstrapOnce
<1> QED
  BY <1>1, <1>3, <1>5, <1>6, <1>7, MoneyMoves

\* The first credit has the balance there was, and it is given once.
LEMMA BootstrapBase ==
    ASSUME BaseInv, NEW c \in Callers, Bootstrap(c)
    PROVE  BaseInv'
<1> DEFINE k == [call[c] EXCEPT !.at = "compare"]
           n == -call[c].seen
           charged == Charged(account, n)
           a == [charged EXCEPT !.boot = call[c].seen]
<1>1. /\ call[c].at = "bootstrap"
      /\ IF account.boot = 0 THEN account' = a ELSE account' = account
      /\ IF account.boot \in {0, call[c].seen} THEN Update(c, k) ELSE End(c)
      /\ UNCHANGED <<quota, granted, lots, drawn, paid, faults, due, history>>
  BY DEF Bootstrap, At, GoTo
<1>2. /\ Formed(call[c]) /\ call[c].seen = InitialQuota /\ call[c] \in Call
      /\ InitialQuota \in Nat /\ n \in Int /\ account \in Account
  BY <1>1, CallTyped, WalletAssumption
     DEF BaseInv, CallsFormed, FirstBalances, FirstBalance, TypeOK
<1>3. /\ charged \in Account
      /\ charged.available = account.available - n
      /\ charged.used <=> (account.used \/ n # 0)
  BY <1>2, ChargedTyped
<1> HIDE DEF charged
<1>4. /\ a \in Account /\ a.available = charged.available /\ a.used = charged.used
      /\ a.boot = InitialQuota
  BY <1>2, <1>3 DEF Account
<1> HIDE DEF a
<1>5. k \in Call /\ k.at = "compare" /\ k.delta = call[c].delta
  BY <1>2 DEF Call, Places
<1> HIDE DEF k
<1>6. Formed(k) /\ Formed(NoCall)
  BY <1>1, <1>2, <1>5, NoCallFormed DEF Formed, Adjusting, ToppingUp, Attributing
<1>7. FirstBalance(k, account'.used) /\ FirstBalance(NoCall, account'.used)
  BY <1>5, NoCallFormed DEF FirstBalance
<1>8. /\ quota' \in Int /\ due' \in Int /\ calls' \in Nat /\ faults' \in Nat
      /\ apart' \in BOOLEAN
  BY <1>1 DEF BaseInv, TypeOK, history
<1>9. account' \in Account /\ Pristine' /\ BootstrapOnce' /\ (account.used => account'.used)
  <2>1. CASE account.boot = 0
    <3>1. account' = a /\ quota' = quota
      BY <1>1, <2>1
    <3>2. account'.used => TRUE
      OBVIOUS
    <3>3. ~account'.used => ~account.used /\ InitialQuota = 0
      BY <3>1, <1>2, <1>3, <1>4
    <3>4. Pristine'
      BY <3>1, <3>3, <1>2, <1>3, <1>4, AccountTyped DEF BaseInv, Pristine
    <3> QED
      BY <3>1, <3>4, <1>3, <1>4 DEF BootstrapOnce
  <2>2. CASE account.boot # 0
    BY <1>1, <1>2, <2>2 DEF BaseInv, Pristine, BootstrapOnce
  <2> QED
    BY <2>1, <2>2
<1> QED
  BY <1>1, <1>5, <1>6, <1>7, <1>8, <1>9, NoCallFormed, MoneyMoves DEF End

\* The ledger is charged, or it refuses and the call ends.
LEMMA ChargesBase ==
    ASSUME BaseInv, NEW c \in Callers, Align(c) \/ Apply(c) \/ Undo(c)
    PROVE  BaseInv'
<1>0. /\ call[c] \in Call /\ call[c].delta \in Int /\ call[c].diff \in Int
      /\ Formed(call[c]) /\ FirstBalance(call[c], account.used)
      /\ calls \in Nat /\ faults \in Nat /\ apart \in BOOLEAN /\ due \in Int
  BY CallTyped DEF BaseInv, CallsFormed, FirstBalances, TypeOK
<1>1. ASSUME NEW n \in Int, NEW k \in Call, ApplyLedgerDelta(c, n, k), Formed(k),
             FirstBalance(k, account.used \/ n # 0)
      PROVE  BaseInv'
  <2>1. UNCHANGED <<quota, granted, lots, drawn, paid, faults, due, history>>
    BY <1>1 DEF ApplyLedgerDelta
  <2>2. CASE CanPay(account, n)
    BY <1>0, <1>1, <2>1, <2>2, LedgerMoves DEF ApplyLedgerDelta
  <2>3. CASE ~CanPay(account, n)
    <3>1. End(c) /\ UNCHANGED wallet
      BY <1>1, <2>1, <2>3 DEF ApplyLedgerDelta, wallet
    <3>2. due' \in Int /\ calls' \in Nat /\ faults' \in Nat /\ apart' \in BOOLEAN
      BY <1>0, <2>1 DEF history
    <3> QED
      BY <3>1, <3>2, EndMoves
  <2> QED
    BY <2>2, <2>3
<1>2. CASE Align(c)
  <2> DEFINE k == [call[c] EXCEPT !.at = "apply"]
             n == -call[c].diff
  <2>1. ApplyLedgerDelta(c, n, k) /\ call[c].at = "align" /\ n \in Int
    BY <1>0, <1>2 DEF Align, At
  <2>2. k \in Call /\ k.at = "apply" /\ k.delta = call[c].delta
    BY <1>0 DEF Call, Places
  <2> HIDE DEF k, n
  <2>3. Formed(k) /\ FirstBalance(k, account.used \/ n # 0)
    BY <1>0, <2>1, <2>2 DEF Formed, FirstBalance, Adjusting, ToppingUp, Attributing
  <2> QED
    BY <1>1, <2>1, <2>2, <2>3
<1>3. CASE Apply(c)
  <2> DEFINE k == [call[c] EXCEPT !.at = "project"]
             n == call[c].delta
  <2>1. ApplyLedgerDelta(c, n, k) /\ call[c].at = "apply" /\ n \in Int
    BY <1>0, <1>3 DEF Apply, At
  <2>2. k \in Call /\ k.at = "project" /\ k.delta = call[c].delta
    BY <1>0 DEF Call, Places
  <2>3. n # 0
    BY <1>0, <2>1 DEF Formed, Adjusting
  <2> HIDE DEF k
  <2>4. Formed(k) /\ FirstBalance(k, account.used \/ n # 0)
    BY <1>0, <2>1, <2>2, <2>3 DEF Formed, FirstBalance, Adjusting, ToppingUp, Attributing
  <2> QED
    BY <1>1, <2>1, <2>2, <2>4
<1>4. CASE Undo(c)
  <2> DEFINE n == -call[c].delta
  <2>1. ApplyLedgerDelta(c, n, NoCall) /\ n \in Int
    BY <1>0, <1>4 DEF Undo
  <2> HIDE DEF n
  <2>2. Formed(NoCall) /\ FirstBalance(NoCall, account.used \/ n # 0)
    BY NoCallFormed DEF Formed, FirstBalance, Adjusting, ToppingUp, Attributing
  <2> QED
    BY <1>1, <2>1, <2>2, NoCallFormed
<1> QED
  BY <1>2, <1>3, <1>4

\* The column moves after the ledger has.
LEMMA ProjectBase ==
    ASSUME BaseInv, NEW c \in Callers, Project(c)
    PROVE  BaseInv'
<1>1. /\ call[c].at = "project" /\ quota' = quota - call[c].delta /\ Update(c, NoCall)
      /\ due' = IF call[c].target = NoTarget THEN due - call[c].delta ELSE call[c].target
      /\ UNCHANGED <<account, granted, lots, drawn, paid, faults, history>>
  BY DEF Project, At, End
<1>2. /\ call[c].delta \in Int /\ quota \in Int /\ due \in Int
      /\ call[c].target \in Targets \cup {NoTarget}
      /\ FirstBalance(call[c], account.used)
  BY CallTyped, AccountTyped DEF BaseInv, FirstBalances
<1>3. quota' \in Int /\ due' \in Int
  BY <1>1, <1>2, WalletAssumption
<1>4. /\ account.used /\ account' \in Account /\ calls' \in Nat /\ faults' \in Nat
      /\ apart' \in BOOLEAN /\ Pristine' /\ BootstrapOnce' /\ account'.used
  BY <1>1, <1>2 DEF BaseInv, TypeOK, history, Pristine, BootstrapOnce, FirstBalance
<1>5. Formed(NoCall) /\ FirstBalance(NoCall, account'.used)
  BY NoCallFormed DEF Formed, FirstBalance, Adjusting, ToppingUp, Attributing
<1> QED
  BY <1>1, <1>3, <1>4, <1>5, NoCallFormed, MoneyMoves

-----------------------------------------------------------------------------
(* Topping up *)

\* A top-up reads its order, locks it, and reads column and snapshot.
LEMMA TopUpReadsBase ==
    ASSUME BaseInv, NEW c \in Callers,
           ReadOrder(c) \/ SaveOrder(c) \/ ReadColumn(c) \/ ReadSnapshot(c)
               \/ RollbackCredit(c)
    PROVE  BaseInv'
<1>0. /\ call[c] \in Call /\ Formed(call[c]) /\ FirstBalance(call[c], account.used)
      /\ calls \in Nat /\ faults \in Nat /\ apart \in BOOLEAN /\ due \in Int
  BY CallTyped DEF BaseInv, CallsFormed, FirstBalances, TypeOK
<1>1. UNCHANGED <<wallet, faults, due, history>>
  BY DEF ReadOrder, SaveOrder, ReadColumn, ReadSnapshot, RollbackCredit
<1>2. /\ due' \in Int /\ calls' \in Nat /\ faults' \in Nat /\ apart' \in BOOLEAN
      /\ UNCHANGED wallet
  BY <1>0, <1>1 DEF history
<1>3. CASE End(c)
  BY <1>2, <1>3, EndMoves
<1>4. CASE ReadOrder(c) /\ ~End(c)
  <2> DEFINE k == [call[c] EXCEPT !.at = "save"]
  <2>1. Update(c, k) /\ call[c].at = "order"
    BY <1>4 DEF ReadOrder, GoTo, At
  <2>2. k \in Call /\ k.at = "save" /\ k.subject = call[c].subject
    BY <1>0 DEF Call, Places
  <2> HIDE DEF k
  <2>3. Formed(k) /\ FirstBalance(k, account.used)
    BY <1>0, <2>1, <2>2 DEF Formed, FirstBalance, Adjusting, ToppingUp, Attributing
  <2> QED
    BY <1>2, <2>1, <2>2, <2>3, CallMoves
<1>5. CASE SaveOrder(c)
  <2> DEFINE k == [call[c] EXCEPT !.at = "balance"]
  <2>1. Update(c, k) /\ call[c].at = "save"
    BY <1>5 DEF SaveOrder, GoTo, At
  <2>2. k \in Call /\ k.at = "balance" /\ k.subject = call[c].subject
    BY <1>0 DEF Call, Places
  <2> HIDE DEF k
  <2>3. Formed(k) /\ FirstBalance(k, account.used)
    BY <1>0, <2>1, <2>2 DEF Formed, FirstBalance, Adjusting, ToppingUp, Attributing
  <2> QED
    BY <1>2, <2>1, <2>2, <2>3, CallMoves
<1>6. CASE ReadColumn(c)
  <2> DEFINE k == [call[c] EXCEPT !.seen = quota, !.at = "snapshot"]
  <2>1. Update(c, k) /\ call[c].at = "balance"
    BY <1>6 DEF ReadColumn, At
  <2>2. quota \in Int /\ (~account.used => quota = InitialQuota)
    BY DEF BaseInv, TypeOK, Pristine
  <2>3. k \in Call /\ k.at = "snapshot" /\ k.subject = call[c].subject /\ k.seen = quota
    BY <1>0, <2>2 DEF Call, Places
  <2> HIDE DEF k
  <2>4. Formed(k) /\ FirstBalance(k, account.used)
    BY <1>0, <2>1, <2>2, <2>3 DEF Formed, FirstBalance, Adjusting, ToppingUp, Attributing
  <2> QED
    BY <1>2, <2>1, <2>3, <2>4, CallMoves
<1>7. CASE ReadSnapshot(c)
  <2> DEFINE boot == IF account.used \/ call[c].seen <= 0 THEN 0 ELSE call[c].seen
             fresh == ~account.exists
             diff == call[c].seen - account.available - boot
             k == [call[c] EXCEPT !.boot = boot, !.fresh = fresh, !.diff = diff,
                                  !.at = "credit"]
  <2>1. Update(c, k) /\ call[c].at = "snapshot"
    BY <1>7 DEF ReadSnapshot, At
  <2>2. call[c].seen \in Int /\ account.available \in Int /\ InitialQuota \in Nat
    BY CallTyped, AccountTyped DEF BaseInv
  <2>3. boot \in {0, InitialQuota}
    BY <1>0, <2>1, <2>2 DEF FirstBalance
  <2>4. boot \in Nat /\ fresh \in BOOLEAN
    BY <2>2, <2>3
  <2> HIDE DEF boot, fresh
  <2>5. diff \in Int
    BY <2>2, <2>4
  <2> HIDE DEF diff
  <2>6. k \in Call /\ k.at = "credit" /\ k.subject = call[c].subject /\ k.boot = boot
    BY <1>0, <2>4, <2>5 DEF Call, Places
  <2> HIDE DEF k
  <2>7. Formed(k) /\ FirstBalance(k, account.used)
    BY <1>0, <2>1, <2>3, <2>6 DEF Formed, FirstBalance, Adjusting, ToppingUp, Attributing
  <2> QED
    BY <1>2, <2>1, <2>6, <2>7, CallMoves
<1>8. CASE RollbackCredit(c)
  BY <1>3, <1>8 DEF RollbackCredit
<1> QED
  BY <1>3, <1>4, <1>5, <1>6, <1>7, <1>8

-----------------------------------------------------------------------------
(* Settling and attributing *)

\* What the lots hold is a number.
LEMMA RemainingInt ==
    ASSUME NEW ls \in Seq(Lot)
    PROVE  Remaining(ls) \in Int
<1> DEFINE f == [i \in DOMAIN ls |-> ls[i].remaining]
<1>1. IsFiniteSet(DOMAIN ls)
  BY FS_Interval
<1>2. ASSUME NEW i \in DOMAIN ls PROVE ls[i].remaining \in Int
  <2>1. ls[i] \in Lot
    OBVIOUS
  <2> QED
    BY <2>1 DEF Lot
<1>2a. \A i \in DOMAIN f : f[i] \in Int
  BY <1>2
<1> HIDE DEF f
<1>3. DOMAIN f = DOMAIN ls
  BY DEF f
<1>4. SumFunctionOnSet(f, DOMAIN f) \in Int
  BY <1>1, <1>2a, <1>3, SumInt
<1> QED
  BY <1>4 DEF Remaining, SumFunction, f

\* What the lots lack is not negative.
LEMMA MissingNat ==
    ASSUME TypeOK, NEW n \in Nat
    PROVE  Missing(n) \in Nat
<1>1. Remaining(lots) \in Int /\ account.available \in Int
  BY RemainingInt, AccountTyped DEF TypeOK
<1> QED
  BY <1>1 DEF Missing

\* A settlement, the read of the lots, and faults.
LEMMA SettleBase ==
    ASSUME BaseInv, NEW c \in Callers, NEW r \in Requests, Settle(c, r)
    PROVE  BaseInv'
<1> DEFINE k == [NoCall EXCEPT !.at = "lots", !.subject = r]
<1>1. /\ Begin(c, k) /\ account' = Charged(account, Value[r])
      /\ quota' = quota - Value[r] /\ due' = due - Value[r]
      /\ UNCHANGED <<granted, lots, drawn, paid, faults>>
  BY DEF Settle
<1>2. Value[r] \in Nat /\ Value[r] # 0
  BY WalletAssumption
<1>3. k \in Call /\ k.at = "lots" /\ k.subject = r
  BY NoCallFormed DEF Call, Places
<1> HIDE DEF k
<1>4. Update(c, k) /\ calls' = calls + 1 /\ apart' \in BOOLEAN
  BY <1>1 DEF Begin, BaseInv, TypeOK
<1>4a. account \in Account /\ Value[r] \in Int
  BY <1>2 DEF BaseInv, TypeOK
<1>5. /\ account' \in Account /\ account'.available = account.available - Value[r]
      /\ account'.boot = account.boot /\ account'.used
  <2> DEFINE n == Value[r]
  <2>1. n \in Int /\ n # 0 /\ account' = Charged(account, n)
    BY <1>1, <1>2
  <2> HIDE DEF n
  <2>2. /\ account' \in Account /\ account'.available = account.available - n
        /\ account'.boot = account.boot /\ account'.used
    BY <1>4a, <2>1, ChargedTyped
  <2> QED
    BY <2>2 DEF n
<1>6. /\ quota' \in Int /\ due' \in Int /\ calls' \in Nat /\ faults' \in Nat
  BY <1>1, <1>2, <1>4 DEF BaseInv, TypeOK
<1>7. Pristine' /\ BootstrapOnce'
  BY <1>5 DEF BaseInv, Pristine, BootstrapOnce
<1>8. Formed(k) /\ FirstBalance(k, account'.used)
  BY <1>3 DEF Formed, FirstBalance, Adjusting, ToppingUp, Attributing
<1> QED
  BY <1>1, <1>3, <1>4, <1>5, <1>6, <1>7, <1>8, MoneyMoves

\* A read of the lots does not touch the balances.
LEMMA ReadLotsBase ==
    ASSUME BaseInv, NEW c \in Callers, ReadLots(c)
    PROVE  BaseInv'
<1> DEFINE missing == Missing(Value[call[c].subject])
           known == Len(lots)
           k == [call[c] EXCEPT !.missing = missing, !.known = known, !.at = "allocate"]
<1>1. call[c].at = "lots" /\ Update(c, k) /\ UNCHANGED <<wallet, faults, due, history>>
  BY DEF ReadLots, At
<1>2. call[c] \in Call /\ call[c].subject \in Requests
  BY <1>1, CallTyped DEF BaseInv, CallsFormed, Formed, Attributing
<1>3. Value[call[c].subject] \in Nat
  BY <1>2, WalletAssumption
<1>4. known \in Nat
  BY DEF BaseInv, TypeOK
<1>4a. missing \in Nat
  <2> DEFINE n == Value[call[c].subject]
  <2>1. n \in Nat /\ TypeOK
    BY <1>3 DEF BaseInv
  <2> HIDE DEF n
  <2>2. Missing(n) \in Nat
    BY <2>1, MissingNat
  <2> QED
    BY <2>2 DEF n
<1> HIDE DEF missing, known
<1>5. k \in Call /\ k.at = "allocate" /\ k.subject = call[c].subject
  BY <1>2, <1>4, <1>4a DEF Call, Places
<1> HIDE DEF k
<1>6. Formed(k) /\ FirstBalance(k, account.used)
  BY <1>2, <1>5 DEF Formed, FirstBalance, Adjusting, ToppingUp, Attributing
<1>7. due' \in Int /\ calls' \in Nat /\ faults' \in Nat /\ apart' \in BOOLEAN /\ UNCHANGED wallet
  BY <1>1 DEF history, BaseInv, TypeOK
<1> QED
  BY <1>1, <1>5, <1>6, <1>7, CallMoves

\* A fault ends a call, sends it to its compensation, or leaves a hold.
LEMMA FaultsBase ==
    ASSUME BaseInv, NEW c \in Callers, Fail(c) \/ FailSettling(c)
    PROVE  BaseInv'
<1>0. /\ call[c] \in Call /\ Formed(call[c]) /\ FirstBalance(call[c], account.used)
      /\ calls \in Nat /\ faults \in Nat /\ apart \in BOOLEAN /\ due \in Int
      /\ call[c].delta \in Int /\ call[c].diff \in Int
  BY CallTyped DEF BaseInv, CallsFormed, FirstBalances, TypeOK
<1>1. /\ UNCHANGED <<due, history>> /\ faults' = faults + 1
      /\ UNCHANGED <<quota, granted, lots, drawn, paid>>
  BY DEF Fail, FailSettling, wallet
<1>2. due' \in Int /\ calls' \in Nat /\ faults' \in Nat /\ apart' \in BOOLEAN
  BY <1>0, <1>1 DEF history
<1>3. CASE Fail(c) /\ End(c)
  BY <1>2, <1>3, EndMoves DEF Fail
<1>4. CASE Fail(c) /\ ~End(c)
  <2> DEFINE k == [call[c] EXCEPT !.at = "undo"]
  <2>1. Update(c, k) /\ call[c].at = "project" /\ UNCHANGED wallet
    BY <1>4 DEF Fail, GoTo, At
  <2>2. k \in Call /\ k.at = "undo" /\ k.delta = call[c].delta
    BY <1>0 DEF Call, Places
  <2> HIDE DEF k
  <2>3. Formed(k) /\ FirstBalance(k, account.used)
    BY <1>0, <2>1, <2>2 DEF Formed, FirstBalance, Adjusting, ToppingUp, Attributing
  <2> QED
    BY <1>2, <2>1, <2>2, <2>3, CallMoves
<1>5. CASE FailSettling(c)
  <2> DEFINE n == CASE At(c, "align") -> -call[c].diff
                    [] At(c, "apply") -> call[c].delta
                    [] At(c, "undo")  -> -call[c].delta
                    [] OTHER          -> 0
  <2>1. account' = Charged(account, n) /\ Update(c, NoCall)
    BY <1>5 DEF FailSettling, End
  <2>2. n \in Int
    BY <1>0 DEF At
  <2> HIDE DEF n
  <2>3. Formed(NoCall) /\ FirstBalance(NoCall, account.used \/ n # 0)
    BY NoCallFormed DEF Formed, FirstBalance, Adjusting, ToppingUp, Attributing
  <2> QED
    BY <1>1, <1>2, <2>1, <2>2, <2>3, NoCallFormed, LedgerMoves
<1> QED
  BY <1>3, <1>4, <1>5

-----------------------------------------------------------------------------
(* Lots *)

\* Every lot holds between nothing and what it was funded with.
Held(ls) ==
    /\ ls \in Seq(Lot)
    /\ \A i \in DOMAIN ls : ls[i].remaining \in 0 .. ls[i].original

\* The lots of a list, and what remains of each.
LEMMA HeldTyped ==
    ASSUME NEW ls, Held(ls)
    PROVE  /\ DOMAIN ls = 1 .. Len(ls) /\ Len(ls) \in Nat /\ IsFiniteSet(DOMAIN ls)
           /\ \A i \in DOMAIN ls :
                 /\ ls[i] \in Lot /\ ls[i].of \in Orders \cup {"legacy"}
                 /\ ls[i].original \in Nat /\ ls[i].remaining \in Nat
                 /\ ls[i].remaining <= ls[i].original
<1>1. DOMAIN ls = 1 .. Len(ls) /\ Len(ls) \in Nat
  BY DEF Held
<1>2. IsFiniteSet(DOMAIN ls)
  BY <1>1, FS_Interval
<1>3. ASSUME NEW i \in DOMAIN ls
      PROVE  /\ ls[i] \in Lot /\ ls[i].of \in Orders \cup {"legacy"}
             /\ ls[i].original \in Nat /\ ls[i].remaining \in Nat
             /\ ls[i].remaining <= ls[i].original
  <2>1. ls[i] \in Lot /\ ls[i].remaining \in 0 .. ls[i].original
    BY DEF Held
  <2> QED
    BY <2>1 DEF Lot
<1> QED
  BY <1>1, <1>2, <1>3

\* The lots new are the lots ls and one of size n more.
Added(new, ls, of, n) ==
    new = Append(ls, [of |-> of, original |-> n, remaining |-> n])

\* A new lot is full, and adds as much to what is funded as to what remains.
LEMMA LotAdded ==
    ASSUME NEW ls, Held(ls), NEW of \in Orders \cup {"legacy"}, NEW n \in Nat,
           NEW new, Added(new, ls, of, n)
    PROVE  /\ Held(new)
           /\ Len(new) = Len(ls) + 1
           /\ \A i \in DOMAIN ls : i \in DOMAIN new /\ new[i] = ls[i]
           /\ \A i \in DOMAIN new \ DOMAIN ls : i = Len(ls) + 1 /\ new[i].of = of
           /\ Funded(new) = Funded(ls) + n
           /\ Remaining(new) = Remaining(ls) + n
<1> DEFINE e == [of |-> of, original |-> n, remaining |-> n]
           l == Len(ls)
<1>0. ls \in Seq(Lot) /\ e \in Lot /\ e.of = of /\ e.original = n /\ e.remaining = n
  BY DEF Held, Lot
<1>1. l \in Nat /\ DOMAIN ls = 1 .. l
  BY <1>0
<1>2. new = Append(ls, e)
  BY DEF Added
<1> HIDE DEF e
<1>3. /\ new \in Seq(Lot) /\ Len(new) = l + 1 /\ DOMAIN new = 1 .. (l + 1)
      /\ new[l + 1] = e /\ \A i \in 1 .. l : new[i] = ls[i]
  BY <1>0, <1>1, <1>2
<1> HIDE DEF l
<1>4. \A i \in 1 .. l : /\ ls[i].original \in Nat /\ ls[i].remaining \in Nat
                        /\ ls[i].remaining <= ls[i].original
  BY <1>1, HeldTyped
<1>5. Held(new)
  <2> SUFFICES ASSUME NEW i \in DOMAIN new PROVE new[i].remaining \in 0 .. new[i].original
    BY <1>3 DEF Held
  <2>1. CASE i \in 1 .. l
    BY <1>3, <1>4, <2>1
  <2>2. CASE i \notin 1 .. l
    <3>1. i = l + 1
      BY <1>1, <1>3, <2>2
    <3> QED
      BY <1>0, <1>3, <3>1
  <2> QED
    BY <2>1, <2>2
<1>6. Funded(new) = Funded(ls) + n
  <2> DEFINE f == [i \in DOMAIN ls |-> ls[i].original]
             g == [i \in DOMAIN new |-> new[i].original]
  <2>1. /\ DOMAIN f = 1 .. l /\ DOMAIN g = 1 .. (l + 1) /\ g[l + 1] = n
        /\ \A i \in 1 .. l : f[i] \in Int /\ g[i] = f[i]
    BY <1>0, <1>1, <1>3, <1>4
  <2> HIDE DEF f, g
  <2>2. SumFunction(g) = SumFunction(f) + g[l + 1]
    BY <1>1, <2>1, SumAppended
  <2> QED
    BY <2>1, <2>2 DEF Funded, f, g
<1>7. Remaining(new) = Remaining(ls) + n
  <2> DEFINE f == [i \in DOMAIN ls |-> ls[i].remaining]
             g == [i \in DOMAIN new |-> new[i].remaining]
  <2>1. /\ DOMAIN f = 1 .. l /\ DOMAIN g = 1 .. (l + 1) /\ g[l + 1] = n
        /\ \A i \in 1 .. l : f[i] \in Int /\ g[i] = f[i]
    BY <1>0, <1>1, <1>3, <1>4
  <2> HIDE DEF f, g
  <2>2. SumFunction(g) = SumFunction(f) + g[l + 1]
    BY <1>1, <2>1, SumAppended
  <2> QED
    BY <2>1, <2>2 DEF Remaining, f, g
<1>8. \A i \in DOMAIN ls : i \in DOMAIN new /\ new[i] = ls[i]
  BY <1>1, <1>3
<1>9. \A i \in DOMAIN new \ DOMAIN ls : i = l + 1 /\ new[i].of = of
  BY <1>0, <1>1, <1>3
<1> QED
  BY <1>3, <1>5, <1>6, <1>7, <1>8, <1>9 DEF l

\* What is funded and what remains are numbers.
LEMMA FundedNat ==
    ASSUME NEW ls, Held(ls)
    PROVE  Funded(ls) \in Nat /\ Remaining(ls) \in Nat
<1> DEFINE f == [i \in DOMAIN ls |-> ls[i].original]
           g == [i \in DOMAIN ls |-> ls[i].remaining]
<1>1. /\ IsFiniteSet(DOMAIN ls) /\ DOMAIN f = DOMAIN ls /\ DOMAIN g = DOMAIN ls
      /\ \A i \in DOMAIN ls : f[i] \in Nat /\ g[i] \in Nat
  BY HeldTyped
<1> HIDE DEF f, g
<1>2. SumFunctionOnSet(f, DOMAIN ls) \in Nat /\ SumFunctionOnSet(g, DOMAIN ls) \in Nat
  BY <1>1, SumNat
<1>3. SumFunction(f) \in Nat /\ SumFunction(g) \in Nat
  BY <1>1, <1>2 DEF SumFunction
<1> QED
  BY <1>3 DEF Funded, Remaining, f, g

\* The smaller and the larger of two numbers.
LEMMA MinMaxOfTwo ==
    ASSUME NEW a \in Int, NEW b \in Int
    PROVE  /\ Min({a, b}) \in {a, b} /\ Min({a, b}) <= a /\ Min({a, b}) <= b
           /\ Max({a, b}) \in {a, b} /\ Max({a, b}) >= a /\ Max({a, b}) >= b
<1>1. \E x \in {a, b} : \A y \in {a, b} : x <= y
  OBVIOUS
<1>2. \E x \in {a, b} : \A y \in {a, b} : x >= y
  OBVIOUS
<1> QED
  BY <1>1, <1>2 DEF Min, Max

\* No lot gives more than it holds.
LEMMA UsedWithin ==
    ASSUME NEW ls, Held(ls), NEW visible \in SUBSET DOMAIN ls, NEW n \in Nat,
           NEW used, used = Used(ls, visible, n)
    PROVE  /\ DOMAIN used = DOMAIN ls
           /\ \A i \in DOMAIN ls : used[i] \in 0 .. ls[i].remaining
<1>1. DOMAIN used = DOMAIN ls
  BY DEF Used
<1>2. ASSUME NEW i \in DOMAIN ls PROVE used[i] \in 0 .. ls[i].remaining
  <2> DEFINE S == {k \in visible : k < i}
             f == [j \in S |-> ls[j].remaining]
             older == SumFunction(f)
             short == n - older
             open == Max({0, short})
             held == ls[i].remaining
  <2>1. used[i] = IF i \in visible THEN Min({open, held}) ELSE 0
    BY DEF Used
  <2>2. IsFiniteSet(S) /\ \A j \in S : f[j] \in Int
    BY HeldTyped, FS_Subset
  <2>3. DOMAIN f = S
    OBVIOUS
  <2> HIDE DEF f, S
  <2>4. older \in Int
    BY <2>2, <2>3, SumInt DEF SumFunction
  <2> HIDE DEF older
  <2>5. short \in Int /\ 0 \in Int
    BY <2>4
  <2> HIDE DEF short
  <2>6. open \in {0, short} /\ open >= 0
    BY <2>5, MinMaxOfTwo, Zenon
  <2>7. open \in Nat
    BY <2>5, <2>6
  <2> HIDE DEF open
  <2>8. held \in Nat
    BY HeldTyped
  <2> HIDE DEF held
  <2>9. Min({open, held}) \in {open, held} /\ Min({open, held}) <= held
    BY <2>7, <2>8, MinMaxOfTwo
  <2>10. used[i] \in 0 .. held
    BY <2>1, <2>7, <2>8, <2>9
  <2> QED
    BY <2>10 DEF held
<1> QED
  BY <1>1, <1>2

\* Lots that give keep their owners and their size, and lose what they give.
LEMMA LotsDrained ==
    ASSUME NEW ls, Held(ls), NEW used, DOMAIN used = DOMAIN ls,
           \A i \in DOMAIN ls : used[i] \in 0 .. ls[i].remaining,
           NEW new, new = Drained(ls, used)
    PROVE  /\ Held(new)
           /\ DOMAIN new = DOMAIN ls
           /\ \A i \in DOMAIN ls : new[i].of = ls[i].of /\ new[i].original = ls[i].original
           /\ Funded(new) = Funded(ls)
           /\ Remaining(new) = Remaining(ls) - SumFunction(used)
<1> DEFINE l == Len(ls)
<1>1. DOMAIN ls = 1 .. l /\ l \in Nat /\ IsFiniteSet(DOMAIN ls)
  BY HeldTyped
<1>2. new = [i \in DOMAIN ls |-> [ls[i] EXCEPT !.remaining = ls[i].remaining - used[i]]]
  BY DEF Drained
<1>3. ASSUME NEW i \in DOMAIN ls
      PROVE  /\ new[i] \in Lot /\ new[i].of = ls[i].of /\ new[i].original = ls[i].original
             /\ new[i].remaining = ls[i].remaining - used[i]
             /\ new[i].remaining \in 0 .. new[i].original
             /\ new[i].remaining \in Int /\ used[i] \in Int /\ ls[i].remaining \in Int
  <2> DEFINE left == ls[i].remaining - used[i]
  <2>1. new[i] = [ls[i] EXCEPT !.remaining = left]
    BY <1>2
  <2>2. /\ ls[i] \in Lot /\ ls[i].original \in Nat /\ ls[i].remaining \in Nat
        /\ ls[i].remaining <= ls[i].original /\ used[i] \in 0 .. ls[i].remaining
    BY HeldTyped
  <2>3. left \in 0 .. ls[i].original /\ left \in Int
    BY <2>2
  <2> HIDE DEF left
  <2>4. /\ new[i] \in Lot /\ new[i].of = ls[i].of /\ new[i].original = ls[i].original
        /\ new[i].remaining = left
    BY <2>1, <2>2, <2>3 DEF Lot
  <2>5. new[i].remaining \in 0 .. new[i].original /\ new[i].remaining \in Int
    BY <2>3, <2>4
  <2> QED
    BY <2>2, <2>4, <2>5 DEF left
<1>4. DOMAIN new = DOMAIN ls
  BY <1>2
<1>5. Held(new)
  <2>1. new = [i \in 1 .. l |-> new[i]] /\ \A i \in 1 .. l : new[i] \in Lot
    BY <1>1, <1>2, <1>3
  <2>2. new \in Seq(Lot)
    BY <1>1, <2>1
  <2> QED
    BY <1>3, <1>4, <2>2 DEF Held
<1>6. Funded(new) = Funded(ls)
  <2>1. [i \in DOMAIN new |-> new[i].original] = [i \in DOMAIN ls |-> ls[i].original]
    BY <1>3, <1>4
  <2> QED
    BY <2>1 DEF Funded
<1>7. Remaining(new) = Remaining(ls) - SumFunction(used)
  <2> DEFINE f == [i \in DOMAIN new |-> new[i].remaining]
             g == [i \in DOMAIN ls |-> ls[i].remaining]
             S == DOMAIN ls
  <2>1. /\ DOMAIN f = S /\ DOMAIN g = S
        /\ \A i \in S : f[i] \in Int /\ used[i] \in Int /\ g[i] = f[i] + used[i]
    BY <1>3, <1>4
  <2> HIDE DEF f, g
  <2>2. SumFunctionOnSet(g, S) = SumFunctionOnSet(f, S) + SumFunctionOnSet(used, S)
    BY <1>1, <2>1, SumPlus
  <2>3. SumFunctionOnSet(f, S) \in Int /\ SumFunctionOnSet(used, S) \in Int
    BY <1>1, <2>1, SumInt
  <2>4. /\ SumFunction(f) = SumFunctionOnSet(f, S) /\ SumFunction(g) = SumFunctionOnSet(g, S)
        /\ SumFunction(used) = SumFunctionOnSet(used, S)
    BY <2>1 DEF SumFunction
  <2>5. SumFunction(f) = SumFunction(g) - SumFunction(used)
    BY <2>2, <2>3, <2>4
  <2> QED
    BY <2>5 DEF Remaining, f, g
<1> QED
  BY <1>3, <1>4, <1>5, <1>6, <1>7

-----------------------------------------------------------------------------
(* Credits and allocations *)

\* The lots that an order funded.
LotsOf(ls, o) == {i \in DOMAIN ls : ls[i].of = o}

\* New lots are those of nobody, and the others keep their owners.
LEMMA OwnersKept ==
    ASSUME NEW ls, NEW new,
           \A i \in DOMAIN ls : i \in DOMAIN new /\ new[i].of = ls[i].of,
           \A i \in DOMAIN new \ DOMAIN ls : new[i].of = "legacy"
    PROVE  \A o \in Orders : LotsOf(new, o) = LotsOf(ls, o)
BY WalletAssumption DEF LotsOf

\* One lot more than before, for an order that had none.
Recorded(new, ls, o) ==
    /\ LotsOf(ls, o) # {} => new = ls
    /\ LotsOf(ls, o) = {} =>
          /\ \E i : LotsOf(new, o) = {i}
          /\ \A p \in Orders \ {o} : LotsOf(new, p) = LotsOf(ls, p)
          /\ Funded(new) = Funded(ls) + Value[o]
          /\ Remaining(new) = Remaining(ls) + Value[o]

\* An order that has a lot is given no other.
LEMMA LotRecorded ==
    ASSUME NEW ls, Held(ls), NEW o \in Orders, NEW new, new = RecordFundingLot(ls, o)
    PROVE  Held(new) /\ Recorded(new, ls, o)
<1>1. CASE LotsOf(ls, o) # {}
  BY <1>1 DEF LotsOf, RecordFundingLot, Recorded
<1>2. CASE LotsOf(ls, o) = {}
  <2> DEFINE n == Value[o]
  <2>1. Added(new, ls, o, n)
    BY <1>2 DEF LotsOf, RecordFundingLot, Added
  <2>2. n \in Nat /\ o \in Orders \cup {"legacy"}
    BY WalletAssumption
  <2> HIDE DEF n
  <2>3. /\ Held(new)
        /\ Len(new) = Len(ls) + 1
        /\ \A i \in DOMAIN ls : i \in DOMAIN new /\ new[i] = ls[i]
        /\ \A i \in DOMAIN new \ DOMAIN ls : i = Len(ls) + 1 /\ new[i].of = o
        /\ Funded(new) = Funded(ls) + n
        /\ Remaining(new) = Remaining(ls) + n
    BY <2>1, <2>2, LotAdded
  <2>4. DOMAIN ls = 1 .. Len(ls) /\ DOMAIN new = 1 .. Len(new) /\ Len(ls) \in Nat
    BY <2>3, HeldTyped
  <2>5. Len(ls) + 1 \in DOMAIN new \ DOMAIN ls
    BY <2>3, <2>4
  <2>6. LotsOf(new, o) = {Len(ls) + 1}
    BY <1>2, <2>3, <2>5 DEF LotsOf
  <2>7. \A p \in Orders \ {o} : LotsOf(new, p) = LotsOf(ls, p)
    BY <2>3 DEF LotsOf
  <2> QED
    BY <1>2, <2>3, <2>6, <2>7 DEF n, Recorded
<1> QED
  BY <1>1, <1>2

\* Amounts that make up the cost of a request.
Allotted(used, r) ==
    /\ IsFiniteSet(DOMAIN used) /\ DOMAIN used \subseteq Nat
    /\ \A i \in DOMAIN used : used[i] \in Nat
    /\ SumFunction(used) = Value[r]

\* An allocation fails, or it takes the cost of its request from the lots.
LEMMA AllocateRows ==
    ASSUME TypeOK, NEW c \in Callers, NEW seen, Allocate(c, seen),
           call[c].subject \in Requests, UNCHANGED <<lots, drawn>> => FALSE
    PROVE  /\ Held(lots')
           /\ \A o \in Orders : LotsOf(lots', o) = LotsOf(lots, o)
           /\ Funded(lots') = Funded(lots) + call[c].missing
           /\ Remaining(lots') = (Remaining(lots) + call[c].missing) - Value[call[c].subject]
           /\ \E used : /\ Allotted(used, call[c].subject)
                        /\ drawn' = drawn \cup Allocations(call[c].subject, used)
<1> DEFINE r == call[c].subject
           n == Value[r]
           missing == call[c].missing
           ls == WithLegacyLot(lots, missing)
           visible == Visible(ls, seen)
           used == Used(ls, visible, n)
<1>1. /\ SumFunction(used) = n /\ lots' = Drained(ls, used)
      /\ drawn' = drawn \cup Allocations(r, used)
  BY DEF Allocate
<1>2. Held(lots) /\ missing \in Nat /\ n \in Nat
  BY CallTyped, WalletAssumption DEF TypeOK, Held
<1>3. /\ Held(ls)
      /\ \A i \in DOMAIN lots : i \in DOMAIN ls /\ ls[i] = lots[i]
      /\ \A i \in DOMAIN ls \ DOMAIN lots : ls[i].of = "legacy"
      /\ Funded(ls) = Funded(lots) + missing
      /\ Remaining(ls) = Remaining(lots) + missing
  <2>1. CASE missing = 0
    <3>1. ls = lots
      BY <2>1 DEF WithLegacyLot
    <3> QED
      BY <1>2, <2>1, <3>1, FundedNat
  <2>2. CASE missing # 0
    <3>1. Added(ls, lots, "legacy", missing)
      BY <2>2 DEF WithLegacyLot, Added
    <3>2. "legacy" \in Orders \cup {"legacy"}
      OBVIOUS
    <3> HIDE DEF ls, missing
    <3>3. /\ Held(ls)
          /\ Len(ls) = Len(lots) + 1
          /\ \A i \in DOMAIN lots : i \in DOMAIN ls /\ ls[i] = lots[i]
          /\ \A i \in DOMAIN ls \ DOMAIN lots : i = Len(lots) + 1 /\ ls[i].of = "legacy"
          /\ Funded(ls) = Funded(lots) + missing
          /\ Remaining(ls) = Remaining(lots) + missing
      BY <1>2, <3>1, <3>2, LotAdded
    <3> QED
      BY <3>3
  <2> QED
    BY <2>1, <2>2
<1>4. visible \in SUBSET DOMAIN ls
  BY DEF Visible
<1> HIDE DEF ls, visible, n
<1>5. DOMAIN used = DOMAIN ls /\ \A i \in DOMAIN ls : used[i] \in 0 .. ls[i].remaining
  BY <1>2, <1>3, <1>4, UsedWithin
<1> HIDE DEF used
<1>6. /\ Held(lots')
      /\ DOMAIN lots' = DOMAIN ls
      /\ \A i \in DOMAIN ls : lots'[i].of = ls[i].of /\ lots'[i].original = ls[i].original
      /\ Funded(lots') = Funded(ls)
      /\ Remaining(lots') = Remaining(ls) - SumFunction(used)
  BY <1>1, <1>3, <1>5, LotsDrained
<1>7. \A o \in Orders : LotsOf(lots', o) = LotsOf(lots, o)
  <2>1. \A i \in DOMAIN lots : i \in DOMAIN lots' /\ lots'[i].of = lots[i].of
    BY <1>3, <1>6
  <2>2. \A i \in DOMAIN lots' \ DOMAIN lots : lots'[i].of = "legacy"
    BY <1>3, <1>6
  <2> QED
    BY <2>1, <2>2, OwnersKept
<1>8. Allotted(used, r)
  <2>1. IsFiniteSet(DOMAIN used) /\ DOMAIN used \subseteq Nat
    BY <1>3, <1>5, HeldTyped
  <2>2. \A i \in DOMAIN used : used[i] \in Nat
    BY <1>3, <1>5, HeldTyped
  <2> QED
    BY <1>1, <2>1, <2>2 DEF Allotted, n
<1>9. /\ Funded(lots') = Funded(lots) + missing
      /\ Remaining(lots') = (Remaining(lots) + missing) - n
  <2>1. Funded(lots') = Funded(ls) /\ Funded(ls) = Funded(lots) + missing
    BY <1>3, <1>6
  <2>1a. Funded(lots') = Funded(lots) + missing
    BY <2>1
  <2>2. /\ Remaining(lots') = Remaining(ls) - SumFunction(used) /\ SumFunction(used) = n
        /\ Remaining(ls) = Remaining(lots) + missing
    BY <1>1, <1>3, <1>6
  <2> DEFINE p == Remaining(ls)
             q == SumFunction(used)
             t == Remaining(lots) + missing
  <2>3. Remaining(lots') = p - q /\ p = t /\ q = n
    BY <2>2
  <2> HIDE DEF p, q, t, missing
  <2>4. Remaining(lots') = t - n
    BY <2>3
  <2> QED
    BY <2>1a, <2>4 DEF t
<1> QED
  BY <1>1, <1>6, <1>7, <1>8, <1>9 DEF n

\* The lots of an order are counted by OneGrantPerOrder.
GrantsOnce ==
    \A o \in Orders :
        /\ granted[o] = IF o \in paid THEN Value[o] ELSE 0
        /\ Cardinality(LotsOf(lots, o)) = IF o \in paid THEN 1 ELSE 0

\* The lots of an order, by name or spelled out.
LEMMA GrantsCounted == OneGrantPerOrder <=> GrantsOnce
BY DEF OneGrantPerOrder, GrantsOnce, LotsOf

\* A committed credit leaves rows well typed, and brings the first balance once.
LEMMA CreditBase ==
    ASSUME BaseInv, NEW c \in Callers, Credit(c)
    PROVE  BaseInv'
<1> DEFINE o == call[c].subject
           gift == LedgerCredit(o)
           moved == call[c].boot + call[c].diff + gift
           available == account.available + moved
           boot == account.boot + call[c].boot
<1>1. /\ call[c].at = "credit" /\ CanCommit(c) /\ Update(c, NoCall)
      /\ account' = [exists |-> TRUE, available |-> available, used |-> TRUE, boot |-> boot]
      /\ granted' = [granted EXCEPT ![o] = granted[o] + gift]
      /\ lots' = RecordFundingLot(lots, o) /\ quota' = quota + Value[o]
      /\ paid' = paid \cup {o} /\ due' = IF o \in paid THEN due ELSE due + Value[o]
      /\ UNCHANGED <<drawn, faults, history>>
  BY DEF Credit, At, End
<1>2. /\ call[c].boot \in Nat /\ call[c].diff \in Int /\ o \in Orders
      /\ call[c].boot \in {0, InitialQuota}
  BY <1>1, CallTyped
     DEF BaseInv, CallsFormed, Formed, ToppingUp, FirstBalances, FirstBalance
<1>3. /\ account.available \in Int /\ account.boot \in {0, InitialQuota}
      /\ InitialQuota \in Nat /\ quota \in Int /\ due \in Int
  BY AccountTyped DEF BaseInv, BootstrapOnce
<1>4. Value[o] \in Nat /\ gift \in Nat
  BY <1>2, WalletAssumption DEF LedgerCredit
<1>5. boot \in {0, InitialQuota}
  BY <1>1, <1>2, <1>3 DEF CanCommit
<1>6. boot \in Nat
  BY <1>3, <1>5
<1> HIDE DEF boot, gift
<1>7. available \in Int
  BY <1>2, <1>3, <1>4
<1> HIDE DEF available
<1>8. /\ account' \in Account /\ account'.boot = boot /\ account'.used
      /\ quota' \in Int /\ due' \in Int
  BY <1>1, <1>3, <1>4, <1>6, <1>7 DEF Account
<1>9. Pristine' /\ BootstrapOnce'
  BY <1>5, <1>8 DEF Pristine, BootstrapOnce
<1>10. Held(lots')
  BY <1>1, <1>2, LotRecorded DEF BaseInv, TypeOK, Held
<1>11. granted' \in [Orders -> Nat]
  <2> DEFINE g == granted[o] + gift
  <2>1. granted \in [Orders -> Nat] /\ g \in Nat
    BY <1>2, <1>4 DEF BaseInv, TypeOK
  <2> HIDE DEF g, o
  <2> QED
    BY <1>1, <1>2, <2>1 DEF g
<1>12. RowsTyped'
  BY <1>1, <1>2, <1>10, <1>11 DEF BaseInv, TypeOK, RowsTyped, Held
<1>13. calls' \in Nat /\ faults' \in Nat /\ apart' \in BOOLEAN
  BY <1>1 DEF BaseInv, TypeOK, history
<1>14. Formed(NoCall) /\ FirstBalance(NoCall, account'.used)
  BY NoCallFormed DEF Formed, FirstBalance, Adjusting, ToppingUp, Attributing
<1> QED
  BY <1>1, <1>8, <1>9, <1>12, <1>13, <1>14, NoCallFormed, RowsMove

\* A committed credit grants a paid order once.
LEMMA CreditGrants ==
    ASSUME BaseInv, GrantsOnce, NEW c \in Callers, Credit(c)
    PROVE  GrantsOnce'
<1> DEFINE o == call[c].subject
           gift == LedgerCredit(o)
           g == granted[o] + gift
<1>1. /\ call[c].at = "credit"
      /\ granted' = [granted EXCEPT ![o] = g]
      /\ lots' = RecordFundingLot(lots, o)
      /\ paid' = paid \cup {o}
  BY DEF Credit, At
<1>2. /\ o \in Orders /\ Held(lots) /\ granted \in [Orders -> Nat]
      /\ Value[o] \in Nat /\ Value[o] # 0
  BY <1>1, WalletAssumption DEF BaseInv, CallsFormed, Formed, ToppingUp, TypeOK, Held
<1>3. g = Value[o]
  BY <1>2 DEF GrantsOnce, LedgerCredit
<1>4. o \in paid <=> LotsOf(lots, o) # {}
  <2>1. IsFiniteSet(LotsOf(lots, o))
    BY <1>2, HeldTyped, FS_Subset DEF LotsOf
  <2>2. Cardinality(LotsOf(lots, o)) = 0 <=> LotsOf(lots, o) = {}
    BY <2>1, FS_EmptySet
  <2> QED
    BY <1>2, <2>2 DEF GrantsOnce
<1>5. /\ LotsOf(lots, o) # {} => lots' = lots
      /\ LotsOf(lots, o) = {} =>
            /\ \E i : LotsOf(lots', o) = {i}
            /\ \A p \in Orders \ {o} : LotsOf(lots', p) = LotsOf(lots, p)
  <2> HIDE DEF o
  <2>1. o \in Orders /\ Held(lots) /\ lots' = RecordFundingLot(lots, o)
    BY <1>1, <1>2
  <2>2. Recorded(lots', lots, o)
    BY <2>1, LotRecorded
  <2> QED
    BY <2>2 DEF Recorded
<1> HIDE DEF o, g
<1>6. Cardinality(LotsOf(lots', o)) = 1
  <2>1. CASE LotsOf(lots, o) # {}
    BY <1>2, <1>4, <1>5, <2>1 DEF GrantsOnce
  <2>2. CASE LotsOf(lots, o) = {}
    BY <1>5, <2>2, FS_Singleton
  <2> QED
    BY <2>1, <2>2
<1>7. granted'[o] = Value[o]
  BY <1>1, <1>2, <1>3
<1>8. ASSUME NEW p \in Orders, p # o
      PROVE  /\ granted'[p] = granted[p] /\ LotsOf(lots', p) = LotsOf(lots, p)
             /\ p \in paid' <=> p \in paid
  BY <1>1, <1>2, <1>5, <1>8
<1> QED
  BY <1>1, <1>6, <1>7, <1>8 DEF GrantsOnce

\* An allocation leaves rows well typed.
LEMMA AllocateBase ==
    ASSUME BaseInv, NEW c \in Callers, NEW seen, Allocate(c, seen)
    PROVE  /\ BaseInv'
           /\ GrantsOnce => GrantsOnce'
<1>1. /\ call[c].at = "allocate" /\ Update(c, NoCall)
      /\ UNCHANGED <<account, quota, granted, paid, faults, due, history>>
  BY DEF Allocate, At, End
<1>2. call[c].subject \in Requests /\ TypeOK
  BY <1>1 DEF BaseInv, CallsFormed, Formed, Attributing
<1>3. Held(lots') /\ \A o \in Orders : LotsOf(lots', o) = LotsOf(lots, o)
  <2>1. CASE UNCHANGED <<lots, drawn>>
    BY <1>2, <2>1 DEF TypeOK, Held
  <2>2. CASE ~UNCHANGED <<lots, drawn>>
    BY <1>2, <2>2, AllocateRows
  <2> QED
    BY <2>1, <2>2
<1>4. drawn' \subseteq [request : Requests, lot : Nat, amount : Nat \ {0}]
  <2>1. CASE UNCHANGED <<lots, drawn>>
    BY <1>2, <2>1 DEF TypeOK
  <2>2. CASE ~UNCHANGED <<lots, drawn>>
    <3>1. PICK used : /\ Allotted(used, call[c].subject)
                      /\ drawn' = drawn \cup Allocations(call[c].subject, used)
      BY <1>2, <2>2, AllocateRows
    <3>2. Allocations(call[c].subject, used)
            \subseteq [request : Requests, lot : Nat, amount : Nat \ {0}]
      BY <1>2, <3>1 DEF Allotted, Allocations
    <3> QED
      BY <1>2, <3>1, <3>2 DEF TypeOK
  <2> QED
    BY <2>1, <2>2
<1>5. RowsTyped'
  BY <1>1, <1>2, <1>3, <1>4 DEF TypeOK, RowsTyped, Held
<1>6. /\ account' \in Account /\ quota' \in Int /\ due' \in Int /\ calls' \in Nat
      /\ faults' \in Nat /\ apart' \in BOOLEAN /\ Pristine' /\ BootstrapOnce'
  BY <1>1 DEF BaseInv, TypeOK, history, Pristine, BootstrapOnce
<1>7. Formed(NoCall) /\ FirstBalance(NoCall, account'.used)
  BY NoCallFormed DEF Formed, FirstBalance, Adjusting, ToppingUp, Attributing
<1>8. BaseInv'
  BY <1>1, <1>5, <1>6, <1>7, NoCallFormed, RowsMove
<1>9. GrantsOnce => GrantsOnce'
  BY <1>1, <1>3 DEF GrantsOnce
<1> QED
  BY <1>8, <1>9

-----------------------------------------------------------------------------
(* The wallet is safe *)

\* What holds of rows, calls, the first balance and the grants of orders.
SafeInv == BaseInv /\ GrantsOnce

\* No order is paid, no lot exists, and the ledger is empty.
LEMMA SafeInit == Init => SafeInv
<1> SUFFICES ASSUME Init PROVE SafeInv
  OBVIOUS
<1>1. /\ account = NewAccount /\ quota = InitialQuota /\ granted = [o \in Orders |-> 0]
      /\ lots = <<>> /\ drawn = {} /\ paid = {} /\ call = [c \in Callers |-> NoCall]
      /\ calls = 0 /\ faults = 0 /\ due = InitialQuota /\ apart = TRUE
  BY DEF Init
<1>2. account \in Account /\ account.available = 0 /\ account.boot = 0 /\ ~account.used
  BY <1>1 DEF NewAccount, Account
<1>3. TypeOK
  BY <1>1, <1>2, NoCallFormed, WalletAssumption DEF TypeOK
<1>4. Pristine /\ BootstrapOnce
  BY <1>1, <1>2 DEF Pristine, BootstrapOnce
<1>5. CallsFormed /\ FirstBalances
  <2>1. Formed(NoCall) /\ FirstBalance(NoCall, account.used)
    BY NoCallFormed DEF Formed, FirstBalance, Adjusting, ToppingUp, Attributing
  <2> QED
    BY <1>1, <2>1 DEF CallsFormed, FirstBalances
<1>6. GrantsOnce
  <2>1. \A o \in Orders : LotsOf(lots, o) = {}
    BY <1>1 DEF LotsOf
  <2> QED
    BY <1>1, <2>1, FS_EmptySet DEF GrantsOnce
<1> QED
  BY <1>3, <1>4, <1>5, <1>6 DEF SafeInv, BaseInv

\* Steps other than credits and allocations grant nothing.
LEMMA GrantsKept ==
    ASSUME GrantsOnce, UNCHANGED <<granted, lots, paid>>
    PROVE  GrantsOnce'
BY DEF GrantsOnce

\* Every step of a call keeps the invariant.
LEMMA ProceedSafe ==
    ASSUME SafeInv, NEW c \in Callers, Proceed(c)
    PROVE  SafeInv'
<1>1. CASE SetRead(c) \/ Read(c) \/ Compare(c)
  <2>1. UNCHANGED <<granted, lots, paid>>
    BY <1>1 DEF SetRead, Read, Compare, wallet
  <2> QED
    BY <1>1, <2>1, ReadsBase, GrantsKept DEF SafeInv
<1>2. CASE Ensure(c)
  BY <1>2, EnsureBase, GrantsKept DEF SafeInv, Ensure
<1>3. CASE Bootstrap(c)
  BY <1>3, BootstrapBase, GrantsKept DEF SafeInv, Bootstrap
<1>4. CASE Align(c) \/ Apply(c) \/ Undo(c)
  <2>1. UNCHANGED <<granted, lots, paid>>
    BY <1>4 DEF Align, Apply, Undo, ApplyLedgerDelta
  <2> QED
    BY <1>4, <2>1, ChargesBase, GrantsKept DEF SafeInv
<1>5. CASE Project(c)
  BY <1>5, ProjectBase, GrantsKept DEF SafeInv, Project
<1>6. CASE ReadOrder(c) \/ SaveOrder(c) \/ ReadColumn(c) \/ ReadSnapshot(c)
               \/ RollbackCredit(c)
  <2>1. UNCHANGED <<granted, lots, paid>>
    BY <1>6 DEF ReadOrder, SaveOrder, ReadColumn, ReadSnapshot, RollbackCredit, wallet
  <2> QED
    BY <1>6, <2>1, TopUpReadsBase, GrantsKept DEF SafeInv
<1>7. CASE Credit(c)
  BY <1>7, CreditBase, CreditGrants DEF SafeInv
<1>8. CASE ReadLots(c)
  <2>1. UNCHANGED <<granted, lots, paid>>
    BY <1>8 DEF ReadLots, wallet
  <2> QED
    BY <1>8, <2>1, ReadLotsBase, GrantsKept DEF SafeInv
<1>9. ASSUME NEW seen \in 0 .. Len(lots), Allocate(c, seen) PROVE SafeInv'
  BY <1>9, AllocateBase DEF SafeInv
<1> QED
  BY <1>1, <1>2, <1>3, <1>4, <1>5, <1>6, <1>7, <1>8, <1>9 DEF Proceed

\* Every step keeps the first balance single and grants an order once.
LEMMA SafeStep == SafeInv /\ [Next]_vars => SafeInv'
<1> SUFFICES ASSUME SafeInv, [Next]_vars PROVE SafeInv'
  OBVIOUS
<1>1. ASSUME NEW c \in Callers,
             \/ \E delta \in Deltas : Adjust(c, delta)
             \/ \E target \in Targets : Set(c, target)
             \/ \E o \in Orders : Complete(c, o)
      PROVE  SafeInv'
  <2>1. UNCHANGED wallet
    <3>1. ASSUME NEW delta \in Deltas, Adjust(c, delta) PROVE UNCHANGED wallet
      BY <3>1 DEF Adjust
    <3>2. ASSUME NEW target \in Targets, Set(c, target) PROVE UNCHANGED wallet
      BY <3>2 DEF Set
    <3>3. ASSUME NEW o \in Orders, Complete(c, o) PROVE UNCHANGED wallet
      BY <3>3 DEF Complete
    <3> QED
      BY <1>1, <3>1, <3>2, <3>3
  <2>2. UNCHANGED <<granted, lots, paid>>
    BY <2>1 DEF wallet
  <2> QED
    BY <1>1, <2>2, StartBase, GrantsKept DEF SafeInv
<1>2. ASSUME NEW c \in Callers, NEW r \in Requests, Settle(c, r) PROVE SafeInv'
  <2>1. UNCHANGED <<granted, lots, paid>>
    BY <1>2 DEF Settle
  <2>2. BaseInv'
    BY <1>2, SettleBase DEF SafeInv
  <2> QED
    BY <2>1, <2>2, GrantsKept DEF SafeInv
<1>3. ASSUME NEW c \in Callers, Proceed(c) PROVE SafeInv'
  BY <1>3, ProceedSafe
<1>4. ASSUME NEW c \in Callers, Fail(c) \/ FailSettling(c) PROVE SafeInv'
  <2>1. UNCHANGED <<granted, lots, paid>>
    BY <1>4 DEF Fail, FailSettling, wallet
  <2> QED
    BY <1>4, <2>1, FaultsBase, GrantsKept DEF SafeInv
<1>5. CASE UNCHANGED vars
  BY <1>5 DEF vars, SafeInv, BaseInv, TypeOK, CallsFormed, Pristine, BootstrapOnce,
              FirstBalances, GrantsOnce
<1> QED
  BY <1>1, <1>2, <1>3, <1>4, <1>5 DEF Next

\* However calls overlap, repeat and fail, rows are well typed, and the first
\* balance and every paid order enter the ledger and the lots once.
THEOREM WalletSafe == Spec => []WalletInv
<1>1. SafeInv => WalletInv
  BY GrantsCounted DEF SafeInv, BaseInv, WalletInv
<1> QED
  BY <1>1, SafeInit, SafeStep, PTL DEF Spec

-----------------------------------------------------------------------------
(* Attribution *)

\* A request that waits for its attribution has none yet and one call.
AwaitsDraw ==
    /\ \A c \in Callers : call[c].at \in Attributing =>
          \A p \in drawn : p.request # call[c].subject
    /\ \A c, d \in Callers :
          /\ call[c].at \in Attributing /\ call[d].at \in Attributing
          /\ call[c].subject = call[d].subject
          => c = d

\* A call that is not, or no longer, to attribute.
Leaves(c) == \E k : Update(c, k) /\ k.at \notin Attributing

\* Of the steps of a call, only two leave it with its attribution before it.
LEMMA StartLeaves ==
    ASSUME TypeOK, NEW c \in Callers,
           \/ \E delta \in Deltas : Adjust(c, delta)
           \/ \E target \in Targets : Set(c, target)
           \/ \E o \in Orders : Complete(c, o)
    PROVE  Leaves(c) /\ UNCHANGED <<lots, drawn>>
<1>1. ASSUME NEW delta \in Deltas, Adjust(c, delta) PROVE Leaves(c) /\ UNCHANGED wallet
  <2> DEFINE k == [NoCall EXCEPT !.at = "read", !.delta = delta]
  <2>1. Begin(c, k) /\ UNCHANGED <<wallet, faults, due>>
    BY <1>1, Zenon DEF Adjust
  <2>2. k.at = "read"
    BY DEF NoCall
  <2> HIDE DEF k
  <2>3. Update(c, k) /\ UNCHANGED wallet
    BY <2>1 DEF Begin
  <2> QED
    BY <2>2, <2>3 DEF Leaves, Attributing
<1>2. ASSUME NEW target \in Targets, Set(c, target) PROVE Leaves(c) /\ UNCHANGED wallet
  <2> DEFINE k == [NoCall EXCEPT !.at = "setRead", !.target = target]
  <2>1. Begin(c, k) /\ UNCHANGED <<wallet, faults, due>>
    BY <1>2, Zenon DEF Set
  <2>2. k.at = "setRead"
    BY DEF NoCall
  <2> HIDE DEF k
  <2>3. Update(c, k) /\ UNCHANGED wallet
    BY <2>1 DEF Begin
  <2> QED
    BY <2>2, <2>3 DEF Leaves, Attributing
<1>3. ASSUME NEW o \in Orders, Complete(c, o) PROVE Leaves(c) /\ UNCHANGED wallet
  <2> DEFINE k == [NoCall EXCEPT !.at = "order", !.subject = o]
  <2>1. Begin(c, k) /\ UNCHANGED <<wallet, faults, due>>
    BY <1>3, Zenon DEF Complete
  <2>2. k.at = "order"
    BY DEF NoCall
  <2> HIDE DEF k
  <2>3. Update(c, k) /\ UNCHANGED wallet
    BY <2>1 DEF Begin
  <2> QED
    BY <2>2, <2>3 DEF Leaves, Attributing
<1>4. UNCHANGED wallet => UNCHANGED <<lots, drawn>>
  BY DEF wallet
<1> QED
  BY <1>1, <1>2, <1>3, <1>4

\* A call that ends or goes to another place.
LEMMA EndLeaves ==
    ASSUME TypeOK, NEW c \in Callers, End(c)
    PROVE  Leaves(c)
BY NoCallFormed DEF End, Leaves, Attributing

\* A call that goes on outside an attribution is no attribution.
LEMMA GoToLeaves ==
    ASSUME TypeOK, NEW c \in Callers, NEW place, place \notin Attributing, GoTo(c, place)
    PROVE  Leaves(c)
<1> DEFINE k == [call[c] EXCEPT !.at = place]
<1>1. k.at = place
  BY CallTyped DEF Call
<1>2. Update(c, k)
  BY DEF GoTo
<1> HIDE DEF k
<1> QED
  BY <1>1, <1>2 DEF Leaves

\* Every step of the other calls leaves lots and allocations alone.
LEMMA ProceedLeaves ==
    ASSUME TypeOK, NEW c \in Callers,
           \/ SetRead(c) \/ Read(c) \/ Ensure(c) \/ Bootstrap(c) \/ Compare(c)
           \/ Align(c) \/ Apply(c) \/ Project(c) \/ Undo(c)
           \/ ReadOrder(c) \/ SaveOrder(c) \/ ReadColumn(c) \/ ReadSnapshot(c)
           \/ RollbackCredit(c) \/ Fail(c) \/ FailSettling(c)
    PROVE  Leaves(c) /\ UNCHANGED <<lots, drawn>>
<1>0. call[c] \in Call
  BY CallTyped
<1>1. CASE SetRead(c)
  <2> DEFINE delta == GetUserWalletQuota - call[c].target
             k == [call[c] EXCEPT !.delta = delta, !.at = "read"]
  <2>1. UNCHANGED wallet /\ Update(c, IF delta = 0 THEN NoCall ELSE k)
    BY <1>1 DEF SetRead
  <2> HIDE DEF delta
  <2>2. k.at = "read"
    BY <1>0 DEF Call
  <2> HIDE DEF k
  <2>3. UNCHANGED <<lots, drawn>>
    BY <2>1 DEF wallet
  <2> QED
    BY <2>1, <2>2, <2>3, NoCallFormed DEF Leaves, Attributing
<1>2. CASE Read(c)
  <2> DEFINE seen == GetUserWalletQuota
             k == [call[c] EXCEPT !.seen = seen, !.at = "ensure"]
  <2>1. UNCHANGED wallet /\ Update(c, k)
    BY <1>2 DEF Read
  <2> HIDE DEF seen
  <2>2. k.at = "ensure"
    BY <1>0 DEF Call
  <2> HIDE DEF k
  <2> QED
    BY <2>1, <2>2 DEF Leaves, Attributing, wallet
<1>3. CASE Ensure(c) \/ Bootstrap(c)
  <2>1. UNCHANGED <<lots, drawn>>
    BY <1>3 DEF Ensure, Bootstrap
  <2>2. GoTo(c, "compare") \/ GoTo(c, "bootstrap") \/ End(c)
    BY <1>3 DEF Ensure, Bootstrap
  <2>3. "compare" \notin Attributing /\ "bootstrap" \notin Attributing
    BY DEF Attributing
  <2> QED
    BY <2>1, <2>2, <2>3, EndLeaves, GoToLeaves
<1>4. CASE Compare(c)
  <2> DEFINE diff == call[c].seen - account.available
             place == IF diff = 0 THEN "apply" ELSE "align"
             k == [call[c] EXCEPT !.diff = diff, !.at = place]
  <2>1. UNCHANGED wallet /\ Update(c, k) /\ place \notin Attributing
    BY <1>4 DEF Compare, Attributing
  <2> HIDE DEF diff, place
  <2>2. k.at = place
    BY <1>0 DEF Call
  <2> HIDE DEF k
  <2> QED
    BY <2>1, <2>2 DEF Leaves, wallet
<1>5. CASE Align(c) \/ Apply(c) \/ Undo(c)
  <2>1. UNCHANGED <<lots, drawn>>
    BY <1>5 DEF Align, Apply, Undo, ApplyLedgerDelta
  <2>2. GoTo(c, "apply") \/ GoTo(c, "project") \/ End(c)
    BY <1>5 DEF Align, Apply, Undo, ApplyLedgerDelta, GoTo, End
  <2>3. "apply" \notin Attributing /\ "project" \notin Attributing
    BY DEF Attributing
  <2> QED
    BY <2>1, <2>2, <2>3, EndLeaves, GoToLeaves
<1>6. CASE Project(c) \/ RollbackCredit(c) \/ FailSettling(c)
  <2>1. End(c) /\ UNCHANGED <<lots, drawn>>
    BY <1>6 DEF Project, RollbackCredit, FailSettling, wallet
  <2> QED
    BY <2>1, EndLeaves
<1>7. CASE ReadOrder(c) \/ SaveOrder(c) \/ Fail(c)
  <2>1. UNCHANGED <<lots, drawn>>
    BY <1>7 DEF ReadOrder, SaveOrder, Fail, wallet
  <2>2. GoTo(c, "save") \/ GoTo(c, "balance") \/ GoTo(c, "undo") \/ End(c)
    BY <1>7 DEF ReadOrder, SaveOrder, Fail
  <2>3. "save" \notin Attributing /\ "balance" \notin Attributing /\ "undo" \notin Attributing
    BY DEF Attributing
  <2> QED
    BY <2>1, <2>2, <2>3, EndLeaves, GoToLeaves
<1>8. CASE ReadColumn(c)
  <2> DEFINE k == [call[c] EXCEPT !.seen = quota, !.at = "snapshot"]
  <2>1. UNCHANGED wallet /\ Update(c, k)
    BY <1>8 DEF ReadColumn
  <2>2. k.at = "snapshot"
    BY <1>0 DEF Call
  <2> HIDE DEF k
  <2> QED
    BY <2>1, <2>2 DEF Leaves, Attributing, wallet
<1>9. CASE ReadSnapshot(c)
  <2> DEFINE boot == IF account.used \/ call[c].seen <= 0 THEN 0 ELSE call[c].seen
             fresh == ~account.exists
             diff == call[c].seen - account.available - boot
             k == [call[c] EXCEPT !.boot = boot, !.fresh = fresh, !.diff = diff,
                                  !.at = "credit"]
  <2>1. UNCHANGED wallet /\ Update(c, k)
    BY <1>9 DEF ReadSnapshot
  <2> HIDE DEF boot, fresh, diff
  <2>2. k.at = "credit"
    BY <1>0 DEF Call
  <2> HIDE DEF k
  <2> QED
    BY <2>1, <2>2 DEF Leaves, Attributing, wallet
<1> QED
  BY <1>1, <1>2, <1>3, <1>4, <1>5, <1>6, <1>7, <1>8, <1>9

\* A step that leaves attribution alone keeps what waits for it.
LEMMA AwaitsKept ==
    ASSUME TypeOK, AwaitsDraw, NEW c \in Callers, Leaves(c), UNCHANGED drawn
    PROVE  AwaitsDraw'
<1>1. PICK k : Update(c, k) /\ k.at \notin Attributing
  BY DEF Leaves
<1>2. call'[c] = k /\ \A d \in Callers \ {c} : call'[d] = call[d]
  BY <1>1, OneMoves
<1> QED
  BY <1>1, <1>2 DEF AwaitsDraw

\* A settlement makes one call for a request that had none.
LEMMA SettleAwaits ==
    ASSUME TypeOK, AwaitsDraw, NEW c \in Callers, NEW r \in Requests, Settle(c, r)
    PROVE  AwaitsDraw'
<1> DEFINE k == [NoCall EXCEPT !.at = "lots", !.subject = r]
<1>1. /\ \A d \in Callers : call[d].subject # r
      /\ ~\E p \in drawn : p.request = r
      /\ Begin(c, k) /\ UNCHANGED drawn
  BY DEF Settle
<1>2. k.at = "lots" /\ k.subject = r
  BY DEF NoCall
<1> HIDE DEF k
<1>3. call'[c] = k /\ \A d \in Callers \ {c} : call'[d] = call[d]
  BY <1>1, OneMoves DEF Begin
<1> QED
  BY <1>1, <1>2, <1>3 DEF AwaitsDraw

\* The read of the lots goes on with the same request.
LEMMA ReadLotsAwaits ==
    ASSUME TypeOK, AwaitsDraw, NEW c \in Callers, ReadLots(c)
    PROVE  AwaitsDraw'
<1> DEFINE missing == Missing(Value[call[c].subject])
           known == Len(lots)
           k == [call[c] EXCEPT !.missing = missing, !.known = known, !.at = "allocate"]
<1>1. call[c].at = "lots" /\ Update(c, k) /\ UNCHANGED drawn
  BY DEF ReadLots, At, wallet
<1> HIDE DEF missing, known
<1>2. k.at = "allocate" /\ k.subject = call[c].subject
  BY CallTyped DEF Call
<1> HIDE DEF k
<1>3. call'[c] = k /\ \A d \in Callers \ {c} : call'[d] = call[d]
  BY <1>1, OneMoves
<1>4. call[c].at \in Attributing
  BY <1>1 DEF Attributing
<1> QED
  BY <1>1, <1>2, <1>3, <1>4 DEF AwaitsDraw

\* What a set of allocations gives a request.
Requested(d, r) == {q \in d : q.request = r}

\* The amount that the allocations d attribute to request r.
AmountOf(d, r) == SumFunction([p \in Requested(d, r) |-> p.amount])

\* What Attribution sees drawn by a request is the amount of its allocations.
LEMMA DrawnIsAmount == \A r \in Requests : Drawn(r) = AmountOf(drawn, r)
BY DEF Drawn, AmountOf, Requested

\* Allocations for r, more than before.
Draws(d, r) ==
    /\ IsFiniteSet(d)
    /\ AmountOf(drawn, r) = 0
    /\ AmountOf(d, r) = Value[r]
    /\ \A s \in Requests \ {r} : AmountOf(d, s) = AmountOf(drawn, s)

\* A request that drew nothing has drawn its cost after its allocation, and no
\* other request has drawn more or less.
LEMMA DrawAdded ==
    ASSUME IsFiniteSet(drawn), NEW r \in Requests, NEW used, Allotted(used, r),
           \A p \in drawn : p.request # r,
           NEW d, d = drawn \cup Allocations(r, used)
    PROVE  Draws(d, r)
<1> DEFINE D == {i \in DOMAIN used : used[i] # 0}
           m == [i \in D |-> [request |-> r, lot |-> i, amount |-> used[i]]]
           A == Allocations(r, used)
<1>1. A = {m[i] : i \in D}
  BY DEF Allocations
<1>2. /\ \A i \in D : m[i].request = r /\ m[i].lot = i /\ m[i].amount = used[i]
      /\ \A i \in D : used[i] \in Nat
      /\ IsFiniteSet(D) /\ D \in SUBSET DOMAIN used /\ IsFiniteSet(DOMAIN used)
  BY FS_Subset DEF Allotted
<1>3. \A p \in A : p.request = r
  <2> HIDE DEF D, m, A
  <2> QED
    BY <1>1, <1>2
<1>4. Requested(d, r) = A /\ Requested(drawn, r) = {}
  BY <1>3 DEF Requested
<1>5. \A s \in Requests \ {r} : Requested(d, s) = Requested(drawn, s)
  BY <1>3 DEF Requested
<1>6. IsFiniteSet(A) /\ AmountOf(d, r) = Value[r]
  <2> DEFINE f == [p \in A |-> p.amount]
  <2>1. ASSUME NEW i \in D PROVE used[i] \in Int /\ f[m[i]] = used[i]
    <3> HIDE DEF m, A, D
    <3>1. m[i] \in A
      BY <1>1
    <3>2. f[m[i]] = m[i].amount
      BY <3>1
    <3> QED
      BY <1>2, <3>2
  <2>2. \A i, j \in D : m[i] = m[j] => i = j
    BY <1>2
  <2>3. DOMAIN f = A
    OBVIOUS
  <2>4. AmountOf(d, r) = SumFunctionOnSet(f, A)
    BY <1>4, <2>3 DEF AmountOf, SumFunction
  <2>5. \A i \in DOMAIN used \ D : used[i] = 0
    OBVIOUS
  <2> HIDE DEF f, m, D, A
  <2>6. /\ IsFiniteSet({m[i] : i \in D})
        /\ SumFunctionOnSet(f, {m[i] : i \in D}) = SumFunctionOnSet(used, D)
    BY <1>2, <2>1, <2>2, SumImage
  <2>7. \A i \in D : used[i] \in Int /\ used[i] = used[i]
    BY <2>1
  <2>8. SumFunctionOnSet(used, DOMAIN used) = SumFunctionOnSet(used, D)
    BY <1>2, <2>5, <2>7, SumSupport
  <2>9. SumFunctionOnSet(used, DOMAIN used) = Value[r]
    BY DEF Allotted, SumFunction
  <2> QED
    BY <1>1, <2>4, <2>6, <2>8, <2>9
<1>7. IsFiniteSet(d)
  BY <1>6, FS_Union
<1>8. AmountOf(drawn, r) = 0
  <2> DEFINE f == [p \in Requested(drawn, r) |-> p.amount]
  <2>1. DOMAIN f = {}
    BY <1>4
  <2> HIDE DEF f
  <2>2. SumFunction(f) = 0
    BY <2>1, SumEmpty DEF SumFunction
  <2> QED
    BY <2>2 DEF AmountOf, f
<1>9. \A s \in Requests \ {r} : AmountOf(d, s) = AmountOf(drawn, s)
  BY <1>5 DEF AmountOf
<1> QED
  BY <1>6, <1>7, <1>8, <1>9 DEF Draws

\* What a set of allocations gives all requests.
TotalOf(d) == SumFunction([r \in Requests |-> AmountOf(d, r)])

\* It is an integer.
LEMMA AmountInt ==
    ASSUME IsFiniteSet(drawn), NEW r \in Requests,
           drawn \subseteq [request : Requests, lot : Nat, amount : Nat \ {0}]
    PROVE  AmountOf(drawn, r) \in Int
<1> DEFINE S == Requested(drawn, r)
           f == [p \in S |-> p.amount]
<1>1. IsFiniteSet(S) /\ \A p \in S : f[p] \in Int
  BY FS_Subset DEF Requested
<1>2. DOMAIN f = S
  OBVIOUS
<1> HIDE DEF f, S
<1>3. SumFunctionOnSet(f, DOMAIN f) \in Int
  BY <1>1, <1>2, SumInt
<1> QED
  BY <1>3 DEF AmountOf, SumFunction, f, S

\* The total grows by the cost of the request.
LEMMA TotalAdded ==
    ASSUME IsFiniteSet(drawn),
           drawn \subseteq [request : Requests, lot : Nat, amount : Nat \ {0}],
           NEW r \in Requests, NEW used, Allotted(used, r),
           \A p \in drawn : p.request # r,
           NEW d, d = drawn \cup Allocations(r, used)
    PROVE  TotalOf(d) = TotalOf(drawn) + Value[r] /\ TotalOf(drawn) \in Int
<1> DEFINE f == [s \in Requests |-> AmountOf(drawn, s)]
           g == [s \in Requests |-> AmountOf(d, s)]
<1>1. /\ AmountOf(drawn, r) = 0 /\ AmountOf(d, r) = Value[r]
      /\ \A s \in Requests \ {r} : AmountOf(d, s) = AmountOf(drawn, s)
  BY DrawAdded DEF Draws
<1>2. \A s \in Requests : AmountOf(drawn, s) \in Int
  BY AmountInt
<1>3. Value[r] \in Nat /\ IsFiniteSet(Requests)
  BY WalletAssumption
<1>4. /\ \A s \in Requests : f[s] \in Int
      /\ g[r] \in Int /\ g[r] = Value[r] /\ f[r] = 0
      /\ \A s \in Requests \ {r} : g[s] = f[s]
  BY <1>1, <1>2, <1>3
<1>5. DOMAIN f = Requests /\ DOMAIN g = Requests
  OBVIOUS
<1> HIDE DEF f, g
<1>6. SumFunctionOnSet(g, Requests) = SumFunctionOnSet(f, Requests) + g[r] - f[r]
  BY <1>3, <1>4, SumUpdate
<1>7. SumFunctionOnSet(f, Requests) \in Int
  BY <1>3, <1>4, SumInt
<1>8. /\ TotalOf(d) = SumFunctionOnSet(g, Requests)
      /\ TotalOf(drawn) = SumFunctionOnSet(f, Requests)
  BY <1>5 DEF TotalOf, SumFunction, f, g
<1> QED
  BY <1>3, <1>4, <1>6, <1>7, <1>8

\* What left the lots is what the requests drew.
DrawnFromLots ==
    /\ IsFiniteSet(drawn)
    /\ TotalOf(drawn) = Funded(lots) - Remaining(lots)

\* The invariant of the refinement.
AttributionInv == SafeInv /\ AwaitsDraw /\ DrawnFromLots

\* The sum that Attribution takes is the same operator.
LEMMA AttributedSum == \A f : Attributed!SumFunction(f) = SumFunction(f)
BY DEF Attributed!SumFunction, Attributed!SumFunctionOnSet, Attributed!FoldFunctionOnSet,
       Attributed!MapThenFoldSet, SumFunction, SumFunctionOnSet, FoldFunctionOnSet,
       MapThenFoldSet

\* The state of Attribution that a state of the wallet stands for.
mirrored == <<Funded(lots), [r \in Requests |-> Drawn(r)]>>

\* A step that leaves lots and allocations alone is a stutter of Attribution.
LEMMA StepStutters ==
    ASSUME UNCHANGED <<lots, drawn>>, DrawnFromLots
    PROVE  DrawnFromLots' /\ UNCHANGED mirrored
<1>1. DrawnFromLots'
  BY DEF DrawnFromLots
<1>2. UNCHANGED mirrored
  BY DEF mirrored, Drawn
<1> QED
  BY <1>1, <1>2

\* A credit funds the lot of its order, or nothing.
LEMMA CreditFunds ==
    ASSUME BaseInv, DrawnFromLots, NEW c \in Callers, Credit(c)
    PROVE  DrawnFromLots' /\ (Attributed!Fund \/ UNCHANGED mirrored)
<1> DEFINE o == call[c].subject
<1>1. call[c].at = "credit" /\ lots' = RecordFundingLot(lots, o) /\ drawn' = drawn
  BY DEF Credit, At
<1>2. o \in Orders /\ Held(lots) /\ Value[o] \in Nat /\ Value[o] # 0
  BY <1>1, WalletAssumption DEF BaseInv, CallsFormed, Formed, ToppingUp, TypeOK, Held
<1> HIDE DEF o
<1>3. Recorded(lots', lots, o) /\ Held(lots')
  BY <1>1, <1>2, LotRecorded
<1>4. CASE LotsOf(lots, o) # {}
  <2>1. UNCHANGED <<lots, drawn>>
    BY <1>1, <1>3, <1>4 DEF Recorded
  <2> QED
    BY <2>1, StepStutters
<1>5. CASE LotsOf(lots, o) = {}
  <2>1. /\ Funded(lots') = Funded(lots) + Value[o]
        /\ Remaining(lots') = Remaining(lots) + Value[o]
    BY <1>3, <1>5 DEF Recorded
  <2>2. Funded(lots) \in Nat /\ Remaining(lots) \in Nat
    BY <1>2, FundedNat
  <2>3. Funded(lots') - Remaining(lots') = Funded(lots) - Remaining(lots)
    BY <1>2, <2>1, <2>2
  <2>4. DrawnFromLots'
    BY <1>1, <2>3 DEF DrawnFromLots
  <2>5. Funded(lots)' > Funded(lots)
    BY <1>2, <2>1, <2>2
  <2>6. UNCHANGED [r \in Requests |-> Drawn(r)]
    BY <1>1 DEF Drawn
  <2>7. Attributed!Fund
    BY <2>5, <2>6 DEF Attributed!Fund
  <2> QED
    BY <2>4, <2>7
<1> QED
  BY <1>4, <1>5

\* An allocation draws the cost of its request from what is funded, or nothing.
LEMMA AllocateDraws ==
    ASSUME AttributionInv, NEW c \in Callers, NEW seen, Allocate(c, seen)
    PROVE  /\ AwaitsDraw' /\ DrawnFromLots'
           /\ (\E r \in Requests : Attributed!Draw(r)) \/ UNCHANGED mirrored
<1> DEFINE r == call[c].subject
           n == Value[r]
           missing == call[c].missing
<1>1. /\ call[c].at = "allocate" /\ End(c) /\ UNCHANGED account
  BY DEF Allocate, At
<1>2. /\ call[c].at \in Attributing /\ r \in Requests /\ TypeOK /\ missing \in Nat
      /\ n \in Nat /\ Held(lots)
  BY <1>1, CallTyped, WalletAssumption
     DEF AttributionInv, SafeInv, BaseInv, CallsFormed, Formed, Attributing, TypeOK, Held
<1>3. CASE UNCHANGED <<lots, drawn>>
  <2>1. AwaitsDraw'
    BY <1>1, <1>2, <1>3, EndLeaves, AwaitsKept DEF AttributionInv
  <2> QED
    BY <1>3, <2>1, StepStutters DEF AttributionInv
<1>4. CASE ~UNCHANGED <<lots, drawn>>
  <2>1. /\ Held(lots')
        /\ Funded(lots') = Funded(lots) + missing
        /\ Remaining(lots') = (Remaining(lots) + missing) - n
        /\ \E used : Allotted(used, r) /\ drawn' = drawn \cup Allocations(r, used)
    BY <1>2, <1>4, AllocateRows
  <2>2. PICK used : Allotted(used, r) /\ drawn' = drawn \cup Allocations(r, used)
    BY <2>1
  <2>3. \A p \in drawn : p.request # r
    BY <1>2 DEF AttributionInv, AwaitsDraw
  <2>4. IsFiniteSet(drawn) /\ TotalOf(drawn) = Funded(lots) - Remaining(lots)
    BY DEF AttributionInv, DrawnFromLots
  <2>5. drawn \subseteq [request : Requests, lot : Nat, amount : Nat \ {0}]
    BY <1>2 DEF TypeOK
  <2> HIDE DEF r, missing
  <2>6a. Draws(drawn', r)
    BY <1>2, <2>2, <2>3, <2>4, DrawAdded
  <2>6. /\ IsFiniteSet(drawn') /\ AmountOf(drawn, r) = 0 /\ AmountOf(drawn', r) = n
        /\ \A s \in Requests \ {r} : AmountOf(drawn', s) = AmountOf(drawn, s)
    BY <2>6a DEF Draws
  <2>7. TotalOf(drawn') = TotalOf(drawn) + n /\ TotalOf(drawn) \in Int
    BY <1>2, <2>2, <2>3, <2>4, <2>5, TotalAdded
  <2>8. /\ Funded(lots) \in Nat /\ Remaining(lots) \in Nat
        /\ Funded(lots') \in Nat /\ Remaining(lots') \in Nat
    BY <1>2, <2>1, FundedNat
  <2> HIDE DEF n
  <2>9. TotalOf(drawn') = Funded(lots') - Remaining(lots')
    BY <1>2, <2>1, <2>4, <2>7, <2>8
  <2>10. DrawnFromLots'
    BY <2>6, <2>9 DEF DrawnFromLots
  <2>11. AwaitsDraw'
    <3>1. call'[c] = NoCall /\ \A d \in Callers \ {c} : call'[d] = call[d]
      BY <1>1, <1>2, OneMoves DEF End
    <3>2. \A p \in drawn' : p \in drawn \/ p.request = r
      BY <2>2 DEF Allocations
    <3>3. NoCall.at \notin Attributing
      BY NoCallFormed DEF Attributing
    <3>4. \A d \in Callers \ {c} : call[d].at \in Attributing => call[d].subject # r
      BY <1>2 DEF AttributionInv, AwaitsDraw, r
    <3> QED
      BY <3>1, <3>2, <3>3, <3>4 DEF AttributionInv, AwaitsDraw
  <2>12. Attributed!Draw(r)
    <3> DEFINE before == [s \in Requests |-> AmountOf(drawn, s)]
               after == [s \in Requests |-> AmountOf(drawn', s)]
    <3>1. [s \in Requests |-> Drawn(s)] = before
      BY DEF Drawn, AmountOf, Requested
    <3>2. [s \in Requests |-> Drawn(s)]' = after
      BY DEF Drawn, AmountOf, Requested
    <3>3. before[r] = 0 /\ after = [before EXCEPT ![r] = n]
      BY <1>2, <2>6
    <3>4. Funded(lots)' >= Funded(lots)
      BY <1>2, <2>1, <2>8
    <3>5. SumFunction(before) = TotalOf(drawn)
      BY DEF TotalOf
    <3>6. TotalOf(drawn) + n <= Funded(lots)'
      BY <1>2, <2>7, <2>8, <2>9
    <3>7. [s \in Requests |-> Value[s]][r] = n
      BY <1>2 DEF n
    <3> DEFINE cost == [s \in Requests |-> Value[s]]
               old == [s \in Requests |-> Drawn(s)]
               new == [s \in Requests |-> Drawn(s)]'
    <3>8. old[r] = 0 /\ new = [old EXCEPT ![r] = cost[r]]
      <4> HIDE DEF before, after, cost
      <4> QED
        BY <3>1, <3>2, <3>3, <3>7 DEF cost
    <3>9. SumFunction(old) + cost[r] <= Funded(lots)'
      <4> HIDE DEF before, after
      <4>1. SumFunction(old) = TotalOf(drawn)
        BY <3>1, <3>5
      <4> HIDE DEF cost, old
      <4> QED
        BY <3>6, <3>7, <4>1 DEF cost
    <3> HIDE DEF before, after
    <3> QED
      BY <3>4, <3>8, <3>9, AttributedSum, Zenon DEF Attributed!Draw, Attributed!TotalDrawn
  <2> QED
    BY <1>2, <2>10, <2>11, <2>12
<1> QED
  BY <1>3, <1>4

\* Nothing is funded, and nothing drawn.
LEMMA AttributionStarts == Init => AttributionInv /\ Attributed!Init
<1> SUFFICES ASSUME Init PROVE AttributionInv /\ Attributed!Init
  OBVIOUS
<1>1. lots = <<>> /\ drawn = {} /\ call = [c \in Callers |-> NoCall]
  BY DEF Init
<1>2. \A r \in Requests : AmountOf(drawn, r) = 0
  <2> TAKE r \in Requests
  <2> DEFINE f == [p \in Requested(drawn, r) |-> p.amount]
  <2>1. DOMAIN f = {}
    BY <1>1 DEF Requested
  <2> HIDE DEF f
  <2>2. SumFunction(f) = 0
    BY <2>1, SumEmpty DEF SumFunction
  <2> QED
    BY <2>2 DEF AmountOf, f
<1>3. TotalOf(drawn) = 0
  <2> DEFINE f == [r \in Requests |-> AmountOf(drawn, r)]
  <2>1. DOMAIN f = Requests /\ \A r \in Requests : f[r] = 0
    BY <1>2
  <2> HIDE DEF f
  <2>2. IsFiniteSet(Requests)
    BY WalletAssumption
  <2>3. SumFunction(f) = 0
    BY <2>1, <2>2, SumZero DEF SumFunction
  <2> QED
    BY <2>3 DEF TotalOf, f
<1>4. Funded(lots) = 0 /\ Remaining(lots) = 0
  <2> DEFINE f == [i \in DOMAIN lots |-> lots[i].original]
             g == [i \in DOMAIN lots |-> lots[i].remaining]
  <2>1. DOMAIN f = {} /\ DOMAIN g = {}
    BY <1>1
  <2> HIDE DEF f, g
  <2>2. SumFunction(f) = 0 /\ SumFunction(g) = 0
    BY <2>1, SumEmpty DEF SumFunction
  <2> QED
    BY <2>2 DEF Funded, Remaining, f, g
<1>5. AwaitsDraw
  BY <1>1, NoCallFormed DEF AwaitsDraw, Attributing
<1>6. DrawnFromLots
  BY <1>1, <1>3, <1>4, FS_EmptySet DEF DrawnFromLots
<1>7. Attributed!Init
  <2>1. [r \in Requests |-> Drawn(r)] = [r \in Requests |-> 0]
    BY <1>2, DrawnIsAmount
  <2> QED
    BY <1>4, <2>1 DEF Attributed!Init
<1> QED
  BY <1>5, <1>6, <1>7, SafeInit DEF AttributionInv

\* Every step keeps the books, and is a step of Attribution or none.
LEMMA AttributionSteps ==
    ASSUME AttributionInv, [Next]_vars
    PROVE  AwaitsDraw' /\ DrawnFromLots' /\ (Attributed!Next \/ UNCHANGED mirrored)
<1>0. TypeOK /\ BaseInv /\ AwaitsDraw /\ DrawnFromLots
  BY DEF AttributionInv, SafeInv, BaseInv
<1>1. ASSUME NEW c \in Callers, Leaves(c), UNCHANGED <<lots, drawn>>
      PROVE  AwaitsDraw' /\ DrawnFromLots' /\ UNCHANGED mirrored
  BY <1>0, <1>1, AwaitsKept, StepStutters
<1>2. ASSUME NEW c \in Callers,
             \/ \E delta \in Deltas : Adjust(c, delta)
             \/ \E target \in Targets : Set(c, target)
             \/ \E o \in Orders : Complete(c, o)
      PROVE  AwaitsDraw' /\ DrawnFromLots' /\ UNCHANGED mirrored
  BY <1>0, <1>1, <1>2, StartLeaves
<1>3. ASSUME NEW c \in Callers, NEW r \in Requests, Settle(c, r)
      PROVE  AwaitsDraw' /\ DrawnFromLots' /\ UNCHANGED mirrored
  <2>1. UNCHANGED <<lots, drawn>>
    BY <1>3 DEF Settle
  <2> QED
    BY <1>0, <1>3, <2>1, SettleAwaits, StepStutters
<1>4. ASSUME NEW c \in Callers,
             \/ SetRead(c) \/ Read(c) \/ Ensure(c) \/ Bootstrap(c) \/ Compare(c)
             \/ Align(c) \/ Apply(c) \/ Project(c) \/ Undo(c)
             \/ ReadOrder(c) \/ SaveOrder(c) \/ ReadColumn(c) \/ ReadSnapshot(c)
             \/ RollbackCredit(c) \/ Fail(c) \/ FailSettling(c)
      PROVE  AwaitsDraw' /\ DrawnFromLots' /\ UNCHANGED mirrored
  BY <1>0, <1>1, <1>4, ProceedLeaves
<1>5. ASSUME NEW c \in Callers, Credit(c)
      PROVE  AwaitsDraw' /\ DrawnFromLots' /\ (Attributed!Fund \/ UNCHANGED mirrored)
  <2>1. End(c) /\ UNCHANGED drawn
    BY <1>5 DEF Credit
  <2>2. AwaitsDraw'
    BY <1>0, <2>1, EndLeaves, AwaitsKept
  <2> QED
    BY <1>0, <1>5, <2>2, CreditFunds
<1>6. ASSUME NEW c \in Callers, ReadLots(c)
      PROVE  AwaitsDraw' /\ DrawnFromLots' /\ UNCHANGED mirrored
  <2>1. UNCHANGED <<lots, drawn>>
    BY <1>6 DEF ReadLots, wallet
  <2> QED
    BY <1>0, <1>6, <2>1, ReadLotsAwaits, StepStutters
<1>7. ASSUME NEW c \in Callers, NEW seen \in 0 .. Len(lots), Allocate(c, seen)
      PROVE  /\ AwaitsDraw' /\ DrawnFromLots'
             /\ (\E r \in Requests : Attributed!Draw(r)) \/ UNCHANGED mirrored
  BY <1>7, AllocateDraws
<1>8. CASE UNCHANGED vars
  <2>1. UNCHANGED <<lots, drawn>> /\ UNCHANGED call
    BY <1>8 DEF vars
  <2>2. AwaitsDraw'
    BY <1>0, <2>1 DEF AwaitsDraw
  <2> QED
    BY <1>0, <2>1, <2>2, StepStutters
<1>9. ASSUME NEW c \in Callers, Proceed(c)
      PROVE  AwaitsDraw' /\ DrawnFromLots' /\ (Attributed!Next \/ UNCHANGED mirrored)
  BY <1>4, <1>5, <1>6, <1>7, <1>9 DEF Proceed, Attributed!Next
<1>10. CASE Next
  <2>1. PICK c \in Callers :
          \/ \E delta \in Deltas : Adjust(c, delta)
          \/ \E target \in Targets : Set(c, target)
          \/ \E o \in Orders : Complete(c, o)
          \/ \E r \in Requests : Settle(c, r)
          \/ Proceed(c)
          \/ Fail(c) \/ FailSettling(c)
    BY <1>10 DEF Next
  <2> QED
    BY <1>2, <1>3, <1>4, <1>9, <2>1
<1> QED
  BY <1>8, <1>10

\* However settlements overlap, a request is attributed in full or not at all,
\* once, and never to quota that was not funded or that another request drew: the
\* lots and allocations of AllocateSettledFundingFIFO implement Attribution.
THEOREM WalletAttributes == Spec => ImplementsAttribution
<1>1. AttributionInv /\ [Next]_vars => AttributionInv'
  BY SafeStep, AttributionSteps DEF AttributionInv
<1>2. AttributionInv /\ [Next]_vars
        => [Attributed!Next]_<<Funded(lots), [r \in Requests |-> Drawn(r)]>>
  BY AttributionSteps DEF mirrored
<1> QED
  BY <1>1, <1>2, AttributionStarts, PTL DEF Spec, ImplementsAttribution, Attributed!Spec

-----------------------------------------------------------------------------
(* Calls that ran apart *)

\* The places after ensureMirroredUserAccount has made the account.
Ensured == {"bootstrap", "compare", "align", "apply", "project", "undo"}

\* Ledger and column agree on what the calls add up to.
Level(a, q, d) == q = d /\ (a.exists => a.available = d)

\* How far a lone call k has brought account a, column q and orders p, where the
\* calls that ended add up to d.
Underway(k, a, q, d, p) ==
    /\ k.at \notin {"idle", "bootstrap", "project"} => Level(a, q, d)
    /\ k.at \in Adjusting => (k.target # NoTarget => k.delta = d - k.target)
    /\ k.at \in {"ensure", "bootstrap", "compare", "apply"} => k.seen = d
    /\ k.at = "bootstrap" => q = d /\ a.available = 0 /\ a.boot = 0
    /\ k.at = "project" => q = d /\ a.available = d - k.delta
    /\ k.at \notin {"align", "undo"}
    /\ k.at \in {"save", "balance", "snapshot", "credit"} => k.subject \notin p
    /\ k.at \in {"snapshot", "credit"} => k.seen = d
    /\ k.at = "credit" => k.boot + k.diff = d - a.available

\* The account exists once it has moved, and for a call that has ensured it.
Opened ==
    /\ account.used => account.exists
    /\ \A c \in Callers : call[c].at \in Ensured => account.exists

\* While no two calls overlapped and none failed: at most one call is under way,
\* and it has brought ledger and column as far as its place says.
Exact ==
    apart /\ faults = 0 =>
        /\ \A c, d \in Callers : ~At(c, "idle") /\ ~At(d, "idle") => c = d
        /\ AllIdle => Level(account, quota, due)
        /\ \A c \in Callers : Underway(call[c], account, quota, due, paid)

\* The invariant of calls apart.
ExactInv == SafeInv /\ Opened /\ Exact

\* A call that has ended leaves nothing under way.
LEMMA IdleUnderway ==
    ASSUME NEW k, k.at = "idle", NEW a, NEW q, NEW d, NEW p
    PROVE  Underway(k, a, q, d, p) /\ k.at \notin Ensured
BY DEF Underway, Ensured, Adjusting

\* A call goes on: if it is alone, it brings the others nothing.
LEMMA ExactMoves ==
    ASSUME ExactInv, NEW c \in Callers, NEW k, Update(c, k), ~At(c, "idle"),
           apart' = apart, faults' = 0 => faults = 0,
           account.exists => account'.exists, account'.used => account'.exists,
           k.at \in Ensured => account'.exists,
           apart /\ faults = 0 /\ faults' = 0 =>
               /\ Underway(k, account', quota', due', paid')
               /\ k.at = "idle" => Level(account', quota', due')
    PROVE  Opened' /\ Exact'
<1>1. call'[c] = k /\ \A d \in Callers \ {c} : call'[d] = call[d]
  BY OneMoves DEF ExactInv, SafeInv, BaseInv
<1>2. Opened'
  BY <1>1 DEF ExactInv, Opened
<1>3. ASSUME apart', faults' = 0 PROVE Exact'
  <2>1. apart /\ faults = 0
    BY <1>3
  <2>2. \A d \in Callers \ {c} : call'[d].at = "idle"
    BY <1>1, <2>1 DEF ExactInv, Exact, At
  <2>3. \A d, e \in Callers : ~At(d, "idle")' /\ ~At(e, "idle")' => d = e
    BY <2>2 DEF At
  <2>4. AllIdle' => Level(account', quota', due')
    BY <1>1, <1>3, <2>1 DEF AllIdle, At
  <2>5. ASSUME NEW d \in Callers PROVE Underway(call'[d], account', quota', due', paid')
    <3>1. CASE d = c
      BY <1>1, <1>3, <2>1, <3>1
    <3>2. CASE d # c
      BY <2>2, <3>2, IdleUnderway
    <3> QED
      BY <3>1, <3>2
  <2> QED
    BY <2>3, <2>4, <2>5 DEF Exact, Level
<1> QED
  BY <1>2, <1>3 DEF Exact

\* A call begins: if it is alone, what has been done adds up.
LEMMA ExactBegins ==
    ASSUME ExactInv, NEW c \in Callers, NEW k, Begin(c, k), UNCHANGED <<faults, paid>>,
           account.exists => account'.exists, account'.used => account'.exists,
           k.at # "idle", k.at \notin Ensured,
           Level(account, quota, due) => Underway(k, account', quota', due', paid)
    PROVE  Opened' /\ Exact'
<1>1. call'[c] = k /\ \A d \in Callers \ {c} : call'[d] = call[d]
  BY OneMoves DEF ExactInv, SafeInv, BaseInv, Begin
<1>2. apart' = (apart /\ AllIdle)
  BY DEF Begin
<1>3. Opened'
  BY <1>1 DEF ExactInv, Opened
<1>4. ASSUME apart', faults' = 0 PROVE Exact'
  <2>1. apart /\ AllIdle /\ faults = 0 /\ Level(account, quota, due)
    BY <1>2, <1>4 DEF ExactInv, Exact
  <2>2. \A d \in Callers \ {c} : call'[d].at = "idle"
    BY <1>1, <2>1 DEF AllIdle, At
  <2>3. \A d, e \in Callers : ~At(d, "idle")' /\ ~At(e, "idle")' => d = e
    BY <2>2 DEF At
  <2>4. ~AllIdle'
    BY <1>1 DEF AllIdle, At
  <2>5. ASSUME NEW d \in Callers PROVE Underway(call'[d], account', quota', due', paid')
    <3>1. CASE d = c
      BY <1>1, <2>1, <3>1
    <3>2. CASE d # c
      BY <2>2, <3>2, IdleUnderway
    <3> QED
      BY <3>1, <3>2
  <2> QED
    BY <2>3, <2>4, <2>5 DEF Exact, Level
<1> QED
  BY <1>3, <1>4 DEF Exact

\* What is known of the call that moves.
LEMMA ExactFacts ==
    ASSUME ExactInv, NEW c \in Callers
    PROVE  /\ call[c] \in Call /\ Formed(call[c])
           /\ account \in Account /\ account.available \in Int
           /\ quota \in Int /\ due \in Int /\ InitialQuota \in Nat
           /\ account.used => account.exists
           /\ call[c].at \in Ensured => account.exists
           /\ apart /\ faults = 0 => Underway(call[c], account, quota, due, paid)
<1>1. TypeOK /\ BaseInv
  BY DEF ExactInv, SafeInv, BaseInv
<1> QED
  BY <1>1, CallTyped, AccountTyped DEF BaseInv, CallsFormed, TypeOK, ExactInv, Opened, Exact

\* Calls begin.
LEMMA StartExact ==
    ASSUME ExactInv, NEW c \in Callers,
           \/ \E delta \in Deltas : Adjust(c, delta)
           \/ \E target \in Targets : Set(c, target)
           \/ \E o \in Orders : Complete(c, o)
           \/ \E r \in Requests : Settle(c, r)
    PROVE  Opened' /\ Exact'
<1>0. /\ account \in Account /\ account.available \in Int /\ quota \in Int /\ due \in Int
      /\ account.used => account.exists
  BY ExactFacts
<1>1. ASSUME NEW delta \in Deltas, Adjust(c, delta) PROVE Opened' /\ Exact'
  <2> DEFINE k == [NoCall EXCEPT !.at = "read", !.delta = delta]
  <2>1. Begin(c, k) /\ UNCHANGED <<wallet, faults, due>>
    BY <1>1, Zenon DEF Adjust
  <2>2. k.at = "read" /\ k.target = NoTarget
    BY DEF NoCall
  <2> HIDE DEF k
  <2>3. account' = account /\ quota' = quota /\ paid' = paid /\ due' = due /\ faults' = faults
    BY <2>1 DEF wallet
  <2>4. Level(account, quota, due) => Underway(k, account', quota', due', paid)
    BY <2>2, <2>3 DEF Underway, Adjusting
  <2>5. k.at # "idle" /\ k.at \notin Ensured
    BY <2>2 DEF Ensured
  <2> QED
    BY <1>0, <2>1, <2>3, <2>4, <2>5, ExactBegins
<1>2. ASSUME NEW target \in Targets, Set(c, target) PROVE Opened' /\ Exact'
  <2> DEFINE k == [NoCall EXCEPT !.at = "setRead", !.target = target]
  <2>1. Begin(c, k) /\ UNCHANGED <<wallet, faults, due>>
    BY <1>2, Zenon DEF Set
  <2>2. k.at = "setRead"
    BY DEF NoCall
  <2> HIDE DEF k
  <2>3. account' = account /\ quota' = quota /\ paid' = paid /\ due' = due /\ faults' = faults
    BY <2>1 DEF wallet
  <2>4. Level(account, quota, due) => Underway(k, account', quota', due', paid)
    BY <2>2, <2>3 DEF Underway, Adjusting
  <2>5. k.at # "idle" /\ k.at \notin Ensured
    BY <2>2 DEF Ensured
  <2> QED
    BY <1>0, <2>1, <2>3, <2>4, <2>5, ExactBegins
<1>3. ASSUME NEW o \in Orders, Complete(c, o) PROVE Opened' /\ Exact'
  <2> DEFINE k == [NoCall EXCEPT !.at = "order", !.subject = o]
  <2>1. Begin(c, k) /\ UNCHANGED <<wallet, faults, due>>
    BY <1>3, Zenon DEF Complete
  <2>2. k.at = "order"
    BY DEF NoCall
  <2> HIDE DEF k
  <2>3. account' = account /\ quota' = quota /\ paid' = paid /\ due' = due /\ faults' = faults
    BY <2>1 DEF wallet
  <2>4. Level(account, quota, due) => Underway(k, account', quota', due', paid)
    BY <2>2, <2>3 DEF Underway, Adjusting
  <2>5. k.at # "idle" /\ k.at \notin Ensured
    BY <2>2 DEF Ensured
  <2> QED
    BY <1>0, <2>1, <2>3, <2>4, <2>5, ExactBegins
<1>4. ASSUME NEW r \in Requests, Settle(c, r) PROVE Opened' /\ Exact'
  <2> DEFINE k == [NoCall EXCEPT !.at = "lots", !.subject = r]
             n == Value[r]
  <2>1. /\ account.exists /\ Begin(c, k) /\ account' = Charged(account, n)
        /\ quota' = quota - n /\ due' = due - n
        /\ UNCHANGED <<granted, lots, drawn, paid, faults>>
    BY <1>4, Zenon DEF Settle
  <2>2. k.at = "lots" /\ n \in Int
    BY WalletAssumption DEF NoCall
  <2> HIDE DEF k, n
  <2>3. account'.available = account.available - n /\ account'.exists
    BY <1>0, <2>1, <2>2, ChargedTyped
  <2>4. Level(account, quota, due) => Underway(k, account', quota', due', paid)
    BY <1>0, <2>1, <2>2, <2>3 DEF Underway, Adjusting, Level
  <2>5. k.at # "idle" /\ k.at \notin Ensured
    BY <2>2 DEF Ensured
  <2> QED
    BY <1>0, <2>1, <2>3, <2>4, <2>5, ExactBegins
<1> QED
  BY <1>1, <1>2, <1>3, <1>4

\* A call that ends without moving anything, where what has been done adds up.
LEMMA EndExact ==
    ASSUME ExactInv, NEW c \in Callers, End(c), ~At(c, "idle"),
           UNCHANGED <<account, quota, due, apart, faults>>,
           call[c].at \notin {"bootstrap", "project"}
    PROVE  Opened' /\ Exact'
<1>1. account.used => account.exists
  BY ExactFacts
<1>2. NoCall.at = "idle"
  BY NoCallFormed
<1>3. apart /\ faults = 0 => Level(account, quota, due)
  BY ExactFacts DEF At, Underway
<1>4. Underway(NoCall, account', quota', due', paid') /\ NoCall.at \notin Ensured
  BY <1>2, IdleUnderway
<1> QED
  BY <1>1, <1>2, <1>3, <1>4, ExactMoves DEF End

\* Adjusting and setting: the reads.
LEMMA AdjustReadsExact ==
    ASSUME ExactInv, NEW c \in Callers, SetRead(c) \/ Read(c) \/ Compare(c)
    PROVE  Opened' /\ Exact'
<1>0. /\ call[c] \in Call /\ Formed(call[c])
      /\ account \in Account /\ account.available \in Int
      /\ quota \in Int /\ due \in Int
      /\ account.used => account.exists
      /\ call[c].at \in Ensured => account.exists
      /\ apart /\ faults = 0 => Underway(call[c], account, quota, due, paid)
  BY ExactFacts
<1>1. CASE SetRead(c)
  <2> DEFINE delta == GetUserWalletQuota - call[c].target
             k == [call[c] EXCEPT !.delta = delta, !.at = "read"]
  <2>1. /\ UNCHANGED <<wallet, faults, history>>
        /\ Update(c, IF delta = 0 THEN NoCall ELSE k)
        /\ due' = IF delta = 0 THEN call[c].target ELSE due
        /\ call[c].at = "setRead"
    BY <1>1 DEF SetRead, At
  <2>2. /\ account' = account /\ quota' = quota /\ paid' = paid /\ faults' = faults
        /\ apart' = apart
    BY <2>1 DEF wallet, history
  <2>3. call[c].target \in Int
    BY <1>0, <2>1, WalletAssumption DEF Formed
  <2>4. apart /\ faults = 0 =>
          Level(account, quota, due) /\ delta = due - call[c].target
    BY <1>0, <2>1 DEF Underway, Level, GetUserWalletQuota
  <2>5. k.at = "read" /\ k.delta = delta /\ k.target = call[c].target
    <3> HIDE DEF delta
    <3> QED
      BY <1>0 DEF Call
  <2> HIDE DEF delta, k
  <2>6. CASE delta = 0
    <3>1. apart /\ faults = 0 => due' = due
      BY <1>0, <2>1, <2>3, <2>4, <2>6
    <3>2. Underway(NoCall, account', quota', due', paid') /\ NoCall.at \notin Ensured
      BY NoCallFormed, IdleUnderway
    <3>3. Update(c, NoCall) /\ ~At(c, "idle")
      BY <2>1, <2>6 DEF At
    <3>4. apart /\ faults = 0 /\ faults' = 0 =>
            /\ Underway(NoCall, account', quota', due', paid')
            /\ NoCall.at = "idle" => Level(account', quota', due')
      BY <2>2, <2>4, <3>1, <3>2
    <3> QED
      BY <1>0, <2>2, <3>2, <3>3, <3>4, ExactMoves
  <2>7. CASE delta # 0
    <3>1. due' = due /\ Update(c, k) /\ ~At(c, "idle")
      BY <2>1, <2>7 DEF At
    <3>2. k.at \notin Ensured /\ k.at # "idle"
      BY <2>5 DEF Ensured
    <3>3. apart /\ faults = 0 => Underway(k, account', quota', due', paid')
      BY <2>2, <2>4, <2>5, <3>1 DEF Underway, Adjusting
    <3> QED
      BY <1>0, <2>2, <3>1, <3>2, <3>3, ExactMoves
  <2> QED
    BY <2>6, <2>7
<1>2. CASE Read(c)
  <2> DEFINE seen == GetUserWalletQuota
             k == [call[c] EXCEPT !.seen = seen, !.at = "ensure"]
  <2>1. /\ UNCHANGED <<wallet, faults, due, history>> /\ Update(c, k)
        /\ call[c].at = "read"
    BY <1>2 DEF Read, At
  <2>2. /\ account' = account /\ quota' = quota /\ paid' = paid /\ faults' = faults
        /\ apart' = apart /\ due' = due
    BY <2>1 DEF wallet, history
  <2>3. apart /\ faults = 0 =>
          Level(account, quota, due) /\ seen = due
    BY <1>0, <2>1 DEF Underway, Level, GetUserWalletQuota
  <2> HIDE DEF seen
  <2>4. /\ k.at = "ensure" /\ k.delta = call[c].delta /\ k.target = call[c].target
        /\ k.seen = seen
    BY <1>0 DEF Call
  <2> HIDE DEF k
  <2>5. ~At(c, "idle") /\ k.at \notin Ensured /\ k.at # "idle"
    BY <2>1, <2>4 DEF At, Ensured
  <2>6. apart /\ faults = 0 => Underway(k, account', quota', due', paid')
    BY <1>0, <2>1, <2>2, <2>3, <2>4 DEF Underway, Adjusting
  <2> QED
    BY <1>0, <2>1, <2>2, <2>5, <2>6, ExactMoves
<1>3. CASE Compare(c)
  <2> DEFINE diff == call[c].seen - account.available
             place == IF diff = 0 THEN "apply" ELSE "align"
             k == [call[c] EXCEPT !.diff = diff, !.at = place]
  <2>1. /\ UNCHANGED <<wallet, faults, due, history>> /\ Update(c, k)
        /\ call[c].at = "compare"
    BY <1>3 DEF Compare, At
  <2>2. /\ account' = account /\ quota' = quota /\ paid' = paid /\ faults' = faults
        /\ apart' = apart /\ due' = due
    BY <2>1 DEF wallet, history
  <2>3. account.exists /\ call[c].seen \in Int
    BY <1>0, <2>1, CallTyped DEF Ensured, ExactInv, SafeInv, BaseInv
  <2>4. apart /\ faults = 0 =>
          Level(account, quota, due) /\ call[c].seen = due /\ place = "apply"
    BY <1>0, <2>1, <2>3 DEF Underway, Level
  <2>5. place # "idle"
    OBVIOUS
  <2> HIDE DEF diff, place
  <2>6. /\ k.at = place /\ k.delta = call[c].delta /\ k.target = call[c].target
        /\ k.seen = call[c].seen
    BY <1>0 DEF Call
  <2> HIDE DEF k
  <2>7. ~At(c, "idle")
    BY <2>1 DEF At
  <2>8. apart /\ faults = 0 => Underway(k, account', quota', due', paid')
    BY <1>0, <2>1, <2>2, <2>4, <2>6 DEF Underway, Adjusting
  <2> QED
    BY <1>0, <2>1, <2>2, <2>3, <2>5, <2>6, <2>7, <2>8, ExactMoves
<1> QED
  BY <1>1, <1>2, <1>3

\* The account is made, and given the balance there was.
LEMMA EnsureExact ==
    ASSUME ExactInv, NEW c \in Callers, Ensure(c)
    PROVE  Opened' /\ Exact'
<1> DEFINE place == IF account.used \/ call[c].seen <= 0 THEN "compare" ELSE "bootstrap"
           k == [call[c] EXCEPT !.at = place]
           a == [account EXCEPT !.exists = TRUE]
<1>0. /\ call[c] \in Call /\ account \in Account /\ account.available \in Int
      /\ quota \in Int /\ due \in Int /\ InitialQuota \in Nat
      /\ account.used => account.exists
      /\ apart /\ faults = 0 => Underway(call[c], account, quota, due, paid)
  BY ExactFacts
<1>1. /\ call[c].at = "ensure" /\ account' = a /\ Update(c, k)
      /\ UNCHANGED <<quota, granted, lots, drawn, paid, faults, due, history>>
  BY DEF Ensure, At, GoTo
<1>2. a.available = account.available /\ a.boot = account.boot /\ a.exists
  BY <1>0 DEF Account
<1>3. ~account.used => account.available = 0 /\ account.boot = 0 /\ quota = InitialQuota
  BY DEF ExactInv, SafeInv, BaseInv, Pristine
<1>4. apart /\ faults = 0 => Level(account, quota, due) /\ call[c].seen = due
  BY <1>0, <1>1 DEF Underway
<1>5. apart /\ faults = 0 =>
        /\ quota = due /\ call[c].seen = due
        /\ place = "compare" => account.available = due
        /\ place = "bootstrap" => account.available = 0 /\ account.boot = 0
  BY <1>0, <1>3, <1>4 DEF Level
<1>6. place \in {"compare", "bootstrap"}
  OBVIOUS
<1> HIDE DEF place, a
<1>7. /\ k.at = place /\ k.delta = call[c].delta /\ k.target = call[c].target
      /\ k.seen = call[c].seen
  BY <1>0 DEF Call
<1> HIDE DEF k
<1>8. apart /\ faults = 0 => Underway(k, a, quota, due, paid)
  BY <1>0, <1>1, <1>2, <1>5, <1>6, <1>7 DEF Underway, Adjusting, Level
<1>9. k.at # "idle" /\ ~At(c, "idle") /\ apart' = apart /\ quota' = quota /\ due' = due
      /\ paid' = paid /\ faults' = faults
  BY <1>1, <1>6, <1>7 DEF At, history
<1> QED
  BY <1>1, <1>2, <1>8, <1>9, ExactMoves

\* The first balance brings the ledger up to the column.
LEMMA BootstrapExact ==
    ASSUME ExactInv, NEW c \in Callers, Bootstrap(c)
    PROVE  Opened' /\ Exact'
<1> DEFINE k == [call[c] EXCEPT !.at = "compare"]
           n == -call[c].seen
           charged == Charged(account, n)
           a == [charged EXCEPT !.boot = call[c].seen]
<1>0. /\ call[c] \in Call /\ account \in Account /\ account.available \in Int
      /\ quota \in Int /\ due \in Int
      /\ account.used => account.exists
      /\ call[c].at \in Ensured => account.exists
      /\ apart /\ faults = 0 => Underway(call[c], account, quota, due, paid)
  BY ExactFacts
<1>1. /\ call[c].at = "bootstrap"
      /\ IF account.boot = 0 THEN account' = a ELSE account' = account
      /\ IF account.boot \in {0, call[c].seen} THEN Update(c, k) ELSE End(c)
      /\ UNCHANGED <<quota, granted, lots, drawn, paid, faults, due, history>>
  BY DEF Bootstrap, At, GoTo
<1>2. call[c].seen \in Int /\ n \in Int
  BY CallTyped DEF ExactInv, SafeInv, BaseInv
<1>3. /\ charged \in Account /\ charged.available = account.available - n
      /\ charged.exists = account.exists
  BY <1>0, <1>2, ChargedTyped
<1> HIDE DEF charged
<1>4. a.available = account.available - n /\ a.exists = account.exists
  BY <1>3 DEF Account
<1>5. account.exists /\ account'.exists
  BY <1>0, <1>1, <1>4 DEF Ensured
<1>6. apart /\ faults = 0 =>
        /\ quota = due /\ account.available = 0 /\ account.boot = 0 /\ call[c].seen = due
        /\ call[c].target # NoTarget => call[c].delta = due - call[c].target
  BY <1>0, <1>1 DEF Underway, Adjusting
<1>7. apart /\ faults = 0 => account' = a /\ account'.available = due /\ Update(c, k)
  <2> HIDE DEF a, k
  <2>1. apart /\ faults = 0 => account' = a /\ Update(c, k)
    BY <1>1, <1>6
  <2>2. apart /\ faults = 0 => a.available = due
    BY <1>0, <1>2, <1>4, <1>6
  <2> QED
    BY <2>1, <2>2
<1> HIDE DEF a, n
<1>8. /\ k.at = "compare" /\ k.delta = call[c].delta /\ k.target = call[c].target
      /\ k.seen = call[c].seen
  BY <1>0 DEF Call
<1> HIDE DEF k
<1>9. ~At(c, "idle") /\ apart' = apart /\ quota' = quota /\ due' = due
      /\ paid' = paid /\ faults' = faults
  BY <1>1 DEF At, history
<1>10. CASE Update(c, k)
  <2>1. apart /\ faults = 0 => Underway(k, account', quota', due', paid')
    BY <1>6, <1>7, <1>8, <1>9 DEF Underway, Adjusting, Level
  <2> QED
    BY <1>5, <1>8, <1>9, <1>10, <2>1, ExactMoves
<1>11. CASE End(c) /\ ~Update(c, k)
  <2>1. ~(apart /\ faults = 0) /\ Update(c, NoCall)
    BY <1>7, <1>11 DEF End
  <2> QED
    BY <1>5, <1>9, <2>1, ExactMoves
<1> QED
  BY <1>1, <1>10, <1>11

\* The ledger is charged, or refuses; a lone call has nothing to align.
LEMMA ChargesExact ==
    ASSUME ExactInv, NEW c \in Callers, Align(c) \/ Apply(c) \/ Undo(c)
    PROVE  Opened' /\ Exact'
<1>0. /\ call[c] \in Call /\ account \in Account /\ account.available \in Int
      /\ quota \in Int /\ due \in Int
      /\ call[c].at \in Ensured => account.exists
      /\ apart /\ faults = 0 => Underway(call[c], account, quota, due, paid)
  BY ExactFacts
<1>1. call[c].at \in {"align", "apply", "undo"}
  BY DEF Align, Apply, Undo, At
<1>2. account.exists /\ ~At(c, "idle")
  BY <1>0, <1>1 DEF Ensured, At
<1>3. UNCHANGED <<quota, granted, lots, drawn, paid, faults, due, history>>
  BY DEF Align, Apply, Undo, ApplyLedgerDelta
<1>4. quota' = quota /\ due' = due /\ paid' = paid /\ faults' = faults /\ apart' = apart
  BY <1>3 DEF history
<1>5. CASE End(c) /\ UNCHANGED account
  BY <1>1, <1>2, <1>4, <1>5, EndExact
<1>6. ASSUME NEW n \in Int, NEW k, ApplyLedgerDelta(c, n, k), ~(End(c) /\ UNCHANGED account),
             apart /\ faults = 0 /\ account'.available = account.available - n =>
               /\ Underway(k, account', quota, due, paid)
               /\ k.at # "idle"
      PROVE  Opened' /\ Exact'
  <2>1. account' = Charged(account, n) /\ Update(c, k)
    BY <1>6 DEF ApplyLedgerDelta
  <2>2. account'.exists /\ account'.available = account.available - n
    BY <1>0, <1>2, <2>1, ChargedTyped
  <2> QED
    BY <1>2, <1>4, <1>6, <2>1, <2>2, ExactMoves
<1>7. CASE Apply(c)
  <2> DEFINE k == [call[c] EXCEPT !.at = "project"]
             n == call[c].delta
  <2>1. ApplyLedgerDelta(c, n, k) /\ call[c].at = "apply"
    BY <1>7 DEF Apply, At
  <2>2. n \in Int
    BY CallTyped DEF ExactInv, SafeInv, BaseInv
  <2>3. k.at = "project" /\ k.delta = call[c].delta /\ k.target = call[c].target
    BY <1>0 DEF Call
  <2> HIDE DEF k
  <2>4. apart /\ faults = 0 =>
          /\ Level(account, quota, due)
          /\ call[c].target # NoTarget => call[c].delta = due - call[c].target
    BY <1>0, <2>1 DEF Underway, Adjusting
  <2>5. apart /\ faults = 0 => quota = due /\ account.available = due
    BY <1>2, <2>4 DEF Level
  <2>6. apart /\ faults = 0 /\ account'.available = account.available - n =>
          Underway(k, account', quota, due, paid) /\ k.at # "idle"
    BY <2>3, <2>4, <2>5 DEF Underway, Adjusting
  <2> QED
    BY <1>5, <1>6, <2>1, <2>2, <2>6
<1>8. CASE Align(c)
  <2> DEFINE k == [call[c] EXCEPT !.at = "apply"]
             n == -call[c].diff
  <2>1. ApplyLedgerDelta(c, n, k) /\ call[c].at = "align"
    BY <1>8 DEF Align, At
  <2>2. n \in Int
    BY CallTyped DEF ExactInv, SafeInv, BaseInv
  <2>3. ~(apart /\ faults = 0)
    BY <1>0, <2>1 DEF Underway
  <2> HIDE DEF k, n
  <2> QED
    BY <1>5, <1>6, <2>1, <2>2, <2>3
<1>9. CASE Undo(c)
  <2> DEFINE n == -call[c].delta
  <2>1. ApplyLedgerDelta(c, n, NoCall) /\ call[c].at = "undo"
    BY <1>9 DEF Undo, At
  <2>2. n \in Int
    BY CallTyped DEF ExactInv, SafeInv, BaseInv
  <2>3. ~(apart /\ faults = 0)
    BY <1>0, <2>1 DEF Underway
  <2> HIDE DEF n
  <2> QED
    BY <1>5, <1>6, <2>1, <2>2, <2>3
<1> QED
  BY <1>7, <1>8, <1>9

\* The column follows.
LEMMA ProjectExact ==
    ASSUME ExactInv, NEW c \in Callers, Project(c)
    PROVE  Opened' /\ Exact'
<1>0. /\ account.used => account.exists
      /\ call[c].at \in Ensured => account.exists
      /\ quota \in Int /\ due \in Int /\ account.available \in Int
      /\ apart /\ faults = 0 => Underway(call[c], account, quota, due, paid)
  BY ExactFacts
<1>1. /\ call[c].at = "project" /\ quota' = quota - call[c].delta /\ Update(c, NoCall)
      /\ due' = IF call[c].target = NoTarget THEN due - call[c].delta ELSE call[c].target
      /\ UNCHANGED <<account, granted, lots, drawn, paid, faults, history>>
  BY DEF Project, At, End
<1>2. call[c].delta \in Int /\ (call[c].target # NoTarget => call[c].target \in Int)
  <2>1. call[c].target \in Targets \cup {NoTarget} /\ call[c].delta \in Int
    BY CallTyped DEF ExactInv, SafeInv, BaseInv
  <2>2. \A t \in Targets : t \in Int
    BY WalletAssumption
  <2> QED
    BY <2>1, <2>2
<1>3. apart /\ faults = 0 => Level(account', quota', due')
  BY <1>0, <1>1, <1>2 DEF Underway, Adjusting, Level
<1>4. Underway(NoCall, account', quota', due', paid') /\ NoCall.at \notin Ensured
  BY NoCallFormed, IdleUnderway
<1>5. ~At(c, "idle") /\ apart' = apart /\ faults' = faults /\ account' = account
  BY <1>1 DEF At, history
<1> QED
  BY <1>0, <1>1, <1>3, <1>4, <1>5, ExactMoves

\* A top-up reads its order, locks it, and reads column and snapshot.
LEMMA TopUpReadsExact ==
    ASSUME ExactInv, NEW c \in Callers,
           ReadOrder(c) \/ SaveOrder(c) \/ ReadColumn(c) \/ ReadSnapshot(c)
               \/ RollbackCredit(c)
    PROVE  Opened' /\ Exact'
<1>0. /\ call[c] \in Call /\ account \in Account /\ account.available \in Int
      /\ quota \in Int /\ due \in Int
      /\ account.used => account.exists
      /\ apart /\ faults = 0 => Underway(call[c], account, quota, due, paid)
  BY ExactFacts
<1>1. UNCHANGED <<wallet, faults, due, history>>
  BY DEF ReadOrder, SaveOrder, ReadColumn, ReadSnapshot, RollbackCredit
<1>2. /\ account' = account /\ quota' = quota /\ paid' = paid /\ faults' = faults
      /\ apart' = apart /\ due' = due
  BY <1>1 DEF wallet, history
<1>3. call[c].at \in ToppingUp
  BY DEF ReadOrder, SaveOrder, ReadColumn, ReadSnapshot, RollbackCredit, At, ToppingUp
<1>4. ~At(c, "idle") /\ call[c].at \notin {"bootstrap", "project"}
  BY <1>3 DEF At, ToppingUp
<1>5. apart /\ faults = 0 => Level(account, quota, due)
  BY <1>0, <1>4 DEF Underway, At
<1>6. CASE End(c)
  BY <1>2, <1>4, <1>6, EndExact
<1>7. CASE ReadOrder(c) /\ ~End(c)
  <2> DEFINE k == [call[c] EXCEPT !.at = "save"]
  <2>1. Update(c, k) /\ call[c].subject \notin paid
    BY <1>7 DEF ReadOrder, GoTo
  <2>2. k.at = "save" /\ k.subject = call[c].subject
    BY <1>0 DEF Call
  <2> HIDE DEF k
  <2>3. apart /\ faults = 0 => Underway(k, account', quota', due', paid')
    BY <1>2, <1>5, <2>1, <2>2 DEF Underway, Adjusting
  <2> QED
    BY <1>0, <1>2, <1>4, <2>1, <2>2, <2>3, ExactMoves DEF Ensured
<1>8. CASE SaveOrder(c)
  <2> DEFINE k == [call[c] EXCEPT !.at = "balance"]
  <2>1. Update(c, k) /\ call[c].at = "save"
    BY <1>8 DEF SaveOrder, GoTo, At
  <2>2. k.at = "balance" /\ k.subject = call[c].subject
    BY <1>0 DEF Call
  <2> HIDE DEF k
  <2>3. apart /\ faults = 0 => Underway(k, account', quota', due', paid')
    BY <1>0, <1>2, <1>5, <2>1, <2>2 DEF Underway, Adjusting
  <2> QED
    BY <1>0, <1>2, <1>4, <2>1, <2>2, <2>3, ExactMoves DEF Ensured
<1>9. CASE ReadColumn(c)
  <2> DEFINE k == [call[c] EXCEPT !.seen = quota, !.at = "snapshot"]
  <2>1. Update(c, k) /\ call[c].at = "balance"
    BY <1>9 DEF ReadColumn, At
  <2>2. k.at = "snapshot" /\ k.subject = call[c].subject /\ k.seen = quota
    BY <1>0 DEF Call
  <2> HIDE DEF k
  <2>3. apart /\ faults = 0 => quota = due
    BY <1>5 DEF Level
  <2>4. apart /\ faults = 0 => Underway(k, account', quota', due', paid')
    BY <1>0, <1>2, <1>5, <2>1, <2>2, <2>3 DEF Underway, Adjusting
  <2> QED
    BY <1>0, <1>2, <1>4, <2>1, <2>2, <2>4, ExactMoves DEF Ensured
<1>10. CASE ReadSnapshot(c)
  <2> DEFINE boot == IF account.used \/ call[c].seen <= 0 THEN 0 ELSE call[c].seen
             fresh == ~account.exists
             diff == call[c].seen - account.available - boot
             k == [call[c] EXCEPT !.boot = boot, !.fresh = fresh, !.diff = diff,
                                  !.at = "credit"]
  <2>1. Update(c, k) /\ call[c].at = "snapshot"
    BY <1>10 DEF ReadSnapshot, At
  <2>2. call[c].seen \in Int
    BY CallTyped DEF ExactInv, SafeInv, BaseInv
  <2>3. boot \in Int
    BY <2>2
  <2> HIDE DEF boot, fresh
  <2>4. boot + diff = call[c].seen - account.available
    BY <1>0, <2>2, <2>3
  <2> HIDE DEF diff
  <2>5. /\ k.at = "credit" /\ k.subject = call[c].subject /\ k.seen = call[c].seen
        /\ k.boot = boot /\ k.diff = diff
    BY <1>0 DEF Call
  <2> HIDE DEF k
  <2>6. apart /\ faults = 0 => Underway(k, account', quota', due', paid')
    BY <1>0, <1>2, <1>5, <2>1, <2>4, <2>5 DEF Underway, Adjusting
  <2> QED
    BY <1>0, <1>2, <1>4, <2>1, <2>5, <2>6, ExactMoves DEF Ensured
<1>11. CASE RollbackCredit(c)
  BY <1>6, <1>11 DEF RollbackCredit
<1> QED
  BY <1>6, <1>7, <1>8, <1>9, <1>10, <1>11

\* A lone credit brings what the account lacked, and the value of its order.
LEMMA CreditExact ==
    ASSUME ExactInv, NEW c \in Callers, Credit(c)
    PROVE  Opened' /\ Exact'
<1> DEFINE o == call[c].subject
           gift == LedgerCredit(o)
           moved == call[c].boot + call[c].diff + gift
           available == account.available + moved
           boot == account.boot + call[c].boot
           v == Value[o]
<1>0. /\ call[c] \in Call /\ Formed(call[c]) /\ account.available \in Int
      /\ quota \in Int /\ due \in Int
      /\ apart /\ faults = 0 => Underway(call[c], account, quota, due, paid)
  BY ExactFacts
<1>1. /\ call[c].at = "credit" /\ Update(c, NoCall)
      /\ account' = [exists |-> TRUE, available |-> available, used |-> TRUE, boot |-> boot]
      /\ quota' = quota + v /\ due' = IF o \in paid THEN due ELSE due + v
      /\ UNCHANGED <<drawn, faults, history>>
  BY DEF Credit, At, End
<1>2. /\ o \in Orders /\ v \in Int
      /\ call[c].boot \in Int /\ call[c].diff \in Int
  BY <1>0, <1>1, WalletAssumption, CallTyped
     DEF Formed, ToppingUp, ExactInv, SafeInv, BaseInv
<1>3. /\ ~At(c, "idle") /\ apart' = apart /\ faults' = faults
      /\ account'.exists /\ account'.available = available
  BY <1>1 DEF At, history
<1>4. apart /\ faults = 0 =>
        /\ o \notin paid /\ quota = due
        /\ call[c].boot + call[c].diff = due - account.available
  BY <1>0, <1>1 DEF Underway, Level
<1>5. o \notin paid => gift = v
  BY <1>2 DEF ExactInv, SafeInv, GrantsOnce, LedgerCredit
<1> HIDE DEF gift, v, boot, o
<1>6. apart /\ faults = 0 => available = due + v
  BY <1>0, <1>2, <1>4, <1>5
<1> HIDE DEF available
<1>7. apart /\ faults = 0 => Level(account', quota', due')
  BY <1>1, <1>3, <1>4, <1>6 DEF Level
<1>8. Underway(NoCall, account', quota', due', paid') /\ NoCall.at \notin Ensured
  BY NoCallFormed, IdleUnderway
<1> QED
  BY <1>1, <1>3, <1>7, <1>8, ExactMoves

\* Attribution moves neither ledger nor column.
LEMMA AttributesExact ==
    ASSUME ExactInv, NEW c \in Callers,
           ReadLots(c) \/ \E seen \in 0 .. Len(lots) : Allocate(c, seen)
    PROVE  Opened' /\ Exact'
<1>0. /\ call[c] \in Call
      /\ apart /\ faults = 0 => Underway(call[c], account, quota, due, paid)
  BY ExactFacts
<1>1. CASE ReadLots(c)
  <2> DEFINE missing == Missing(Value[call[c].subject])
             known == Len(lots)
             k == [call[c] EXCEPT !.missing = missing, !.known = known, !.at = "allocate"]
  <2>1. call[c].at = "lots" /\ Update(c, k) /\ UNCHANGED <<wallet, faults, due, history>>
    BY <1>1 DEF ReadLots, At
  <2> HIDE DEF missing, known
  <2>2. k.at = "allocate"
    BY <1>0 DEF Call
  <2> HIDE DEF k
  <2>3. /\ account' = account /\ quota' = quota /\ paid' = paid /\ faults' = faults
        /\ apart' = apart /\ due' = due /\ ~At(c, "idle")
    BY <2>1 DEF wallet, history, At
  <2>4. apart /\ faults = 0 => Underway(k, account', quota', due', paid')
    BY <1>0, <2>1, <2>2, <2>3 DEF Underway, Adjusting
  <2>5. account.used => account.exists
    BY ExactFacts
  <2> QED
    BY <2>1, <2>2, <2>3, <2>4, <2>5, ExactMoves DEF Ensured
<1>2. ASSUME NEW seen, Allocate(c, seen) PROVE Opened' /\ Exact'
  <2>1. /\ call[c].at = "allocate" /\ End(c)
        /\ UNCHANGED <<account, quota, granted, paid, faults, due, history>>
    BY <1>2 DEF Allocate, At
  <2> QED
    BY <2>1, EndExact DEF history, At
<1> QED
  BY <1>1, <1>2

\* After a fault nothing is claimed but that an account in use exists.
LEMMA FaultsExact ==
    ASSUME ExactInv, NEW c \in Callers, Fail(c) \/ FailSettling(c)
    PROVE  Opened' /\ Exact'
<1>0. /\ call[c] \in Call /\ account \in Account
      /\ account.used => account.exists
      /\ call[c].at \in Ensured => account.exists
      /\ faults \in Nat /\ call[c].diff \in Int /\ call[c].delta \in Int
  BY ExactFacts, CallTyped DEF ExactInv, SafeInv, BaseInv, TypeOK
<1>1. faults' = faults + 1 /\ UNCHANGED history
  BY DEF Fail, FailSettling
<1>2. faults' # 0 /\ apart' = apart
  BY <1>0, <1>1 DEF history
<1>3. CASE Fail(c)
  <2> DEFINE k == [call[c] EXCEPT !.at = "undo"]
  <2>1. /\ ~At(c, "idle") /\ UNCHANGED wallet
        /\ IF At(c, "project") THEN Update(c, k) ELSE Update(c, NoCall)
    BY <1>3 DEF Fail, GoTo, End
  <2>2. account' = account
    BY <2>1 DEF wallet
  <2>3. At(c, "project") => account.exists
    BY <1>0 DEF At, Ensured
  <2>4. NoCall.at \notin Ensured
    BY NoCallFormed, IdleUnderway
  <2> HIDE DEF k
  <2>5. CASE At(c, "project")
    BY <1>0, <1>2, <2>1, <2>2, <2>3, <2>5, ExactMoves
  <2>6. CASE ~At(c, "project")
    BY <1>0, <1>2, <2>1, <2>2, <2>4, <2>6, ExactMoves
  <2> QED
    BY <2>5, <2>6
<1>4. CASE FailSettling(c)
  <2> DEFINE n == CASE At(c, "align") -> -call[c].diff
                    [] At(c, "apply") -> call[c].delta
                    [] At(c, "undo")  -> -call[c].delta
                    [] OTHER          -> 0
  <2>1. account' = Charged(account, n) /\ Update(c, NoCall) /\ n > 0
    BY <1>4 DEF FailSettling, End
  <2>2. n \in Int
    BY <1>0 DEF At
  <2>3. call[c].at \in {"align", "apply", "undo"}
    BY <2>1 DEF At
  <2> HIDE DEF n
  <2>4. account.exists /\ account'.exists /\ ~At(c, "idle")
    BY <1>0, <2>1, <2>2, <2>3, ChargedTyped DEF Ensured, At
  <2> QED
    BY <1>2, <2>1, <2>4, ExactMoves
<1> QED
  BY <1>3, <1>4

\* Every step keeps a lone call on its way.
LEMMA ExactStep == ExactInv /\ [Next]_vars => ExactInv'
<1> SUFFICES ASSUME ExactInv, [Next]_vars PROVE Opened' /\ Exact'
  BY SafeStep DEF ExactInv
<1>1. ASSUME NEW c \in Callers, Proceed(c) PROVE Opened' /\ Exact'
  <2>1. \/ SetRead(c) \/ Read(c) \/ Compare(c)
        \/ Ensure(c) \/ Bootstrap(c)
        \/ Align(c) \/ Apply(c) \/ Undo(c) \/ Project(c)
        \/ ReadOrder(c) \/ SaveOrder(c) \/ ReadColumn(c) \/ ReadSnapshot(c)
        \/ RollbackCredit(c)
        \/ Credit(c)
        \/ ReadLots(c) \/ \E seen \in 0 .. Len(lots) : Allocate(c, seen)
    BY <1>1 DEF Proceed
  <2> QED
    BY <2>1, AdjustReadsExact, EnsureExact, BootstrapExact, ChargesExact, ProjectExact,
       TopUpReadsExact, CreditExact, AttributesExact
<1>2. CASE UNCHANGED vars
  <2>1. UNCHANGED <<account, quota, paid, call, faults, due, apart>>
    BY <1>2 DEF vars
  <2>2. Opened'
    BY <2>1 DEF ExactInv, Opened
  <2>3. Exact'
    BY <2>1 DEF ExactInv, Exact, AllIdle, At, Level
  <2> QED
    BY <2>2, <2>3
<1>3. CASE Next
  <2>1. PICK c \in Callers :
          \/ \E delta \in Deltas : Adjust(c, delta)
          \/ \E target \in Targets : Set(c, target)
          \/ \E o \in Orders : Complete(c, o)
          \/ \E r \in Requests : Settle(c, r)
          \/ Proceed(c)
          \/ Fail(c) \/ FailSettling(c)
    BY <1>3 DEF Next
  <2> QED
    BY <1>1, <2>1, StartExact, FaultsExact
<1> QED
  BY <1>2, <1>3

\* Calls that ran one after the other, without a fault, leave the ledger and the
\* column with what they add up to, whichever of the two each of them read first
\* (the ledger in AdjustWalletQuota, the column in CreditWalletQuotaTx) and
\* whichever created the account.
THEOREM WalletExact == Spec => []ExactWhenApart
<1>1. Init => ExactInv
  <2> SUFFICES ASSUME Init PROVE Opened /\ Exact
    BY SafeInit DEF ExactInv
  <2>1. /\ account = NewAccount /\ quota = InitialQuota /\ due = InitialQuota
        /\ call = [c \in Callers |-> NoCall]
    BY DEF Init
  <2>2. ~account.used /\ ~account.exists
    BY <2>1 DEF NewAccount
  <2>3. Opened
    BY <2>1, <2>2, NoCallFormed DEF Opened, Ensured
  <2>4. \A c \in Callers : call[c].at = "idle" /\ Underway(call[c], account, quota, due, paid)
    BY <2>1, NoCallFormed, IdleUnderway
  <2>5. Exact
    BY <2>1, <2>2, <2>4 DEF Exact, Level, At
  <2> QED
    BY <2>3, <2>5
<1>2. ExactInv => ExactWhenApart
  BY DEF ExactInv, Exact, Level, ExactWhenApart
<1> QED
  BY <1>1, <1>2, ExactStep, PTL DEF Spec

-----------------------------------------------------------------------------
(* Calls apart: which lots give, and that they suffice *)

\* What the lots before i, or up to i, hold and give.
Holds(ls, i) == SumFunctionOnSet([j \in DOMAIN ls |-> ls[j].remaining], 1 .. i)

\* What a prefix of the lots holds is a number, and grows by the next lot.
LEMMA HoldsTyped ==
    ASSUME NEW ls, Held(ls)
    PROVE  /\ \A i \in 0 .. Len(ls) : Holds(ls, i) \in Nat
           /\ \A i \in DOMAIN ls : Holds(ls, i) = Holds(ls, i - 1) + ls[i].remaining
           /\ Holds(ls, 0) = 0
           /\ Holds(ls, Len(ls)) = Remaining(ls)
<1> DEFINE f == [j \in DOMAIN ls |-> ls[j].remaining]
           V(i) == SumFunctionOnSet(f, 1 .. i)
<1>1. /\ DOMAIN ls = 1 .. Len(ls) /\ Len(ls) \in Nat /\ DOMAIN f = DOMAIN ls
      /\ \A j \in DOMAIN ls : f[j] \in Nat /\ f[j] = ls[j].remaining
  BY HeldTyped
<1>2. \A i : Holds(ls, i) = V(i)
  BY DEF Holds
<1>3. Remaining(ls) = SumFunctionOnSet(f, DOMAIN ls)
  BY <1>1 DEF Remaining, SumFunction
<1> HIDE DEF f
<1>4. ASSUME NEW i \in 0 .. Len(ls) PROVE V(i) \in Nat
  <2>1. i \in Int /\ 1 \in Int /\ \A j \in 1 .. i : f[j] \in Nat
    BY <1>1
  <2>2. IsFiniteSet(1 .. i)
    BY <2>1, FS_Interval
  <2> QED
    BY <2>1, <2>2, SumNat
<1>5. ASSUME NEW i \in DOMAIN ls PROVE V(i) = V(i - 1) + f[i]
  <2> DEFINE S == 1 .. (i - 1)
  <2>1. IsFiniteSet(S) /\ i \notin S /\ \A j \in S \cup {i} : f[j] \in Int
    <3>1. IsFiniteSet(S)
      BY <1>1, FS_Subset, HeldTyped
    <3> QED
      BY <1>1, <3>1
  <2>2. 1 .. i = S \cup {i}
    BY <1>1
  <2>3. V(i - 1) = SumFunctionOnSet(f, S) /\ V(i) = SumFunctionOnSet(f, S \cup {i})
    BY <2>2
  <2>4. V(i - 1) \in Int
    BY <1>1, <1>4
  <2> HIDE DEF S, V
  <2>5. SumFunctionOnSet(f, S \cup {i}) = f[i] + SumFunctionOnSet(f, S)
    BY <2>1, SumAdd
  <2>6. f[i] \in Int
    BY <1>1
  <2> QED
    BY <2>3, <2>4, <2>5, <2>6
<1>6. V(0) = 0
  <2>1. 1 .. 0 = {}
    OBVIOUS
  <2> QED
    BY <2>1, SumEmpty
<1> HIDE DEF V
<1>7. V(Len(ls)) = Remaining(ls)
  BY <1>1, <1>3 DEF V
<1>8. \A i \in DOMAIN ls : Holds(ls, i) = Holds(ls, i - 1) + ls[i].remaining
  BY <1>1, <1>2, <1>5
<1> QED
  BY <1>1, <1>2, <1>4, <1>6, <1>7, <1>8

\* What lot i gives, when all are seen: what it has of what the older ones leave open.
Gives(ls, used, n, i) ==
    used[i] = Min({Max({0, n - Holds(ls, i - 1)}), ls[i].remaining})

\* With all lots in sight, every lot gives that.
LEMMA UsedGives ==
    ASSUME NEW ls, Held(ls), NEW visible, visible = DOMAIN ls, NEW n \in Nat,
           NEW used, used = Used(ls, visible, n)
    PROVE  \A i \in DOMAIN ls : Gives(ls, used, n, i)
<1> SUFFICES ASSUME NEW i \in DOMAIN ls PROVE Gives(ls, used, n, i)
  OBVIOUS
<1> DEFINE S == {k \in visible : k < i}
           f == [j \in S |-> ls[j].remaining]
           older == SumFunction(f)
           g == [j \in DOMAIN ls |-> ls[j].remaining]
<1>1. used[i] = Min({Max({0, n - older}), ls[i].remaining})
  BY DEF Used
<1>2. DOMAIN ls = 1 .. Len(ls) /\ Len(ls) \in Nat
  BY HeldTyped
<1>3. S = 1 .. (i - 1) /\ IsFiniteSet(S)
  <2>1. S = 1 .. (i - 1) /\ S \in SUBSET DOMAIN ls
    BY <1>2
  <2> QED
    BY <2>1, FS_Subset, HeldTyped
<1>4. \A j \in S : f[j] = g[j]
  BY <1>2, <1>3
<1>5. older = SumFunctionOnSet(f, S)
  BY DEF SumFunction
<1>6. Holds(ls, i - 1) = SumFunctionOnSet(g, S)
  BY <1>3 DEF Holds
<1> HIDE DEF f, g, S
<1>7. SumFunctionOnSet(f, S) = SumFunctionOnSet(g, S)
  BY <1>3, <1>4, SumSame
<1>8. older = Holds(ls, i - 1)
  BY <1>5, <1>6, <1>7
<1> HIDE DEF older
<1> QED
  BY <1>1, <1>8 DEF Gives

\* Two parts of n, or of the m there is.
Shares(s, g, n, m) == s \in Nat /\ g \in Nat /\ s + g = Min({n, m})

\* One lot more: what all give is what is asked, or all they have.
LEMMA GivesMore ==
    ASSUME NEW n \in Nat, NEW p \in Nat, NEW h \in Nat,
           NEW s, s = Min({n, p}), NEW g, g = Min({Max({0, n - p}), h}),
           NEW m, m = p + h
    PROVE  Shares(s, g, n, m)
<1> DEFINE d == n - p
           open == Max({0, d})
<1>0. n \in Int /\ p \in Int /\ m \in Int
  OBVIOUS
<1>1. d \in Int /\ m \in Nat /\ 0 \in Int /\ g = Min({open, h})
  OBVIOUS
<1> HIDE DEF d
<1>2. open \in {0, d} /\ open >= 0 /\ open >= d
  BY <1>1, MinMaxOfTwo
<1>3. g = Min({open, h}) /\ open \in Int
  BY <1>1, <1>2
<1> HIDE DEF open
<1>4. g \in {open, h} /\ g <= open /\ g <= h
  <2>1. open \in Int /\ h \in Int
    BY <1>3
  <2>2. Min({open, h}) \in {open, h} /\ Min({open, h}) <= open /\ Min({open, h}) <= h
    BY <2>1, MinMaxOfTwo
  <2> QED
    BY <1>3, <2>2
<1>5. s \in {n, p} /\ s <= n /\ s <= p
  BY <1>0, MinMaxOfTwo
<1>6. Min({n, m}) \in {n, m} /\ Min({n, m}) <= n /\ Min({n, m}) <= m
  BY <1>0, <1>1, MinMaxOfTwo, Zenon
<1> DEFINE t == Min({n, m})
<1>7. t \in {n, m} /\ t <= n /\ t <= m
  BY <1>6
<1> HIDE DEF t
<1>8. s + g = t /\ g \in Nat /\ s \in Nat
  BY <1>1, <1>2, <1>3, <1>4, <1>5, <1>7 DEF d
<1> QED
  BY <1>8 DEF t, Shares

\* All lots together give what is asked, or all they have.
LEMMA UsedSum ==
    ASSUME NEW ls, Held(ls), NEW visible, visible = DOMAIN ls, NEW n \in Nat,
           NEW used, used = Used(ls, visible, n)
    PROVE  SumFunction(used) = Min({n, Remaining(ls)})
<1> DEFINE m == Len(ls)
           V(k) == SumFunctionOnSet(used, 1 .. k)
           Good(k) == V(k) = Min({n, Holds(ls, k)})
           G == {T \in SUBSET (1 .. m) : \A k \in 0 .. m : T = 1 .. k => Good(k)}
<1>1. DOMAIN ls = 1 .. m /\ m \in Nat /\ DOMAIN used = 1 .. m /\ IsFiniteSet(1 .. m)
  BY HeldTyped, FS_Interval DEF Used
<1>2. \A i \in 1 .. m : Gives(ls, used, n, i)
  BY <1>1, UsedGives
<1>3. /\ \A i \in 0 .. m : Holds(ls, i) \in Nat
      /\ \A i \in 1 .. m : /\ Holds(ls, i) = Holds(ls, i - 1) + ls[i].remaining
                           /\ ls[i].remaining \in Nat
      /\ Holds(ls, 0) = 0
      /\ Holds(ls, m) = Remaining(ls)
  BY <1>1, HoldsTyped, HeldTyped
<1>4. \A i \in 1 .. m : used[i] \in Nat
  <2> SUFFICES ASSUME NEW i \in 1 .. m PROVE used[i] \in Nat
    OBVIOUS
  <2> DEFINE p == Holds(ls, i - 1)
             h == ls[i].remaining
             s == Min({n, p})
             g == used[i]
  <2>0. i - 1 \in 0 .. m
    BY <1>1
  <2>1. p \in Nat /\ h \in Nat
    BY <2>0, <1>3
  <2>2. g = Min({Max({0, n - p}), h})
    BY <1>2 DEF Gives
  <2> HIDE DEF p, h, s, g
  <2>3. s = Min({n, p})
    BY DEF s
  <2>4. Shares(s, g, n, p + h)
    BY <2>1, <2>2, <2>3, GivesMore
  <2> QED
    BY <2>4 DEF g, Shares
<1> HIDE DEF m
<1>5. Good(0)
  <2>1. 1 .. 0 = {}
    OBVIOUS
  <2>2. V(0) = 0
    BY <2>1, SumEmpty
  <2>3. 0 \in Int /\ n \in Int
    OBVIOUS
  <2>4. Min({n, 0}) \in {n, 0} /\ Min({n, 0}) <= n /\ Min({n, 0}) <= 0
    BY <2>3, MinMaxOfTwo
  <2> DEFINE t == Min({n, 0})
  <2>5. t \in {n, 0} /\ t <= n /\ t <= 0
    BY <2>4
  <2> HIDE DEF t
  <2>6. t = 0
    BY <2>5
  <2>7. Holds(ls, 0) = 0
    BY <1>3
  <2>8. Min({n, Holds(ls, 0)}) = Min({n, 0})
    BY <2>7
  <2>9. Min({n, 0}) = 0
    BY <2>6 DEF t
  <2>10. Good(0) <=> V(0) = Min({n, Holds(ls, 0)})
    OBVIOUS
  <2> HIDE DEF V, Good
  <2> QED
    BY <2>2, <2>8, <2>9, <2>10
<1>6. ASSUME NEW k \in 1 .. m, Good(k - 1) PROVE Good(k)
  <2> DEFINE S == 1 .. (k - 1)
             p == Holds(ls, k - 1)
             h == ls[k].remaining
             s == V(k - 1)
             g == used[k]
             q == Holds(ls, k)
  <2>0. S \in SUBSET (1 .. m) /\ k \notin S
    BY <1>1
  <2>1. IsFiniteSet(S) /\ k \notin S /\ \A j \in S \cup {k} : used[j] \in Int
    BY <1>1, <1>4, <2>0, FS_Subset
  <2>2. 1 .. k = S \cup {k}
    BY <1>1
  <2>3. V(k) = SumFunctionOnSet(used, S \cup {k}) /\ s = SumFunctionOnSet(used, S)
    BY <2>2
  <2>4. p \in Nat /\ h \in Nat /\ q = p + h
    BY <1>1, <1>3
  <2>5. s = Min({n, p}) /\ g = Min({Max({0, n - p}), h})
    BY <1>2, <1>6 DEF Gives
  <2>5a. V(k) = Min({n, q}) => Good(k)
    BY DEF Good
  <2> HIDE DEF S, p, h, s, V, q
  <2>6. SumFunctionOnSet(used, S \cup {k}) = g + SumFunctionOnSet(used, S)
    BY <2>1, SumAdd
  <2> HIDE DEF g
  <2>7. Shares(s, g, n, q)
    BY <2>4, <2>5, GivesMore, Zenon
  <2> QED
    BY <2>3, <2>5a, <2>6, <2>7 DEF Shares
<1> HIDE DEF Good
<1>7. ASSUME NEW T \in SUBSET (1 .. m), \A U \in SUBSET T : U # T => U \in G
      PROVE  T \in G
  <2>1. ASSUME NEW k \in 0 .. m, T = 1 .. k PROVE Good(k)
    <3>1. CASE k = 0
      BY <1>5, <3>1
    <3>2. CASE k # 0
      <4>1. k \in 1 .. m /\ k - 1 \in 0 .. m
        BY <1>1, <3>2
      <4>2. 1 .. (k - 1) \in SUBSET T /\ k \in T /\ k \notin 1 .. (k - 1)
        BY <2>1, <4>1
      <4>3. 1 .. (k - 1) \in G
        BY <1>7, <4>2
      <4>4. Good(k - 1)
        BY <4>1, <4>3
      <4> QED
        BY <1>6, <4>1, <4>4
    <3> QED
      BY <3>1, <3>2
  <2> QED
    BY <2>1
<1> HIDE DEF G
<1> DEFINE D == 1 .. m
<1>8. SUBSET D \subseteq G
  <2>1. IsFiniteSet(D) /\ \A T \in SUBSET D : (\A U \in SUBSET T : U # T => U \in G) => T \in G
    BY <1>1, <1>7
  <2> HIDE DEF D
  <2> QED
    BY <2>1, SubsetInduction
<1>9. Good(m)
  BY <1>1, <1>8 DEF G
<1>10. SumFunction(used) = V(m)
  BY <1>1 DEF SumFunction
<1> QED
  BY <1>3, <1>9, <1>10 DEF Good

\* The ledger account of the wallet is never overdrawn.
Solvent == account.available >= 0

\* A charge that the account covers, or a credit, leaves it solvent.
LEMMA ChargedSolvent ==
    ASSUME TypeOK, Solvent, NEW n \in Int, CanPay(account, n), account' = Charged(account, n)
    PROVE  Solvent'
<1>1. account \in Account /\ account.available \in Int
  BY AccountTyped DEF TypeOK
<1>2. account'.available = account.available - n
  BY <1>1, ChargedTyped
<1> QED
  BY <1>1, <1>2 DEF CanPay, Solvent

\* So does a ledger operation, done or refused.
LEMMA ApplySolvent ==
    ASSUME TypeOK, Solvent, NEW c \in Callers, NEW n \in Int, NEW row,
           ApplyLedgerDelta(c, n, row)
    PROVE  Solvent'
<1>1. CASE CanPay(account, n)
  BY <1>1, ChargedSolvent DEF ApplyLedgerDelta
<1>2. CASE ~CanPay(account, n)
  BY <1>2 DEF ApplyLedgerDelta, Solvent
<1> QED
  BY <1>1, <1>2

\* The steps of a call that leave the account alone.
LEMMA AccountKept ==
    ASSUME NEW c \in Callers,
           \/ \E delta \in Deltas : Adjust(c, delta)
           \/ \E target \in Targets : Set(c, target)
           \/ \E o \in Orders : Complete(c, o)
           \/ SetRead(c) \/ Read(c) \/ Compare(c) \/ Project(c)
           \/ ReadOrder(c) \/ SaveOrder(c) \/ ReadColumn(c) \/ ReadSnapshot(c)
           \/ RollbackCredit(c) \/ ReadLots(c) \/ Fail(c)
           \/ \E seen \in 0 .. Len(lots) : Allocate(c, seen)
    PROVE  UNCHANGED account
BY DEF Adjust, Set, Complete, SetRead, Read, Compare, Project, ReadOrder, SaveOrder, ReadColumn,
       ReadSnapshot, RollbackCredit, ReadLots, Fail, Allocate, wallet

\* A top-up adds what its commit found covered, and the order.
LEMMA CreditSolvent ==
    ASSUME TypeOK, Solvent, NEW c \in Callers, Credit(c), call[c].subject \in Orders
    PROVE  Solvent'
<1> DEFINE gift == LedgerCredit(call[c].subject)
           n == call[c].boot + call[c].diff
<1>1. n \in Int /\ account.available \in Int /\ call[c].boot \in Int /\ call[c].diff \in Int
  BY CallTyped, AccountTyped
<1>2. gift \in Nat
  BY WalletAssumption DEF LedgerCredit
<1>3. account.available + n >= 0
  BY <1>1 DEF Credit, CanCommit, CanPay, Solvent
<1>4. account'.available = account.available + (n + gift)
  BY DEF Credit
<1> HIDE DEF gift, n
<1> QED
  BY <1>1, <1>2, <1>3, <1>4 DEF Solvent

\* No step overdraws it.
LEMMA SolventStep ==
    ASSUME SafeInv, Solvent, [Next]_vars
    PROVE  Solvent'
<1>0. TypeOK /\ BaseInv
  BY DEF SafeInv, BaseInv
<1>1. ASSUME UNCHANGED account PROVE Solvent'
  BY <1>1 DEF Solvent
<1>2. ASSUME NEW c \in Callers, NEW r \in Requests, Settle(c, r) PROVE Solvent'
  <2>1. Value[r] \in Int /\ CanPay(account, Value[r]) /\ account' = Charged(account, Value[r])
    BY <1>2, WalletAssumption DEF Settle, CanPay
  <2> QED
    BY <1>0, <2>1, ChargedSolvent
<1>3. ASSUME NEW c \in Callers, Ensure(c) PROVE Solvent'
  BY <1>0, <1>3 DEF Ensure, Solvent, TypeOK, Account
<1>4. ASSUME NEW c \in Callers, Bootstrap(c) PROVE Solvent'
  <2> DEFINE n == -call[c].seen
  <2>1. call[c].seen = InitialQuota
    BY <1>0, <1>4 DEF Bootstrap, At, BaseInv, FirstBalances, FirstBalance
  <2>2. n \in Int /\ n <= 0
    BY <2>1, WalletAssumption
  <2>3. CASE account.boot = 0
    <3> DEFINE a == Charged(account, n)
    <3>1. account' = [a EXCEPT !.boot = call[c].seen]
      BY <1>4, <2>3 DEF Bootstrap
    <3>2. a \in Account /\ a.available = account.available - n /\ account.available \in Int
      BY <1>0, <2>2, ChargedTyped, AccountTyped DEF TypeOK
    <3> HIDE DEF a
    <3>3. account'.available = a.available
      BY <3>1, <3>2 DEF Account
    <3> HIDE DEF n
    <3> QED
      BY <2>2, <3>2, <3>3 DEF Solvent
  <2>4. CASE account.boot # 0
    BY <1>1, <1>4, <2>4 DEF Bootstrap
  <2> QED
    BY <2>3, <2>4
<1>5. ASSUME NEW c \in Callers, Align(c) \/ Apply(c) \/ Undo(c) PROVE Solvent'
  <2>1. call[c].delta \in Int /\ -call[c].delta \in Int /\ -call[c].diff \in Int
    BY <1>0, CallTyped
  <2> QED
    BY <1>0, <1>5, <2>1, ApplySolvent DEF Align, Apply, Undo
<1>6. ASSUME NEW c \in Callers, Credit(c) PROVE Solvent'
  <2>1. call[c].subject \in Orders
    BY <1>0, <1>6 DEF Credit, At, BaseInv, CallsFormed, Formed, ToppingUp
  <2> QED
    BY <1>0, <1>6, <2>1, CreditSolvent
<1>7. ASSUME NEW c \in Callers, FailSettling(c) PROVE Solvent'
  <2> DEFINE n == CASE At(c, "align") -> -call[c].diff
                    [] At(c, "apply") -> call[c].delta
                    [] At(c, "undo")  -> -call[c].delta
                    [] OTHER          -> 0
  <2>1. CanPay(account, n) /\ account' = Charged(account, n)
    BY <1>7 DEF FailSettling
  <2>2. n \in Int
    BY <1>0, CallTyped DEF At
  <2> HIDE DEF n
  <2> QED
    BY <1>0, <2>1, <2>2, ChargedSolvent
<1>8. CASE UNCHANGED vars
  BY <1>1, <1>8 DEF vars
<1>9. CASE Next
  <2>1. PICK c \in Callers :
          \/ \E delta \in Deltas : Adjust(c, delta)
          \/ \E target \in Targets : Set(c, target)
          \/ \E o \in Orders : Complete(c, o)
          \/ \E r \in Requests : Settle(c, r)
          \/ Proceed(c)
          \/ Fail(c) \/ FailSettling(c)
    BY <1>9 DEF Next
  <2> QED
    BY <1>1, <1>2, <1>3, <1>4, <1>5, <1>6, <1>7, <2>1, AccountKept DEF Proceed
<1> QED
  BY <1>8, <1>9

\* An attribution that nothing overlaps has seen all the lots, and brings what
\* they lack.
Sighted(k, ls) ==
    k.at = "allocate" =>
        k.known = Len(ls) /\ Remaining(ls) + k.missing >= Value[k.subject]

\* While no two calls overlapped, one is under way, and it sees the lots as they are.
OneAtATime ==
    apart =>
        /\ \A c, d \in Callers : ~At(c, "idle") /\ ~At(d, "idle") => c = d
        /\ \A c \in Callers : Sighted(call[c], lots)

\* The call that is under way goes on.
LEMMA AloneMoves ==
    ASSUME TypeOK, OneAtATime, NEW c \in Callers, NEW k, Update(c, k), ~At(c, "idle"),
           apart' = apart, apart => Sighted(k, lots')
    PROVE  OneAtATime'
<1> SUFFICES ASSUME apart PROVE OneAtATime'
  BY DEF OneAtATime
<1>1. call'[c] = k /\ \A d \in Callers \ {c} : call'[d] = call[d]
  BY OneMoves
<1>2. \A d \in Callers \ {c} : call'[d].at = "idle"
  BY <1>1 DEF OneAtATime, At
<1>3. \A d, e \in Callers : ~At(d, "idle")' /\ ~At(e, "idle")' => d = e
  BY <1>2 DEF At
<1>4. \A d \in Callers : Sighted(call'[d], lots')
  BY <1>1, <1>2 DEF Sighted
<1> QED
  BY <1>3, <1>4 DEF OneAtATime, Sighted, Remaining

\* A call begins.
LEMMA AloneBegins ==
    ASSUME TypeOK, OneAtATime, NEW c \in Callers, NEW k, Begin(c, k), k.at # "allocate"
    PROVE  OneAtATime'
<1>0. apart' = (apart /\ AllIdle) /\ Update(c, k)
  BY DEF Begin
<1> SUFFICES ASSUME apart, AllIdle PROVE OneAtATime'
  BY <1>0 DEF OneAtATime
<1>1. call'[c] = k /\ \A d \in Callers \ {c} : call'[d] = call[d]
  BY <1>0, OneMoves
<1>2. \A d \in Callers \ {c} : call'[d].at = "idle"
  BY <1>1 DEF AllIdle, At
<1>3. \A d, e \in Callers : ~At(d, "idle")' /\ ~At(e, "idle")' => d = e
  BY <1>2 DEF At
<1>4. \A d \in Callers : Sighted(call'[d], lots')
  BY <1>1, <1>2 DEF Sighted
<1> QED
  BY <1>3, <1>4 DEF OneAtATime, Sighted, Remaining

\* A call that starts is not about to allocate.
LEMMA StartAlone ==
    ASSUME TypeOK, OneAtATime, NEW c \in Callers,
           \/ \E delta \in Deltas : Adjust(c, delta)
           \/ \E target \in Targets : Set(c, target)
           \/ \E o \in Orders : Complete(c, o)
           \/ \E r \in Requests : Settle(c, r)
    PROVE  OneAtATime'
<1>1. ASSUME NEW delta \in Deltas, Adjust(c, delta) PROVE OneAtATime'
  <2> DEFINE k == [NoCall EXCEPT !.at = "read", !.delta = delta]
  <2>1. Begin(c, k)
    BY <1>1, Zenon DEF Adjust
  <2>2. k.at = "read"
    BY DEF NoCall
  <2> HIDE DEF k
  <2> QED
    BY <2>1, <2>2, AloneBegins
<1>2. ASSUME NEW target \in Targets, Set(c, target) PROVE OneAtATime'
  <2> DEFINE k == [NoCall EXCEPT !.at = "setRead", !.target = target]
  <2>1. Begin(c, k)
    BY <1>2, Zenon DEF Set
  <2>2. k.at = "setRead"
    BY DEF NoCall
  <2> HIDE DEF k
  <2> QED
    BY <2>1, <2>2, AloneBegins
<1>3. ASSUME NEW o \in Orders, Complete(c, o) PROVE OneAtATime'
  <2> DEFINE k == [NoCall EXCEPT !.at = "order", !.subject = o]
  <2>1. Begin(c, k)
    BY <1>3, Zenon DEF Complete
  <2>2. k.at = "order"
    BY DEF NoCall
  <2> HIDE DEF k
  <2> QED
    BY <2>1, <2>2, AloneBegins
<1>4. ASSUME NEW r \in Requests, Settle(c, r) PROVE OneAtATime'
  <2> DEFINE k == [NoCall EXCEPT !.at = "lots", !.subject = r]
  <2>1. Begin(c, k)
    BY <1>4, Zenon DEF Settle
  <2>2. k.at = "lots"
    BY DEF NoCall
  <2> HIDE DEF k
  <2> QED
    BY <2>1, <2>2, AloneBegins
<1> QED
  BY <1>1, <1>2, <1>3, <1>4

\* A call that goes on was under way, and overlaps nothing new.
LEMMA ProceedApart ==
    ASSUME NEW c \in Callers, Proceed(c) \/ Fail(c) \/ FailSettling(c)
    PROVE  ~At(c, "idle") /\ apart' = apart
<1>1. CASE Proceed(c)
  BY <1>1 DEF Proceed, SetRead, Read, Ensure, Bootstrap, Compare, Align, Apply, Project, Undo,
              ReadOrder, SaveOrder, ReadColumn, ReadSnapshot, Credit, RollbackCredit, ReadLots,
              Allocate, ApplyLedgerDelta, history, At
<1>2. CASE Fail(c)
  BY <1>2 DEF Fail, history
<1>3. CASE FailSettling(c)
  <2>1. At(c, "align") \/ At(c, "apply") \/ At(c, "undo")
    BY <1>3 DEF FailSettling
  <2> QED
    BY <1>3, <2>1 DEF FailSettling, history, At
<1> QED
  BY <1>1, <1>2, <1>3

\* The lots as they are read, with what they lack, cover the request.
LEMMA ReadLotsAlone ==
    ASSUME SafeInv, Solvent, OneAtATime, NEW c \in Callers, ReadLots(c)
    PROVE  OneAtATime'
<1> DEFINE r == call[c].subject
           m == Missing(Value[r])
           l == Len(lots)
           k == [call[c] EXCEPT !.missing = m, !.known = l, !.at = "allocate"]
<1>1. Update(c, k) /\ lots' = lots
  BY DEF ReadLots, wallet
<1>2. TypeOK /\ r \in Requests
  BY DEF ReadLots, At, SafeInv, BaseInv, CallsFormed, Formed, Attributing
<1>3. Value[r] \in Nat /\ account.available \in Int /\ Remaining(lots) \in Nat
  BY <1>2, WalletAssumption, AccountTyped, FundedNat DEF TypeOK, Held
<1>4. Remaining(lots) + m >= Value[r]
  BY <1>3 DEF Missing, Solvent
<1> HIDE DEF m, l
<1>5. k.missing = m /\ k.known = l /\ k.subject = r
  BY <1>2, CallTyped DEF Call
<1> HIDE DEF k, r
<1>6. Sighted(k, lots)
  BY <1>4, <1>5 DEF Sighted, l
<1>7. ~At(c, "idle") /\ apart' = apart
  BY ProceedApart DEF Proceed
<1> QED
  BY <1>1, <1>2, <1>6, <1>7, AloneMoves

\* Every step keeps the lots in the sight of a lone attribution.
LEMMA AloneStep ==
    ASSUME SafeInv, Solvent, OneAtATime, [Next]_vars
    PROVE  OneAtATime'
<1>0. TypeOK
  BY DEF SafeInv, BaseInv
<1>1. ASSUME NEW c \in Callers, Leaves(c), ~At(c, "idle"), apart' = apart PROVE OneAtATime'
  <2>1. PICK k : Update(c, k) /\ k.at \notin Attributing
    BY <1>1 DEF Leaves
  <2>2. Sighted(k, lots')
    BY <2>1 DEF Sighted, Attributing
  <2> QED
    BY <1>0, <1>1, <2>1, <2>2, AloneMoves
<1>2. ASSUME NEW c \in Callers,
             \/ SetRead(c) \/ Read(c) \/ Ensure(c) \/ Bootstrap(c) \/ Compare(c)
             \/ Align(c) \/ Apply(c) \/ Project(c) \/ Undo(c)
             \/ ReadOrder(c) \/ SaveOrder(c) \/ ReadColumn(c) \/ ReadSnapshot(c)
             \/ RollbackCredit(c) \/ Fail(c) \/ FailSettling(c)
      PROVE  OneAtATime'
  BY <1>0, <1>1, <1>2, ProceedLeaves, ProceedApart DEF Proceed
<1>3. ASSUME NEW c \in Callers, Credit(c) \/ \E seen \in 0 .. Len(lots) : Allocate(c, seen)
      PROVE  OneAtATime'
  <2>1. End(c)
    BY <1>3 DEF Credit, Allocate
  <2> QED
    BY <1>0, <1>1, <1>3, <2>1, EndLeaves, ProceedApart DEF Proceed
<1>4. CASE UNCHANGED vars
  BY <1>4 DEF vars, OneAtATime, Sighted, Remaining, At
<1>5. CASE Next
  <2>1. PICK c \in Callers :
          \/ \E delta \in Deltas : Adjust(c, delta)
          \/ \E target \in Targets : Set(c, target)
          \/ \E o \in Orders : Complete(c, o)
          \/ \E r \in Requests : Settle(c, r)
          \/ Proceed(c)
          \/ Fail(c) \/ FailSettling(c)
    BY <1>5 DEF Next
  <2> QED
    BY <1>0, <1>2, <1>3, <2>1, StartAlone, ReadLotsAlone DEF Proceed
<1> QED
  BY <1>4, <1>5

\* The invariant of attributions apart.
ApartInv == AttributionInv /\ Solvent /\ OneAtATime

\* It holds in every reachable state.
LEMMA ApartInvariance == Spec => []ApartInv
<1>1. Init => ApartInv
  <2> SUFFICES ASSUME Init PROVE ApartInv
    OBVIOUS
  <2>1. Solvent
    BY DEF Init, NewAccount, Solvent
  <2>2. OneAtATime
    BY NoCallFormed DEF Init, OneAtATime, Sighted, At
  <2> QED
    BY <2>1, <2>2, AttributionStarts DEF ApartInv
<1>2. ApartInv /\ [Next]_vars => ApartInv'
  <2> SUFFICES ASSUME ApartInv, [Next]_vars PROVE ApartInv'
    OBVIOUS
  <2>1. AttributionInv /\ SafeInv /\ Solvent /\ OneAtATime
    BY DEF ApartInv, AttributionInv
  <2>2. SafeInv'
    BY <2>1, SafeStep
  <2>3. AwaitsDraw' /\ DrawnFromLots'
    BY <2>1, AttributionSteps
  <2>4. Solvent' /\ OneAtATime'
    BY <2>1, SolventStep, AloneStep
  <2> QED
    BY <2>2, <2>3, <2>4 DEF ApartInv, AttributionInv
<1> QED
  BY <1>1, <1>2, PTL DEF Spec

\* However calls overlap and fail, the ledger account of the wallet is never
\* overdrawn: every charge finds it covered, and the alignment of a top-up too.
THEOREM WalletSolvent == Spec => []Solvent
<1>1. ApartInv => Solvent
  BY DEF ApartInv
<1> QED
  BY <1>1, ApartInvariance, PTL

\* The lots new are the lots ls and, unless n is nothing, a full one of size n.
Covers(new, ls, n) ==
    /\ Held(new)
    /\ \A i \in DOMAIN ls : i \in DOMAIN new /\ new[i] = ls[i]
    /\ \A i \in DOMAIN new \ DOMAIN ls : i = Len(ls) + 1 /\ new[i].remaining = new[i].original
    /\ Remaining(new) = Remaining(ls) + n

\* The lots that an allocation draws on: those there are, and the one it brings.
LEMMA LegacyAdded ==
    ASSUME NEW ls, Held(ls), NEW n \in Nat, NEW new, new = WithLegacyLot(ls, n)
    PROVE  Covers(new, ls, n)
<1>1. CASE n = 0
  <2>1. new = ls
    BY <1>1 DEF WithLegacyLot
  <2> QED
    BY <1>1, <2>1, FundedNat DEF Covers
<1>2. CASE n # 0
  <2> DEFINE e == [of |-> "legacy", original |-> n, remaining |-> n]
  <2>1. Added(new, ls, "legacy", n) /\ new = Append(ls, e)
    BY <1>2 DEF WithLegacyLot, Added
  <2>2. "legacy" \in Orders \cup {"legacy"}
    OBVIOUS
  <2>3. /\ Held(new) /\ Len(new) = Len(ls) + 1
        /\ \A i \in DOMAIN ls : i \in DOMAIN new /\ new[i] = ls[i]
        /\ \A i \in DOMAIN new \ DOMAIN ls : i = Len(ls) + 1 /\ new[i].of = "legacy"
        /\ Funded(new) = Funded(ls) + n
        /\ Remaining(new) = Remaining(ls) + n
    BY <2>1, <2>2, LotAdded
  <2>4. e.remaining = e.original /\ e \in Lot
    BY DEF Lot
  <2> HIDE DEF e
  <2>5. new[Len(ls) + 1] = e
    BY <2>1, <2>4 DEF Held
  <2> QED
    BY <2>3, <2>4, <2>5 DEF Covers
<1> QED
  BY <1>1, <1>2

\* An allocation that nothing overlaps sees all the lots, and they suffice.
LEMMA AloneSees ==
    ASSUME ApartInv, apart, NEW c \in Callers, NEW seen \in 0 .. Len(lots), Allocate(c, seen),
           NEW r, r = call[c].subject, NEW ls, ls = WithLegacyLot(lots, call[c].missing),
           NEW visible, visible = Visible(ls, seen), NEW used, used = Used(ls, visible, Value[r])
    PROVE  /\ TypeOK /\ r \in Requests /\ Value[r] \in Nat \ {0} /\ call[c].missing \in Nat
           /\ Held(lots) /\ Held(ls) /\ visible = DOMAIN ls /\ Remaining(ls) >= Value[r]
           /\ lots' = Drained(ls, used) /\ drawn' = drawn \cup Allocations(r, used)
           /\ \A p \in drawn : p.request # r
<1>1. call[c].at = "allocate" /\ seen >= call[c].known
  BY DEF Allocate, At
<1>2. TypeOK /\ r \in Requests /\ \A p \in drawn : p.request # r
  BY <1>1 DEF ApartInv, AttributionInv, SafeInv, BaseInv, CallsFormed, Formed, Attributing, AwaitsDraw
<1>3. call[c].known = Len(lots) /\ Remaining(lots) + call[c].missing >= Value[r]
  BY <1>1 DEF ApartInv, OneAtATime, Sighted
<1>4. /\ Value[r] \in Nat \ {0} /\ call[c].missing \in Nat /\ Held(lots)
  BY <1>2, CallTyped, WalletAssumption DEF TypeOK, Held
<1> DEFINE m == call[c].missing
<1>5. m \in Nat /\ ls = WithLegacyLot(lots, m)
  BY <1>4
<1> HIDE DEF m
<1>6. /\ Held(ls) /\ Remaining(ls) = Remaining(lots) + m
      /\ \A i \in DOMAIN ls \ DOMAIN lots : i = Len(lots) + 1
  <2>1. Covers(ls, lots, m)
    BY <1>4, <1>5, LegacyAdded
  <2> QED
    BY <2>1 DEF Covers
<1>7. Len(lots) \in Nat /\ DOMAIN lots = 1 .. Len(lots)
  BY <1>4, HeldTyped
<1>8. seen = Len(lots)
  BY <1>1, <1>3, <1>7
<1>9. visible = DOMAIN ls
  <2> SUFFICES ASSUME NEW i \in DOMAIN ls PROVE i <= seen \/ i > Len(lots)
    BY DEF Visible
  <2>1. CASE i \in DOMAIN lots
    BY <1>7, <1>8, <2>1
  <2>2. CASE i \notin DOMAIN lots
    BY <1>6, <1>7, <2>2
  <2> QED
    BY <2>1, <2>2
<1>10. Remaining(ls) \in Nat /\ Remaining(ls) >= Value[r]
  BY <1>3, <1>6, FundedNat DEF m
<1>11. SumFunction(used) = Value[r]
  <2> DEFINE n == Value[r]
             have == Remaining(ls)
  <2>1. n \in Nat /\ have \in Nat /\ have >= n /\ used = Used(ls, visible, n)
    BY <1>4, <1>10
  <2> HIDE DEF n
  <2>2. SumFunction(used) = Min({n, have})
    BY <1>6, <1>9, <2>1, UsedSum, Zenon
  <2> HIDE DEF have
  <2>3. n \in Int /\ have \in Int
    BY <2>1
  <2>4. Min({n, have}) \in {n, have} /\ Min({n, have}) <= n
    BY <2>3, MinMaxOfTwo
  <2>5. SumFunction(used) = n
    BY <2>1, <2>2, <2>4
  <2> QED
    BY <2>5 DEF n
<1>12. lots' = Drained(ls, used) /\ drawn' = drawn \cup Allocations(r, used)
  BY <1>11 DEF Allocate
<1> QED
  BY <1>2, <1>4, <1>6, <1>9, <1>10, <1>12

\* The step that ends an attribution without a fault is its allocation.
LEMMA AllocateEnds ==
    ASSUME ApartInv, [Next]_vars, faults' = faults,
           NEW c \in Callers, At(c, "allocate"), call'[c].at = "idle"
    PROVE  \E seen \in 0 .. Len(lots) : Allocate(c, seen)
<1>0. TypeOK /\ faults \in Nat
  BY DEF ApartInv, AttributionInv, SafeInv, BaseInv, TypeOK
<1>1. ASSUME NEW d \in Callers, NEW k, Update(d, k) PROVE d = c
  BY <1>0, <1>1, OneMoves DEF At
<1>2. ASSUME NEW d \in Callers,
             \/ \E delta \in Deltas : Adjust(d, delta)
             \/ \E target \in Targets : Set(d, target)
             \/ \E o \in Orders : Complete(d, o)
             \/ \E r \in Requests : Settle(d, r)
      PROVE  FALSE
  <2>1. At(d, "idle") /\ \E k : Update(d, k)
    BY <1>2 DEF Adjust, Set, Complete, Settle, Begin
  <2> QED
    BY <1>1, <2>1 DEF At
<1>3. ASSUME NEW d \in Callers, Fail(d) \/ FailSettling(d) PROVE FALSE
  BY <1>0, <1>3 DEF Fail, FailSettling
<1>4. ASSUME NEW d \in Callers, Proceed(d) PROVE \E seen \in 0 .. Len(lots) : Allocate(c, seen)
  <2>1. \E k : Update(d, k)
    BY <1>4 DEF Proceed, SetRead, Read, Ensure, Bootstrap, Compare, Align, Apply, Project, Undo,
                ReadOrder, SaveOrder, ReadColumn, ReadSnapshot, Credit, RollbackCredit, ReadLots,
                Allocate, ApplyLedgerDelta, GoTo, End
  <2>2. d = c
    BY <1>1, <2>1
  <2> QED
    BY <1>4, <2>2 DEF Proceed, SetRead, Read, Ensure, Bootstrap, Compare, Align, Apply, Project,
                      Undo, ReadOrder, SaveOrder, ReadColumn, ReadSnapshot, Credit,
                      RollbackCredit, ReadLots, At
<1>5. CASE UNCHANGED vars
  BY <1>5 DEF vars, At
<1> QED
  BY <1>2, <1>3, <1>4, <1>5 DEF Next

\* The lots suffice for a request that is attributed while nothing overlaps, whatever
\* moved the balance without recording a lot: ensureLegacyFundingLotTx adds what is
\* missing, and the oldest-first loop of AllocateSettledFundingFIFO leaves nothing over.
THEOREM WalletSuffices == Spec => SufficesWhenApart
<1>1. ASSUME ApartInv, [Next]_vars, apart, faults' = faults,
             NEW c \in Callers, At(c, "allocate"), call'[c].at = "idle"
      PROVE  drawn' # drawn
  <2> DEFINE r == call[c].subject
             ls == WithLegacyLot(lots, call[c].missing)
  <2>1. PICK seen \in 0 .. Len(lots) : Allocate(c, seen)
    BY <1>1, AllocateEnds
  <2> DEFINE visible == Visible(ls, seen)
             used == Used(ls, visible, Value[r])
  <2> HIDE DEF visible, used, ls, r
  <2>2. /\ Value[r] \in Nat \ {0} /\ Held(ls) /\ visible = DOMAIN ls
        /\ Remaining(ls) >= Value[r] /\ drawn' = drawn \cup Allocations(r, used)
        /\ \A p \in drawn : p.request # r
    BY <1>1, <2>1, AloneSees DEF visible, used, ls, r
  <2>3. SumFunction(used) # 0
    <3> DEFINE n == Value[r]
               have == Remaining(ls)
    <3>1. n \in Nat \ {0} /\ have \in Nat /\ have >= n /\ used = Used(ls, visible, n)
      BY <2>2, FundedNat DEF used
    <3> HIDE DEF n
    <3>2. SumFunction(used) = Min({n, have})
      BY <2>2, <3>1, UsedSum, Zenon
    <3> HIDE DEF have
    <3>3. n \in Int /\ have \in Int
      BY <3>1
    <3>4. Min({n, have}) \in {n, have}
      BY <3>3, MinMaxOfTwo
    <3> QED
      BY <3>1, <3>2, <3>4
  <2>4. DOMAIN used = DOMAIN ls /\ IsFiniteSet(DOMAIN ls)
    BY <2>2, HeldTyped DEF used, Used
  <2>5. PICK i \in DOMAIN used : used[i] # 0
    BY <2>3, <2>4, SumZero DEF SumFunction
  <2> DEFINE p == [request |-> r, lot |-> i, amount |-> used[i]]
  <2>6. p \in drawn' /\ p.request = r
    BY <2>2, <2>5 DEF Allocations
  <2> QED
    BY <2>2, <2>6
<1>2. ApartInv /\ [Next]_vars =>
        [apart /\ faults' = faults =>
            \A c \in Callers : At(c, "allocate") /\ call'[c].at = "idle" => drawn' # drawn]_vars
  BY <1>1
<1> QED
  BY <1>2, ApartInvariance, PTL DEF Spec, SufficesWhenApart

\* More lots hold no less.
LEMMA HoldsGrow ==
    ASSUME NEW ls, Held(ls), NEW a \in 0 .. Len(ls), NEW b \in 0 .. Len(ls), a <= b
    PROVE  Holds(ls, a) <= Holds(ls, b)
<1> DEFINE g == [j \in DOMAIN ls |-> ls[j].remaining]
           S == 1 .. b
           T == 1 .. a
           f == [j \in S |-> IF j \in T THEN g[j] ELSE 0]
<1>1. DOMAIN ls = 1 .. Len(ls) /\ Len(ls) \in Nat /\ IsFiniteSet(DOMAIN ls)
  BY HeldTyped
<1>2. S \in SUBSET DOMAIN ls /\ T \in SUBSET S
  BY <1>1
<1>3. \A j \in S : g[j] \in Nat
  BY <1>2, HeldTyped
<1>4. IsFiniteSet(S)
  BY <1>1, <1>2, FS_Subset
<1>5. Holds(ls, a) = SumFunctionOnSet(g, T) /\ Holds(ls, b) = SumFunctionOnSet(g, S)
  BY DEF Holds
<1> HIDE DEF g
<1>6. /\ \A j \in T : f[j] \in Int /\ g[j] = f[j]
      /\ \A j \in S \ T : f[j] = 0
      /\ \A j \in S : f[j] \in Int /\ g[j] \in Int /\ f[j] <= g[j]
  BY <1>2, <1>3
<1> HIDE DEF f, S, T
<1>7. SumFunctionOnSet(f, S) = SumFunctionOnSet(g, T)
  BY <1>2, <1>4, <1>6, SumSupport
<1>8. SumFunctionOnSet(f, S) <= SumFunctionOnSet(g, S)
  BY <1>4, <1>6, SumMonotone
<1> QED
  BY <1>5, <1>7, <1>8

\* A lot gives only when the older ones are used up.
LEMMA OldestGives ==
    ASSUME NEW ls, Held(ls), NEW visible, visible = DOMAIN ls, NEW n \in Nat,
           NEW used, used = Used(ls, visible, n),
           NEW i \in DOMAIN ls, NEW j \in DOMAIN ls, i < j, used[j] # 0
    PROVE  used[i] = ls[i].remaining
<1> DEFINE p == Holds(ls, i - 1)
           q == Holds(ls, j - 1)
           h == ls[i].remaining
           k == ls[j].remaining
           x == n - p
           y == n - q
           open == Max({0, x})
           left == Max({0, y})
<1>1. DOMAIN ls = 1 .. Len(ls) /\ Len(ls) \in Nat
  BY HeldTyped
<1>2. /\ i \in 0 .. Len(ls) /\ i - 1 \in 0 .. Len(ls) /\ j - 1 \in 0 .. Len(ls) /\ i <= j - 1
  BY <1>1
<1>3. p \in Nat /\ q \in Nat /\ h \in Nat /\ k \in Nat /\ Holds(ls, i) = p + h
  BY <1>2, HoldsTyped, HeldTyped
<1>4. Holds(ls, i) <= q
  <2> DEFINE b == j - 1
  <2>1. b \in 0 .. Len(ls) /\ i <= b
    BY <1>2
  <2> HIDE DEF b
  <2>2. Holds(ls, i) <= Holds(ls, b)
    BY <1>2, <2>1, HoldsGrow
  <2> QED
    BY <2>2 DEF b
<1>5. Gives(ls, used, n, i) /\ Gives(ls, used, n, j)
  BY UsedGives
<1>6. used[i] = Min({open, h}) /\ used[j] = Min({left, k})
  BY <1>5 DEF Gives
<1>7. x \in Int /\ y \in Int /\ 0 \in Int /\ p + h <= q
  BY <1>3, <1>4
<1>8. y = n - q /\ x = n - p
  OBVIOUS
<1> HIDE DEF x, y
<1>9. open \in {0, x} /\ open >= x /\ open >= 0
  BY <1>7, MinMaxOfTwo
<1>10. left \in {0, y} /\ left >= y /\ left >= 0
  BY <1>7, MinMaxOfTwo
<1>11. open \in Int /\ left \in Int /\ h \in Int /\ k \in Int
  BY <1>3, <1>7, <1>9, <1>10
<1> HIDE DEF open, left, p, q, h, k
<1>12. Min({open, h}) \in {open, h} /\ Min({open, h}) <= open /\ Min({open, h}) <= h
  BY <1>11, MinMaxOfTwo
<1>13. Min({left, k}) \in {left, k} /\ Min({left, k}) <= left /\ Min({left, k}) <= k
  BY <1>11, MinMaxOfTwo
<1>14. left # 0
  BY <1>3, <1>6, <1>10, <1>11, <1>13
<1>15. open > h
  BY <1>3, <1>7, <1>8, <1>9, <1>10, <1>11, <1>14
<1>16. used[i] = h
  BY <1>6, <1>11, <1>12, <1>15
<1> QED
  BY <1>16 DEF h

\* What a lot held before the step that leaves it in new: all of it, if it is new.
Before(j, old, new) == IF j \in DOMAIN old THEN old[j].remaining ELSE new[j].original

\* An allocation that nothing overlaps empties the older lots first.
LEMMA AllocateOldest ==
    ASSUME ApartInv, apart, NEW c \in Callers, NEW seen \in 0 .. Len(lots), Allocate(c, seen),
           NEW i \in DOMAIN lots', NEW j \in DOMAIN lots', i < j,
           lots'[j].remaining < Before(j, lots, lots')
    PROVE  lots'[i].remaining = 0
<1> DEFINE r == call[c].subject
           missing == call[c].missing
           ls == WithLegacyLot(lots, missing)
           visible == Visible(ls, seen)
           used == Used(ls, visible, Value[r])
           n == Value[r]
<1> HIDE DEF visible, used, ls, r, n, missing
<1>1. /\ n \in Nat /\ missing \in Nat /\ Held(lots) /\ Held(ls) /\ visible = DOMAIN ls
      /\ lots' = Drained(ls, used)
  BY AloneSees DEF visible, used, ls, r, n, missing
<1>2. used = Used(ls, visible, n)
  BY DEF used, n
<1>3. ls = WithLegacyLot(lots, missing)
  BY DEF ls
<1>4. /\ \A k \in DOMAIN lots : k \in DOMAIN ls /\ ls[k] = lots[k]
      /\ \A k \in DOMAIN ls \ DOMAIN lots : ls[k].remaining = ls[k].original
  <2>1. missing \in Nat /\ Held(lots)
    BY <1>1
  <2>2. Covers(ls, lots, missing)
    BY <1>3, <2>1, LegacyAdded
  <2> QED
    BY <2>2 DEF Covers
<1>5. /\ DOMAIN lots' = DOMAIN ls
      /\ \A k \in DOMAIN ls : lots'[k] = [ls[k] EXCEPT !.remaining = ls[k].remaining - used[k]]
  BY <1>1 DEF Drained
<1>6. \A k \in DOMAIN ls : ls[k] \in Lot /\ ls[k].remaining \in Nat
  BY <1>1, HeldTyped
<1>7. \A k \in DOMAIN ls : /\ lots'[k].remaining = ls[k].remaining - used[k]
                           /\ lots'[k].original = ls[k].original
  BY <1>5, <1>6 DEF Lot
<1>8. Before(j, lots, lots') = ls[j].remaining
  BY <1>4, <1>5, <1>7 DEF Before
<1>9. used[j] # 0
  BY <1>5, <1>6, <1>7, <1>8
<1>10. used[i] = ls[i].remaining
  BY <1>1, <1>2, <1>5, <1>9, OldestGives
<1> QED
  BY <1>5, <1>6, <1>7, <1>10

\* A step that is no allocation takes nothing from a lot.
LEMMA OthersTakeNothing ==
    ASSUME BaseInv, [Next]_vars, \A c \in Callers, seen \in 0 .. Len(lots) : ~Allocate(c, seen),
           NEW j \in DOMAIN lots'
    PROVE  ~(lots'[j].remaining < Before(j, lots, lots'))
<1>0. TypeOK
  BY DEF BaseInv
<1>1. ASSUME UNCHANGED lots PROVE ~(lots'[j].remaining < Before(j, lots, lots'))
  BY <1>0, <1>1, HeldTyped DEF Before, TypeOK, Held
<1>2. ASSUME NEW c \in Callers, Credit(c)
      PROVE  ~(lots'[j].remaining < Before(j, lots, lots'))
  <2> DEFINE o == call[c].subject
             e == [of |-> o, original |-> Value[o], remaining |-> Value[o]]
  <2>1. lots' = lots \/ lots' = Append(lots, e)
    BY <1>2 DEF Credit, RecordFundingLot
  <2>2. CASE lots' = Append(lots, e)
    <3>1. e.remaining = e.original /\ e \in Lot
      BY <1>2, WalletAssumption
         DEF Credit, At, BaseInv, CallsFormed, Formed, ToppingUp, Lot
    <3> HIDE DEF e
    <3>2. Len(lots) \in Nat /\ DOMAIN lots = 1 .. Len(lots) /\ lots \in Seq(Lot)
      BY <1>0 DEF TypeOK
    <3>3. CASE j \in DOMAIN lots
      <4>1. lots'[j] = lots[j]
        BY <2>2, <3>1, <3>2, <3>3
      <4>2. lots[j].remaining \in Int
        BY <1>0, <3>3, HeldTyped DEF TypeOK, Held
      <4> QED
        BY <3>3, <4>1, <4>2 DEF Before
    <3>4. CASE j \notin DOMAIN lots
      <4>1. lots'[j] = e
        BY <2>2, <3>1, <3>2, <3>4
      <4> QED
        BY <3>1, <3>4, <4>1 DEF Before, Lot
    <3> QED
      BY <3>3, <3>4
  <2> QED
    BY <1>1, <2>1, <2>2
<1>3. ASSUME NEW c \in Callers,
             \/ \E delta \in Deltas : Adjust(c, delta)
             \/ \E target \in Targets : Set(c, target)
             \/ \E o \in Orders : Complete(c, o)
             \/ \E r \in Requests : Settle(c, r)
      PROVE  UNCHANGED lots
  BY <1>3 DEF Adjust, Set, Complete, Settle, wallet
<1>4. ASSUME NEW c \in Callers, Proceed(c), ~Credit(c) PROVE UNCHANGED lots
  BY <1>0, <1>4, ProceedLeaves DEF Proceed, ReadLots, wallet
<1>5. ASSUME NEW c \in Callers, Fail(c) \/ FailSettling(c) PROVE UNCHANGED lots
  BY <1>5 DEF Fail, FailSettling, wallet
<1>6. CASE UNCHANGED vars
  BY <1>1, <1>6 DEF vars
<1> QED
  BY <1>1, <1>2, <1>3, <1>4, <1>5, <1>6 DEF Next

\* While no two calls overlap, a lot gives to a request only when all older ones are
\* used up, so that a user's quota is spent in the order it was funded.
THEOREM WalletOldestFirst == Spec => OldestFirstWhenApart
<1>1. ASSUME ApartInv, [Next]_vars, apart, NEW i \in DOMAIN lots', NEW j \in DOMAIN lots',
             i < j, lots'[j].remaining < Before(j, lots, lots')
      PROVE  lots'[i].remaining = 0
  <2>1. BaseInv
    BY <1>1 DEF ApartInv, AttributionInv, SafeInv
  <2>2. PICK c \in Callers, seen \in 0 .. Len(lots) : Allocate(c, seen)
    BY <1>1, <2>1, OthersTakeNothing
  <2> QED
    BY <1>1, <2>2, AllocateOldest
<1>2. ApartInv /\ [Next]_vars =>
        [apart =>
            \A i, j \in DOMAIN lots' :
                LET before == IF j \in DOMAIN lots THEN lots[j].remaining ELSE lots'[j].original
                IN  i < j /\ lots'[j].remaining < before => lots'[i].remaining = 0]_vars
  BY <1>1 DEF Before
<1> QED
  BY <1>2, ApartInvariance, PTL DEF Spec, OldestFirstWhenApart
=============================================================================
