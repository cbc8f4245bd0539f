-------------------------- MODULE TokenQuotaProofs --------------------------
(***************************************************************************)
(* For any number of overlapping AdjustTokenQuota calls and failures: the  *)
(* token's account is never overdrawn, no update of the column is lost,    *)
(* and a call that runs alone aligns the two and does not overspend.       *)
(***************************************************************************)
EXTENDS TokenQuota, SumTheorems

\* Where a call stands agrees with what it has found: it has an outcome once it
\* has ended, a first credit is positive, and a reservation is for a charge.
CallInv ==
    \A c \in Callers :
        /\ call[c].outcome # "none" <=> call[c].at = "ended"
        /\ Active(c) => call[c].delta \in Deltas
        /\ At(c, "bootstrap") => call[c].seen > 0
        /\ At(c, "settle") => LedgerDelta(call[c]) > 0

\* What each call has reserved and not settled yet.
Holding == [c \in Callers |-> IF At(c, "settle") THEN LedgerDelta(call[c]) ELSE 0]

\* The account reserves at least what the calls between their two transactions
\* have reserved; a call that fails there leaves more behind.
ReservedCovered == account.reserved >= SumFunction(Holding)

\* A call that is marked alone is the only one active.
AloneIsAlone ==
    \A c, d \in Callers : c # d /\ call[c].alone /\ Active(c) => ~Active(d)

\* What a call that runs alone knows of the column and the account.
AloneKnows(c) ==
    LET s == call[c]
    IN  /\ s.at \in {"ensure", "bootstrap", "reconcile", "post", "settle", "project"}
              => s.seen = remain
        /\ s.at = "post" /\ s.purpose = "align" => s.diff = remain - account.available
        /\ s.at = "post" /\ s.purpose = "apply" => account.available = remain
        /\ s.at = "post" /\ s.purpose = "undo" => account.available = remain - s.delta
        /\ s.at = "settle" /\ s.purpose = "align" => account.available = remain
        /\ s.at = "settle" /\ s.purpose = "apply" => account.available = remain - s.delta
        /\ s.at = "settle" /\ s.purpose = "undo" => account.available = remain
        /\ s.at = "project" => account.available = remain - s.delta

\* A call that runs alone has no other beside it, and knows both balances.
AloneInv == AloneIsAlone /\ \A c \in Callers : call[c].alone => AloneKnows(c)

\* All of it.
TokenIInv == TypeOK /\ CallInv /\ ReservedCovered /\ ColumnIsExact /\ AloneInv

USE TokenAssumption

-----------------------------------------------------------------------------
(* Rows *)

\* The signed quota of a row is an integer.
LEMMA DeltaInt == \A s \in Call : LedgerDelta(s) \in Int
BY DEF Call, Purposes, LedgerDelta

\* What a call holds is a positive amount or nothing.
LEMMA HoldingNat ==
    ASSUME TypeOK, CallInv
    PROVE  \A c \in Callers : Holding[c] \in Nat
BY DeltaInt DEF TypeOK, CallInv, Holding

\* What a call has moved is an integer.
LEMMA MovedInt == ASSUME TypeOK PROVE \A c \in Callers : Moved[c] \in Int
BY DEF TypeOK, Moved, Call

\* A step that writes the row of one call changes what is held by the
\* difference of what that row holds.
LEMMA HeldByRow ==
    ASSUME TypeOK, CallInv, NEW c \in Callers, NEW row \in Call, Update(c, row)
    PROVE  SumFunction(Holding)' = SumFunction(Holding)
             + (IF row.at = "settle" THEN LedgerDelta(row) ELSE 0) - Holding[c]
<1> DEFINE f == Holding
           g == Holding'
<1>1. \A d \in Callers : f[d] \in Int
  BY HoldingNat
<1>2. g[c] = IF row.at = "settle" THEN LedgerDelta(row) ELSE 0
  BY DEF Holding, Update, TypeOK, At
<1>3. \A d \in Callers \ {c} : g[d] = f[d]
  BY DEF Holding, Update, TypeOK, At
<1>4. g[c] \in Int
  BY <1>2, DeltaInt
<1>5. DOMAIN f = Callers /\ DOMAIN g = Callers
  BY DEF Holding
<1> HIDE DEF f, g
<1>6. SumFunctionOnSet(g, Callers) = SumFunctionOnSet(f, Callers) + g[c] - f[c]
  BY <1>1, <1>3, <1>4, SumUpdate
<1> QED
  BY <1>2, <1>5, <1>6 DEF SumFunction, f, g

\* ... and what the column has moved by that of its outcome.
LEMMA MovedByRow ==
    ASSUME TypeOK, NEW c \in Callers, NEW row \in Call, Update(c, row)
    PROVE  SumFunction(Moved)' = SumFunction(Moved)
             + (IF row.outcome = "done" THEN row.delta ELSE 0) - Moved[c]
<1> DEFINE f == Moved
           g == Moved'
<1>1. \A d \in Callers : f[d] \in Int
  BY MovedInt
<1>2. g[c] = IF row.outcome = "done" THEN row.delta ELSE 0
  BY DEF Moved, Update, TypeOK
<1>3. \A d \in Callers \ {c} : g[d] = f[d]
  BY DEF Moved, Update, TypeOK
<1>4. g[c] \in Int
  BY <1>2 DEF Call
<1>5. DOMAIN f = Callers /\ DOMAIN g = Callers
  BY DEF Moved
<1> HIDE DEF f, g
<1>6. SumFunctionOnSet(g, Callers) = SumFunctionOnSet(f, Callers) + g[c] - f[c]
  BY <1>1, <1>3, <1>4, SumUpdate
<1> QED
  BY <1>2, <1>5, <1>6 DEF SumFunction, f, g
-----------------------------------------------------------------------------
(* One call takes a step *)

\* The row of c is the only one written; its delta and alone stay.
Becomes(c, place, purpose, seen, diff, outcome) ==
    /\ call'[c] \in Call /\ Update(c, call'[c])
    /\ call'[c].at = place /\ call'[c].purpose = purpose /\ call'[c].seen = seen
    /\ call'[c].diff = diff /\ call'[c].outcome = outcome
    /\ call'[c].delta = call[c].delta /\ call'[c].alone = call[c].alone

\* A step writes the row it names.
LEMMA UpdateWrites ==
    ASSUME TypeOK, NEW c \in Callers, NEW row, Update(c, row)
    PROVE  call'[c] = row /\ Update(c, call'[c])
BY DEF TypeOK, Update

\* GoTo moves the call and nothing else.
LEMMA RowGoTo ==
    ASSUME TypeOK, NEW c \in Callers, NEW p \in Places, GoTo(c, p)
    PROVE  Becomes(c, p, call[c].purpose, call[c].seen, call[c].diff, call[c].outcome)
<1> DEFINE s == call[c]
           r == [s EXCEPT !.at = p]
<1>1. s \in Call
  BY DEF TypeOK
<1>2. call'[c] = r /\ Update(c, call'[c])
  BY UpdateWrites DEF GoTo
<1>3. /\ r \in Call /\ r.at = p /\ r.purpose = s.purpose /\ r.delta = s.delta
      /\ r.seen = s.seen /\ r.diff = s.diff /\ r.alone = s.alone /\ r.outcome = s.outcome
  <2> HIDE DEF s
  <2> QED
    BY <1>1 DEF Call
<1> HIDE DEF r
<1> QED
  BY <1>2, <1>3 DEF Becomes
\* End ends the call with an outcome.
LEMMA RowEnd ==
    ASSUME TypeOK, NEW c \in Callers, NEW o \in Outcomes, End(c, o)
    PROVE  Becomes(c, "ended", call[c].purpose, call[c].seen, call[c].diff, o)
<1> DEFINE s == call[c]
           r == [s EXCEPT !.at = "ended", !.outcome = o]
<1>1. s \in Call
  BY DEF TypeOK
<1>2. call'[c] = r /\ Update(c, call'[c])
  BY UpdateWrites DEF End
<1>3. r \in Call /\ r.delta = s.delta /\ r.alone = s.alone
      /\ r.at = "ended" /\ r.purpose = s.purpose /\ r.seen = s.seen /\ r.diff = s.diff /\ r.outcome = o
  <2> HIDE DEF s
  <2> QED
    BY <1>1 DEF Call, Places, Outcomes
<1> HIDE DEF r
<1> QED
  BY <1>2, <1>3 DEF Becomes

\* Post starts an applyTokenLedgerDelta.
LEMMA RowPost ==
    ASSUME TypeOK, NEW c \in Callers, NEW u \in Purposes, Post(c, u)
    PROVE  Becomes(c, "post", u, call[c].seen, call[c].diff, call[c].outcome)
<1> DEFINE s == call[c]
           r == [s EXCEPT !.at = "post", !.purpose = u]
<1>1. s \in Call
  BY DEF TypeOK
<1>2. call'[c] = r /\ Update(c, call'[c])
  BY UpdateWrites DEF Post
<1>3. r \in Call /\ r.delta = s.delta /\ r.alone = s.alone
      /\ r.at = "post" /\ r.purpose = u /\ r.seen = s.seen /\ r.diff = s.diff /\ r.outcome = s.outcome
  <2> HIDE DEF s
  <2> QED
    BY <1>1 DEF Call, Places, Outcomes
<1> HIDE DEF r
<1> QED
  BY <1>2, <1>3 DEF Becomes

\* Load keeps the column it has read.
LEMMA RowLoaded ==
    ASSUME TypeOK, NEW c \in Callers, NEW n \in Int, Update(c, [call[c] EXCEPT !.seen = n, !.at = "ensure"])
    PROVE  Becomes(c, "ensure", call[c].purpose, n, call[c].diff, call[c].outcome)
<1> DEFINE s == call[c]
           r == [s EXCEPT !.seen = n, !.at = "ensure"]
<1>1. s \in Call
  BY DEF TypeOK
<1>2. call'[c] = r /\ Update(c, call'[c])
  BY UpdateWrites
<1>3. r \in Call /\ r.delta = s.delta /\ r.alone = s.alone
      /\ r.at = "ensure" /\ r.purpose = s.purpose /\ r.seen = n /\ r.diff = s.diff /\ r.outcome = s.outcome
  <2> HIDE DEF s
  <2> QED
    BY <1>1 DEF Call, Places, Outcomes
<1> HIDE DEF r
<1> QED
  BY <1>2, <1>3 DEF Becomes

\* Reconcile keeps the difference it has found.
LEMMA RowReconciled ==
    ASSUME TypeOK, NEW c \in Callers, NEW u \in Purposes, NEW n \in Int,
           Update(c, [call[c] EXCEPT !.diff = n, !.at = "post", !.purpose = u])
    PROVE  Becomes(c, "post", u, call[c].seen, n, call[c].outcome)
<1> DEFINE s == call[c]
           r == [s EXCEPT !.diff = n, !.at = "post", !.purpose = u]
<1>1. s \in Call
  BY DEF TypeOK
<1>2. call'[c] = r /\ Update(c, call'[c])
  BY UpdateWrites
<1>3. r \in Call /\ r.delta = s.delta /\ r.alone = s.alone
      /\ r.at = "post" /\ r.purpose = u /\ r.seen = s.seen /\ r.diff = n /\ r.outcome = s.outcome
  <2> HIDE DEF s
  <2> QED
    BY <1>1 DEF Call, Places, Outcomes
<1> HIDE DEF r
<1> QED
  BY <1>2, <1>3 DEF Becomes

\* What every step of a call that has started does to its row, the account, the
\* column and the count of failures.
Wrote(c) ==
    /\ Active(c) /\ Update(c, call'[c]) /\ call'[c] \in Call
    /\ call'[c].delta = call[c].delta /\ call'[c].alone = call[c].alone
    /\ call'[c].at # "idle"
    /\ call'[c].outcome # "none" <=> call'[c].at = "ended"
    /\ call'[c].at = "bootstrap" => call'[c].seen > 0
    /\ call'[c].at = "settle" => LedgerDelta(call'[c]) > 0
    /\ account' \in Account /\ account'.available >= 0
    /\ account'.reserved >= account.reserved - Holding[c]
              + (IF call'[c].at = "settle" THEN LedgerDelta(call'[c]) ELSE 0)
    /\ remain' = remain - (IF call'[c].outcome = "done" THEN call[c].delta ELSE 0)
    /\ faults' \in 0 .. MaxFaults

\* What a step lets a call that runs alone know: the same as before, and, when
\* the call ends with its delta applied or undone, that the two agree.
Learns(c) ==
    AloneKnows(c) =>
        /\ AloneKnows(c)'
        /\ call'[c].outcome \in {"done", "undone"} => account'.available = remain'

\* The steps of a call after its start.
Advance(c) ==
    \/ Check(c) \/ Load(c) \/ Ensure(c) \/ Bootstrap(c) \/ Reconcile(c)
    \/ Credit(c) \/ Hold(c) \/ Consume(c) \/ Project(c) \/ Fail(c)

\* Where a call goes once the account has taken its delta.
LEMMA RowPosted ==
    ASSUME TypeOK, NEW c \in Callers, Posted(c)
    PROVE  \/ call[c].purpose = "align"
              /\ Becomes(c, "post", "apply", call[c].seen, call[c].diff, call[c].outcome)
           \/ call[c].purpose = "apply"
              /\ Becomes(c, "project", "apply", call[c].seen, call[c].diff, call[c].outcome)
           \/ call[c].purpose = "undo"
              /\ Becomes(c, "ended", "undo", call[c].seen, call[c].diff, "undone")
<1>1. call[c].purpose \in Purposes
  BY DEF TypeOK, Call
<1>2. CASE call[c].purpose = "align"
  BY <1>2, RowPost DEF Posted, Purposes
<1>3. CASE call[c].purpose = "apply"
  BY <1>3, RowGoTo DEF Posted, Places
<1>4. CASE call[c].purpose = "undo"
  BY <1>4, RowEnd DEF Posted, Outcomes
<1> QED
  BY <1>1, <1>2, <1>3, <1>4 DEF Purposes

\* Every transaction of a call is such a step.
LEMMA AdvanceWrites ==
    ASSUME TypeOK, CallInv, NEW c \in Callers, Advance(c)
    PROVE  Wrote(c) /\ Learns(c)
<1>0. /\ call[c] \in Call /\ LedgerDelta(call[c]) \in Int
      /\ call[c].at \in Places /\ call[c].purpose \in Purposes /\ call[c].delta \in Int
      /\ call[c].seen \in Int /\ call[c].diff \in Int /\ call[c].outcome \in Outcomes
      /\ call[c].outcome # "none" <=> call[c].at = "ended"
      /\ remain \in Int /\ account \in Account /\ account.available >= 0
      /\ account.available \in Int /\ account.reserved \in Int /\ faults \in 0 .. MaxFaults
      /\ Holding[c] = IF call[c].at = "settle" THEN LedgerDelta(call[c]) ELSE 0
  BY DeltaInt DEF TypeOK, CallInv, Call, Account, Holding, At
<1>1. CASE Check(c)
  <2>1. At(c, "check") /\ UNCHANGED <<remain, account, faults>>
    BY <1>1 DEF Check
  <2>2. GoTo(c, "load") \/ End(c, "refused")
    BY <1>1 DEF Check
  <2>3. \/ Becomes(c, "load", call[c].purpose, call[c].seen, call[c].diff, call[c].outcome)
        \/ Becomes(c, "ended", call[c].purpose, call[c].seen, call[c].diff, "refused")
    BY <2>2, RowGoTo, RowEnd DEF Places, Outcomes
  <2>w. Wrote(c)
    BY <1>0, <2>1, <2>3 DEF Becomes, Wrote, Active, At
  <2>l. Learns(c)
    BY <1>0, <2>1, <2>3 DEF Becomes, Learns, AloneKnows, LedgerDelta, Purposes, At
  <2> QED
    BY <2>w, <2>l
<1>2. CASE Load(c)
  <2>1. At(c, "load") /\ UNCHANGED <<remain, account, faults>>
    BY <1>2 DEF Load
  <2>2. Becomes(c, "ensure", call[c].purpose, remain, call[c].diff, call[c].outcome)
    BY <1>0, <1>2, RowLoaded DEF Load
  <2>w. Wrote(c)
    BY <1>0, <2>1, <2>2 DEF Becomes, Wrote, Active, At
  <2>l. Learns(c)
    BY <1>0, <2>1, <2>2 DEF Becomes, Learns, AloneKnows, LedgerDelta, Purposes, At
  <2> QED
    BY <2>w, <2>l
<1>3. CASE Ensure(c)
  <2>1. At(c, "ensure") /\ UNCHANGED <<remain, faults>>
    BY <1>3 DEF Ensure
  <2>2. \/ Becomes(c, "reconcile", call[c].purpose, call[c].seen, call[c].diff, call[c].outcome)
        \/ call[c].seen > 0
           /\ Becomes(c, "bootstrap", call[c].purpose, call[c].seen, call[c].diff, call[c].outcome)
    BY <1>0, <1>3, RowGoTo DEF Ensure, Places
  <2>3. account' \in Account /\ account'.available = account.available
        /\ account'.reserved = account.reserved
    BY <1>0, <1>3 DEF Ensure, Account
  <2>w. Wrote(c)
    BY <1>0, <2>1, <2>2, <2>3 DEF Becomes, Wrote, Active, At
  <2>l. Learns(c)
    BY <1>0, <2>1, <2>2, <2>3 DEF Becomes, Learns, AloneKnows, LedgerDelta, Purposes, At
  <2> QED
    BY <2>w, <2>l
<1>4. CASE Bootstrap(c)
  <2>1. At(c, "bootstrap") /\ UNCHANGED <<remain, faults>>
    BY <1>4 DEF Bootstrap
  <2>2. \/ Becomes(c, "reconcile", call[c].purpose, call[c].seen, call[c].diff, call[c].outcome)
        \/ Becomes(c, "ended", call[c].purpose, call[c].seen, call[c].diff, "refused")
    BY <1>4, RowGoTo, RowEnd DEF Bootstrap, Places, Outcomes
  <2>3. call[c].seen > 0
    BY <2>1 DEF CallInv
  <2>4. /\ account' \in Account /\ account'.reserved = account.reserved
        /\ account'.available \in {account.available, account.available + call[c].seen}
    <3> DEFINE n == call[c].seen
               v == account.available + n
    <3>1. \/ account' = account
          \/ account' = [account EXCEPT !.available = v, !.used = TRUE, !.boot = n]
      BY <1>4 DEF Bootstrap
    <3>2. account \in Account /\ v \in Int /\ n \in Nat
      BY <1>0, <2>3
    <3> HIDE DEF n, v
    <3>3. account' \in Account /\ account'.available \in {account.available, v}
          /\ account'.reserved = account.reserved
      BY <3>1, <3>2 DEF Account
    <3> QED
      BY <3>3 DEF n, v
  <2>w. Wrote(c)
    BY <1>0, <2>1, <2>2, <2>3, <2>4 DEF Becomes, Wrote, Active, At
  <2>l. Learns(c)
    BY <1>0, <2>1, <2>2, <2>3, <2>4 DEF Becomes, Learns, AloneKnows, LedgerDelta, Purposes, At
  <2> QED
    BY <2>w, <2>l
<1>5. CASE Reconcile(c)
  <2>1. At(c, "reconcile") /\ UNCHANGED <<remain, account, faults>>
    BY <1>5 DEF Reconcile
  <2> DEFINE n == call[c].seen - account.available
             u == IF n = 0 THEN "apply" ELSE "align"
  <2>2. n \in Int /\ u \in Purposes
    BY <1>0 DEF Purposes
  <2>3. Becomes(c, "post", u, call[c].seen, n, call[c].outcome)
    <3>1. Update(c, [call[c] EXCEPT !.diff = n, !.at = "post", !.purpose = u])
      BY <1>5 DEF Reconcile
    <3> HIDE DEF n, u
    <3> QED
      BY <2>2, <3>1, RowReconciled
  <2>w. Wrote(c)
    BY <1>0, <2>1, <2>2, <2>3 DEF Becomes, Wrote, Active, At
  <2>l. Learns(c)
    BY <1>0, <2>1, <2>2, <2>3 DEF Becomes, Learns, AloneKnows, LedgerDelta, Purposes, At
  <2> QED
    BY <2>w, <2>l
<1>6. CASE Credit(c)
  <2> DEFINE n == LedgerDelta(call[c])
  <2>1. At(c, "post") /\ n < 0 /\ Posted(c) /\ UNCHANGED <<remain, faults>>
    BY <1>6 DEF Credit
  <2>2. /\ account' \in Account /\ account'.reserved = account.reserved
        /\ account'.available = account.available - n
    <3> DEFINE v == account.available - n
    <3>1. account' = [account EXCEPT !.available = v, !.used = TRUE]
      BY <1>6 DEF Credit
    <3>2. account \in Account /\ v \in Int
      BY <1>0
    <3> HIDE DEF v
    <3>3. account' \in Account /\ account'.available = v /\ account'.reserved = account.reserved
      BY <3>1, <3>2 DEF Account
    <3> QED
      BY <3>3 DEF v
  <2>3. n \in Int
    BY <1>0
  <2>4. /\ call[c].purpose = "align" => n = -call[c].diff
        /\ call[c].purpose = "apply" => n = call[c].delta
        /\ call[c].purpose = "undo" => n = -call[c].delta
    BY DEF LedgerDelta
  <2> HIDE DEF n
  <2>w. Wrote(c)
    BY <1>0, <2>1, <2>2, <2>3, RowPosted DEF Becomes, Wrote, Active, At
  <2>l. Learns(c)
    BY <1>0, <2>1, <2>2, <2>3, <2>4, RowPosted DEF Becomes, Learns, AloneKnows, At
  <2> QED
    BY <2>w, <2>l
<1>7. CASE Hold(c)
  <2> DEFINE n == LedgerDelta(call[c])
  <2>1. At(c, "post") /\ n > 0 /\ UNCHANGED <<remain, faults>>
    BY <1>7 DEF Hold
  <2>2. \/ /\ Becomes(c, "settle", call[c].purpose, call[c].seen, call[c].diff, call[c].outcome)
           /\ account' \in Account /\ account'.reserved = account.reserved + n
           /\ account'.available = account.available - n /\ account.available >= n
        \/ /\ \E o \in {"failed", "refused"} :
                 Becomes(c, "ended", call[c].purpose, call[c].seen, call[c].diff, o)
           /\ account' = account
    <3>1. CASE account.available >= n
      <4>1. GoTo(c, "settle")
        BY <1>0, <1>7, <3>1 DEF Hold
      <4>2. /\ account' \in Account /\ account'.reserved = account.reserved + n
            /\ account'.available = account.available - n
        <5> DEFINE v == account.available - n
                   w == account.reserved + n
        <5>1. account' = [account EXCEPT !.available = v, !.reserved = w, !.used = TRUE]
          BY <1>0, <1>7, <3>1 DEF Hold
        <5>2. account \in Account /\ v \in Int /\ w \in Int
          BY <1>0
        <5> HIDE DEF v, w
        <5>3. account' \in Account /\ account'.available = v /\ account'.reserved = w
          BY <5>1, <5>2 DEF Account
        <5> QED
          BY <5>3 DEF v, w
      <4> QED
        BY <3>1, <4>1, <4>2, RowGoTo DEF Places
    <3>2. CASE ~(account.available >= n)
      <4>1. account' = account /\ \E o \in {"failed", "refused"} : End(c, o)
        BY <1>0, <1>7, <3>2 DEF Hold
      <4> QED
        BY <4>1, RowEnd DEF Outcomes
    <3> QED
      BY <3>1, <3>2
  <2>3. call'[c].at = "settle" => LedgerDelta(call'[c]) = n
    BY <2>2 DEF Becomes, LedgerDelta
  <2>4. n \in Int
    BY <1>0
  <2>5. /\ call[c].purpose = "align" => n = -call[c].diff
        /\ call[c].purpose = "apply" => n = call[c].delta
        /\ call[c].purpose = "undo" => n = -call[c].delta
    BY DEF LedgerDelta
  <2> HIDE DEF n
  <2>w. Wrote(c)
    BY <1>0, <2>1, <2>2, <2>3, <2>4 DEF Becomes, Wrote, Active, At
  <2>l. Learns(c)
    BY <1>0, <2>1, <2>2, <2>4, <2>5 DEF Becomes, Learns, AloneKnows, Purposes, At
  <2> QED
    BY <2>w, <2>l
<1>8. CASE Consume(c)
  <2> DEFINE n == LedgerDelta(call[c])
  <2>1. At(c, "settle") /\ Posted(c) /\ UNCHANGED <<remain, faults>>
    BY <1>8 DEF Consume
  <2>2. /\ account' \in Account /\ account'.reserved = account.reserved - n
        /\ account'.available = account.available
    BY <1>0, <1>8 DEF Consume, Account
  <2>3. n \in Int /\ Holding[c] = n
    BY <1>0, <2>1 DEF At
  <2> HIDE DEF n
  <2>w. Wrote(c)
    BY <1>0, <2>1, <2>2, <2>3, RowPosted DEF Becomes, Wrote, Active, At
  <2>l. Learns(c)
    BY <1>0, <2>1, <2>2, <2>3, RowPosted DEF Becomes, Learns, AloneKnows, LedgerDelta, Purposes, At
  <2> QED
    BY <2>w, <2>l
<1>9. CASE Project(c)
  <2>1. At(c, "project") /\ remain' = remain - call[c].delta /\ UNCHANGED <<account, faults>>
    BY <1>9 DEF Project
  <2>2. Becomes(c, "ended", call[c].purpose, call[c].seen, call[c].diff, "done")
    BY <1>9, RowEnd DEF Project, End, Outcomes
  <2>w. Wrote(c)
    BY <1>0, <2>1, <2>2 DEF Becomes, Wrote, Active, At
  <2>l. Learns(c)
    BY <1>0, <2>1, <2>2 DEF Becomes, Learns, AloneKnows, LedgerDelta, Purposes, At
  <2> QED
    BY <2>w, <2>l
<1>10. CASE Fail(c)
  <2>1. Active(c) /\ faults < MaxFaults /\ faults' = faults + 1 /\ UNCHANGED <<remain, account>>
    BY <1>10 DEF Fail
  <2>2. \/ /\ At(c, "project")
           /\ Becomes(c, "post", "undo", call[c].seen, call[c].diff, call[c].outcome)
        \/ Becomes(c, "ended", call[c].purpose, call[c].seen, call[c].diff, "failed")
    BY <1>10, RowPost, RowEnd DEF Fail, Outcomes, Purposes
  <2>3. Holding[c] >= 0
    BY HoldingNat
  <2>4. faults' \in 0 .. MaxFaults
    BY <1>0, <2>1
  <2>w. Wrote(c)
    BY <1>0, <2>1, <2>2, <2>3, <2>4 DEF Becomes, Wrote, Active, At
  <2>l. Learns(c)
    BY <1>0, <2>1, <2>2, <2>3, <2>4 DEF Becomes, Learns, AloneKnows, LedgerDelta, Purposes, At
  <2> QED
    BY <2>w, <2>l
<1> QED
  BY <1>1, <1>2, <1>3, <1>4, <1>5, <1>6, <1>7, <1>8, <1>9, <1>10 DEF Advance

\* What the start of a call does to the rows: its own is new, the others are no
\* longer alone.
LEMMA StartWrites ==
    ASSUME TypeOK, NEW c \in Callers, NEW delta \in Deltas, NEW checked \in BOOLEAN,
           Start(c, delta, checked)
    PROVE  /\ call[c].at = "idle" /\ UNCHANGED <<remain, account, faults>>
           /\ call' \in [Callers -> Call]
           /\ call'[c].at \in {"check", "load"} /\ call'[c].delta = delta
           /\ call'[c].outcome = "none"
           /\ call'[c].alone => \A e \in Callers : ~Active(e)
           /\ \A d \in Callers \ {c} :
                /\ call'[d].at = call[d].at /\ call'[d].purpose = call[d].purpose
                /\ call'[d].delta = call[d].delta /\ call'[d].seen = call[d].seen
                /\ call'[d].diff = call[d].diff /\ call'[d].outcome = call[d].outcome
                /\ Active(d) => ~call'[d].alone
                /\ ~Active(d) => call'[d] = call[d]
<1> DEFINE alone == \A e \in Callers : ~Active(e)
           place == IF checked THEN "check" ELSE "load"
           new == [NewCall EXCEPT !.at = place, !.delta = delta, !.alone = alone]
<1>1. call[c].at = "idle" /\ UNCHANGED <<remain, account, faults>>
  BY DEF Start, At
<1>2. call' = [d \in Callers |-> IF d = c THEN new
                                ELSE IF Active(d) THEN [call[d] EXCEPT !.alone = FALSE]
                                ELSE call[d]]
  BY DEF Start
<1>3. /\ new.at \in {"check", "load"} /\ new.delta = delta /\ new.outcome = "none"
      /\ new.alone = (\A e \in Callers : ~Active(e))
  BY DEF NewCall
<1>4. new \in Call
  <2>1. alone \in BOOLEAN /\ delta \in Int /\ place \in {"check", "load"}
    OBVIOUS
  <2>2. NewCall \in Call
    BY DEF NewCall, Call, Places, Purposes, Outcomes
  <2> HIDE DEF alone, place
  <2> QED
    BY <2>1, <2>2 DEF Call, Places
<1> HIDE DEF new
<1>5. \A d \in Callers \ {c} : call'[d] = IF Active(d) THEN [call[d] EXCEPT !.alone = FALSE] ELSE call[d]
  BY <1>2
<1>6. ASSUME NEW d \in Callers \ {c}
      PROVE  /\ call'[d] \in Call
             /\ call'[d].at = call[d].at /\ call'[d].purpose = call[d].purpose
             /\ call'[d].delta = call[d].delta /\ call'[d].seen = call[d].seen
             /\ call'[d].diff = call[d].diff /\ call'[d].outcome = call[d].outcome
             /\ Active(d) => ~call'[d].alone
             /\ ~Active(d) => call'[d] = call[d]
  <2> DEFINE s == call[d]
  <2>1. s \in Call
    BY DEF TypeOK
  <2>2. CASE Active(d)
    <3>1. call'[d] = [s EXCEPT !.alone = FALSE]
      BY <1>5, <2>2
    <3> HIDE DEF s
    <3>2. /\ call'[d] \in Call
          /\ call'[d].at = s.at /\ call'[d].purpose = s.purpose
          /\ call'[d].delta = s.delta /\ call'[d].seen = s.seen
          /\ call'[d].diff = s.diff /\ call'[d].outcome = s.outcome /\ call'[d].alone = FALSE
      BY <2>1, <3>1 DEF Call
    <3> QED
      BY <2>2, <3>2 DEF s
  <2>3. CASE ~Active(d)
    BY <1>5, <2>1, <2>3
  <2> QED
    BY <2>2, <2>3
<1>7. call'[c] = new
  BY <1>2
<1>8. call' \in [Callers -> Call]
  BY <1>2, <1>4, <1>6, <1>7
<1> QED
  BY <1>1, <1>3, <1>6, <1>7, <1>8

-----------------------------------------------------------------------------
(* Types, reservations and the column *)

\* The part of the invariant that does not need a call to run alone.
SafeInv == TypeOK /\ CallInv /\ ReservedCovered /\ ColumnIsExact

\* Sums over the calls are integers.
LEMMA SumsTyped ==
    ASSUME TypeOK, CallInv
    PROVE  SumFunction(Holding) \in Nat /\ SumFunction(Moved) \in Int
<1>1. SumFunctionOnSet(Holding, Callers) \in Nat
  BY HoldingNat, SumNat
<1>2. SumFunctionOnSet(Moved, Callers) \in Int
  BY MovedInt, SumInt
<1> QED
  BY <1>1, <1>2 DEF SumFunction, Holding, Moved

\* A call that takes a step keeps the account covered and the column exact.
LEMMA AdvanceSafe ==
    ASSUME SafeInv, NEW c \in Callers, Advance(c)
    PROVE  SafeInv'
<1> USE DEF SafeInv
<1>1. Wrote(c)
  BY AdvanceWrites
<1> DEFINE row == call'[c]
           held == IF row.at = "settle" THEN LedgerDelta(row) ELSE 0
<1>2. Update(c, row) /\ row \in Call
  BY <1>1 DEF Wrote
<1>3. call' \in [Callers -> Call] /\ \A d \in Callers \ {c} : call'[d] = call[d]
  BY <1>2 DEF Update, TypeOK
<1>4. CallInv'
  BY <1>1, <1>3 DEF Wrote, CallInv, Active, At
<1>5. SumFunction(Holding)' = SumFunction(Holding) + held - Holding[c]
  BY <1>2, HeldByRow
<1>6. SumFunction(Holding) \in Int /\ SumFunction(Moved) \in Int /\ Holding[c] \in Int
  BY SumsTyped, HoldingNat
<1>7. held \in Int
  BY <1>2, DeltaInt
<1>8. account'.reserved >= account.reserved - Holding[c] + held
      /\ account' \in Account /\ account'.available >= 0
  BY <1>1 DEF Wrote
<1>9. account'.reserved \in Int /\ account.reserved \in Int
  BY <1>8 DEF TypeOK, Account
<1>10. ReservedCovered'
  <2> HIDE DEF held
  <2> QED
    BY <1>5, <1>6, <1>7, <1>8, <1>9 DEF ReservedCovered
<1>11. remain' \in Int /\ faults' \in 0 .. MaxFaults
  <2>1. row.delta \in Int /\ remain \in Int /\ call[c].delta = row.delta
    BY <1>1, <1>2 DEF Call, TypeOK, Wrote
  <2> QED
    BY <2>1, <1>1 DEF Wrote
<1>12. TypeOK'
  <2>1. Holding' = [d \in Callers |-> IF At(d, "settle")' THEN LedgerDelta(call'[d]) ELSE 0]
    BY DEF Holding
  <2>2. \A d \in Callers : Holding'[d] \in Nat
    BY <1>3, <1>4, <2>1, DeltaInt DEF CallInv
  <2>3. SumFunctionOnSet(Holding', Callers) \in Nat /\ DOMAIN Holding' = Callers
    BY <2>2, SumNat DEF Holding
  <2>4. account'.reserved >= 0
    BY <1>9, <1>10, <2>3 DEF ReservedCovered, SumFunction
  <2> QED
    BY <1>3, <1>8, <1>11, <2>4 DEF TypeOK
<1>13. ColumnIsExact'
  <2> DEFINE moved == IF row.outcome = "done" THEN row.delta ELSE 0
  <2>1. SumFunction(Moved)' = SumFunction(Moved) + moved - Moved[c]
    BY <1>2, MovedByRow
  <2>2. Moved[c] = 0
    BY <1>1 DEF Wrote, Moved, CallInv, Active
  <2>3. remain' = remain - moved /\ moved \in Int
    BY <1>1, <1>2 DEF Wrote, Call
  <2> HIDE DEF moved
  <2> QED
    BY <1>6, <2>1, <2>2, <2>3 DEF ColumnIsExact, TypeOK
<1> QED
  BY <1>4, <1>10, <1>12, <1>13

\* A call that starts holds nothing and has moved nothing.
LEMMA StartSafe ==
    ASSUME SafeInv, NEW c \in Callers, NEW delta \in Deltas, NEW checked \in BOOLEAN,
           Start(c, delta, checked)
    PROVE  SafeInv'
<1> USE DEF SafeInv
<1>1. /\ call[c].at = "idle" /\ UNCHANGED <<remain, account, faults>>
      /\ call' \in [Callers -> Call]
      /\ call'[c].at \in {"check", "load"} /\ call'[c].delta = delta /\ call'[c].outcome = "none"
  BY StartWrites
<1>2. ASSUME NEW d \in Callers \ {c}
      PROVE  /\ call'[d].at = call[d].at /\ call'[d].purpose = call[d].purpose
             /\ call'[d].delta = call[d].delta /\ call'[d].seen = call[d].seen
             /\ call'[d].diff = call[d].diff /\ call'[d].outcome = call[d].outcome
  BY StartWrites
<1>3. \A d \in Callers \ {c} : LedgerDelta(call'[d]) = LedgerDelta(call[d])
  BY <1>2 DEF LedgerDelta
<1>4. TypeOK'
  BY <1>1 DEF TypeOK
<1>5. CallInv'
  BY <1>1, <1>2, <1>3 DEF CallInv, Active, At
<1>6. \A d \in Callers : Holding'[d] = Holding[d] /\ Moved'[d] = Moved[d]
  BY <1>1, <1>2, <1>3 DEF Holding, Moved, At, CallInv
<1>7. /\ SumFunctionOnSet(Holding', Callers) = SumFunctionOnSet(Holding, Callers)
      /\ SumFunctionOnSet(Moved', Callers) = SumFunctionOnSet(Moved, Callers)
  BY <1>6, SumSame
<1>8. DOMAIN Holding = Callers /\ DOMAIN Holding' = Callers
      /\ DOMAIN Moved = Callers /\ DOMAIN Moved' = Callers
  BY DEF Holding, Moved
<1>9. ReservedCovered' /\ ColumnIsExact'
  BY <1>1, <1>7, <1>8 DEF ReservedCovered, ColumnIsExact, SumFunction
<1> QED
  BY <1>4, <1>5, <1>9

\* No order of the calls' transactions and failures breaks them.
LEMMA SafeStep == SafeInv /\ [Next]_vars => SafeInv'
<1> SUFFICES ASSUME SafeInv, [Next]_vars PROVE SafeInv'
    OBVIOUS
<1>1. ASSUME NEW c \in Callers, NEW delta \in Deltas, NEW checked \in BOOLEAN,
             Start(c, delta, checked)
      PROVE  SafeInv'
  BY <1>1, StartSafe
<1>2. ASSUME NEW c \in Callers, Advance(c) PROVE SafeInv'
  BY <1>2, AdvanceSafe
<1>3. CASE UNCHANGED vars
  BY <1>3 DEF vars, SafeInv, TypeOK, CallInv, ReservedCovered, ColumnIsExact, Holding, Moved,
     Active, At
<1> QED
  BY <1>1, <1>2, <1>3 DEF Next, Advance

\* Nothing is held or moved when the token has only its column.
LEMMA SafeInit == Init => SafeInv
<1> SUFFICES ASSUME Init PROVE SafeInv
    OBVIOUS
<1>1. TypeOK
  BY DEF Init, TypeOK, NewAccount, Account, NewCall, Call, Places, Purposes, Outcomes
<1>2. CallInv
  BY DEF Init, CallInv, NewCall, Active, At
<1>3. \A c \in Callers : Holding[c] = 0 /\ Moved[c] = 0
  BY DEF Init, NewCall, Holding, Moved, At
<1>4. SumFunction(Holding) = 0 /\ SumFunction(Moved) = 0
  <2>1. SumFunctionOnSet(Holding, Callers) = 0 /\ SumFunctionOnSet(Moved, Callers) = 0
    BY <1>3, SumZero
  <2> QED
    BY <2>1 DEF SumFunction, Holding, Moved
<1>5. ReservedCovered /\ ColumnIsExact
  BY <1>4 DEF Init, NewAccount, ReservedCovered, ColumnIsExact
<1> QED
  BY <1>1, <1>2, <1>5 DEF SafeInv

\* However many calls overlap and fail, the token's account is well typed and
\* never overdrawn, and the column has moved by exactly the calls that succeeded.
THEOREM TokenSafe == Spec => []TokenInv
<1>1. SafeInv => TokenInv
  BY DEF SafeInv, TokenInv
<1> QED
  BY <1>1, SafeInit, SafeStep, PTL DEF Spec

-----------------------------------------------------------------------------
(* A call that runs alone *)

\* No step makes a call that is marked alone wrong about the column.
LEMMA AloneStep == SafeInv /\ AloneInv /\ [Next]_vars => AloneInv'
<1> SUFFICES ASSUME SafeInv, AloneInv, [Next]_vars PROVE AloneInv'
    OBVIOUS
<1>1. ASSUME NEW c \in Callers, NEW delta \in Deltas, NEW checked \in BOOLEAN,
             Start(c, delta, checked)
      PROVE  AloneInv'
  <2>1. /\ call'[c].at \in {"check", "load"}
        /\ call'[c].alone => \A e \in Callers : ~Active(e)
        /\ \A d \in Callers \ {c} : /\ call'[d].at = call[d].at
                                    /\ Active(d) => ~call'[d].alone
    <3>0. TypeOK
      BY DEF SafeInv
    <3>1. call'[c].at \in {"check", "load"} /\ \A d \in Callers \ {c} : call'[d].at = call[d].at
      BY <1>1, <3>0, StartWrites
    <3>2. call'[c].alone => \A e \in Callers : ~Active(e)
      BY <1>1, <3>0, StartWrites
    <3>3. \A d \in Callers \ {c} : Active(d) => ~call'[d].alone
      BY <1>1, <3>0, StartWrites, Zenon
    <3> QED
      BY <3>1, <3>2, <3>3
  <2>2. AloneIsAlone'
    BY <2>1 DEF AloneIsAlone, Active
  <2>3. \A d \in Callers : call'[d].alone => AloneKnows(d)'
    BY <2>1 DEF AloneKnows, Active
  <2> QED
    BY <2>2, <2>3 DEF AloneInv
<1>2. ASSUME NEW c \in Callers, Advance(c) PROVE AloneInv'
  <2>1. Wrote(c) /\ Learns(c)
    BY <1>2, AdvanceWrites DEF SafeInv
  <2>2. Active(c) /\ call'[c].alone = call[c].alone
        /\ \A d \in Callers \ {c} : call'[d] = call[d]
    BY <2>1 DEF Wrote, Update, SafeInv, TypeOK
  <2>3. AloneIsAlone'
    BY <2>2 DEF AloneInv, AloneIsAlone, Active
  <2>4. \A d \in Callers \ {c} : call'[d].alone => call'[d].at \in {"idle", "ended"}
    BY <2>2 DEF AloneInv, AloneIsAlone, Active
  <2>5. \A d \in Callers \ {c} : call'[d].alone => AloneKnows(d)'
    BY <2>4 DEF AloneKnows
  <2>6. call'[c].alone => AloneKnows(c)'
    BY <2>1, <2>2 DEF AloneInv, Learns
  <2> QED
    BY <2>3, <2>5, <2>6 DEF AloneInv
<1>3. CASE UNCHANGED vars
  BY <1>3 DEF vars, AloneInv, AloneIsAlone, AloneKnows, Active
<1> QED
  BY <1>1, <1>2, <1>3 DEF Next, Advance

\* The inductive invariant of the token's calls.
THEOREM TokenInductive == Spec => []TokenIInv
<1>1. Init => TokenIInv
  <2>1. Init => AloneInv
    BY DEF Init, NewCall, AloneInv, AloneIsAlone
  <2> QED
    BY <2>1, SafeInit DEF SafeInv, TokenIInv
<1>2. TokenIInv /\ [Next]_vars => TokenIInv'
  BY SafeStep, AloneStep DEF SafeInv, TokenIInv
<1> QED
  BY <1>1, <1>2, PTL DEF Spec

\* How a step ends a call that ran alone: by the call itself, and with the
\* account equal to the column.
LEMMA AloneEnds ==
    ASSUME TokenIInv, Next, NEW c \in Callers, Active(c), call[c].alone,
           call'[c].outcome \in {"done", "undone"}
    PROVE  account'.available = remain'
<1>0. SafeInv /\ call[c].outcome = "none"
  BY DEF TokenIInv, SafeInv, CallInv, Active
<1>1. ASSUME NEW d \in Callers, NEW delta \in Deltas, NEW checked \in BOOLEAN,
             Start(d, delta, checked)
      PROVE  FALSE
  BY <1>0, <1>1, StartWrites DEF SafeInv
<1>2. PICK d \in Callers : Advance(d)
  BY <1>1 DEF Next, Advance
<1>3. Wrote(d) /\ Learns(d)
  BY <1>0, <1>2, AdvanceWrites DEF SafeInv
<1>4. d = c
  BY <1>0, <1>3 DEF Wrote, Update, SafeInv, TypeOK
<1> QED
  BY <1>3, <1>4 DEF Learns, TokenIInv, AloneInv

\* Whatever overlapping and failed calls have left behind, a call that runs alone
\* and is not refused leaves the account equal to the column.
THEOREM AloneCallAligns == Spec => AloneAligns
<1>1. TokenIInv /\ [Next]_vars
        => [\A c \in Callers :
              (Active(c) /\ call[c].alone /\ call'[c].outcome \in {"done", "undone"})
                => account'.available = remain']_vars
  BY AloneEnds
<1> QED
  BY <1>1, TokenInductive, PTL DEF Spec, AloneAligns

\* A charge that runs alone is accepted only if the column covers it: the account
\* it is taken from was aligned with the column and is not overdrawn.
THEOREM AloneCallCovered == Spec => AloneNeverOverspends
<1>1. ASSUME TokenIInv, TokenIInv', Next, NEW c \in Callers, Active(c), call[c].alone,
             call'[c].outcome = "done"
      PROVE  remain' >= 0
  <2>1. account'.available = remain'
    BY <1>1, AloneEnds
  <2> QED
    BY <1>1, <2>1 DEF TokenIInv, TypeOK
<1>2. TokenIInv /\ TokenIInv' /\ [Next]_vars
        => [\A c \in Callers :
              (/\ Active(c) /\ call[c].alone
               /\ call[c].delta > 0 /\ call'[c].outcome = "done")
                => remain' >= 0]_vars
  BY <1>1
<1> QED
  BY <1>2, TokenInductive, PTL DEF Spec, AloneNeverOverspends
=============================================================================
