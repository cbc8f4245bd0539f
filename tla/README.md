# CodeGO-api: a specification of its billing, its tasks and its clients

CodeGO-api resells calls to AI providers. It takes a user's request, holds quota for it, relays
it upstream, and settles the hold for what the request used. What can go wrong without a test
noticing is the money: it lives in several tables that no transaction covers together, and
concurrent requests, failing calls, dying processes and retried workflow activities all change
it. The clients have a second kind of trouble: answers that arrive late, joined requests, state
shared by tabs, and a server process that ends at the wrong moment. These modules specify both in
TLA+. TLC checks them on small instances and TLAPS proves the main results for all instances.

Contents: [inventory](#inventory), [modules](#modules), [runs](#runs-and-bounds),
[fairness](#fairness), [proofs](#proofs), [findings](#findings),
[not modelled](#what-is-not-modelled), [plan](#plan).

To repeat a result: `tlc -config MCLedger.cfg MCLedger.tla`, `tlapm LedgerProofs.tla`.

## Inventory

All paths are under `src/internal` unless they say otherwise.

| component | state | operations | what is hard |
|---|---|---|---|
| ledger runtime (`billing/domain/ledger_runtime.go`, `outbox.go`) | accounts, balance snapshots, reservations, settlements, entries, outbox events | credit, reserve, settle, release, adjust | the idempotency lookup precedes the locks; two calls with one key; settling and releasing one reservation at once; settling above the hold while others reserve |
| ledger worker (`billing/app/ledger_worker.go`, `ledger_snapshot_aggregation.go`) | the same tables | every 15 s, rebuild the snapshot of each pending event's account | locks other rows than the operations do, and overwrites the whole snapshot |
| relay billing session (`billing/app/session.go`, `relay_billing.go`, `ledger_relay_funding.go`) | in memory: amounts held and taken; ledger, legacy column of the user, quota of the token | open (refuse, trust), pre-consume, settle, refund | three books, one call at a time, each may fail; compensations may fail too; refund at most once; nothing survives the process |
| token quota (`billing/app/token_store.go`) | `remain_quota` and a ledger account | adjust: bootstrap, align, charge or credit, project, compensate | aligns with a row read without a lock |
| wallet store (`billing/app/wallet_store.go`) | legacy column and ledger account | bootstrap, adjust, set, credit inside a transaction, compensate | first use by two requests; a repeated credit; a set from a stale read |
| asynchronous tasks (`workflow/app/task_*.go`, `workflow/temporal`) | row of the task; workflow history in Temporal; wallet and token of the user | submit, poll, end at the deadline, settle or refund, record the result | attempts of an activity overlap, are retried, and die between two writes |
| funding attribution (`billing/app/funding_attribution.go`) | lots of paid and granted quota | record a lot; allocate the cost of a settled request, oldest lot first | concurrent allocations; what the lots lack is computed from reads without a lock |
| top-up orders (`commerce/app/topup_runtime.go`, `payment_support.go`) | orders | complete a paid order | a notification repeated, in another process too: `LockOrder` is a lock of one process, and `gorm:query_option`, which gorm v2 ignores, locks no row |
| subscription funding (`billing/app/funding_source.go`, `commerce/app`) | period counters, reservations | reserve more, refund with up to three retries | a retry of what was committed |
| pricing (`billing/app/text_quota.go`, `tiered_settle.go`, `billing/domain/billingexpr`) | none | usage to quota | decimal arithmetic |
| subscriptions, redemption, rewards (`commerce/app`) | orders, codes | fulfilment, renewal | repeated callbacks |
| gateway (`gateway`) | channels, health, affinity | routing, translation, streaming | mostly data conversion |
| identity, administration, audit, community, bounty | rows of their own | forms and queries | mostly single-row updates |
| playground (`src/web/default/src/features/playground`) | list of messages, event streams, copy in local storage | send, regenerate, edit, delete, stop, load | handlers see the list as last rendered; streams write to whatever message is last |
| settings forms (`src/web/default/src/features/system-settings`) | options on the server, cached copy, form, what the form is compared with | edit, save option by option, refetch | the refetch of the first option arrives while the second is sent; another administrator writes |
| client session (`src/web/default/src/stores`, `lib/api.ts`, `routes`, `features/auth`) | cookie and local storage of all tabs; store and requests of each | sign in by password, second factor or OAuth, sign out, guard a route | a request joined by another caller, a 401 that comes after a new sign-in |
| desktop shell (`src/electron/main.js`) | server process, probes, windows, tray, dialogs | start, probe, report a crash, quit | the server ends at any moment; two handlers of one timeout |
| platform (`platform`), processes (`src/cmd`), the rest of the web client | infrastructure, rendering | | |

How they interact. A relay request opens a *session*. The session calls the *token quota*, then
the *ledger* through its funding, then the *legacy column* of the user, and comes back the same way to settle
or refund. Every ledger operation leaves an *outbox event*, which the *worker* serves by
rebuilding the snapshot of the account. The submission of an *asynchronous task* is a relay
request that settles at once. The task is then polled by a Temporal workflow, and whoever ends it
adjusts wallet and token again. A *top-up* credits the *wallet* and records a *lot*; a settled request draws
on the lots. All share one SQL database. Nothing else is shared between
processes except caches of tokens and channels. The *clients* see all this through one HTTP API; the
pages of one browser share a cookie and local storage.

What makes each correct. The ledger conserves money, never overdraws, lets a key act once, closes a
reservation once, and can explain every balance from its rows. The worker ends every
disagreement between snapshot and rows. A session leaves ledger, column and token
telling the same story once it is over. A task is billed once, ends for good, and is
refunded if it fails. A wallet is filled once per order, and every settled request is attributed in full, once.
A reply of the playground comes from its own stream and is never stuck; a saved form stores what it showed and
nothing else; everything in a browser agrees on who is signed in; the shell leaves no server behind. `PROJECT.json` lists the hazards behind each of these at the line where they
bite.

## Modules

| module | models | built on |
|---|---|---|
| `Ledger` | the five ledger operations | |
| `LedgerAggregate` | the three queries that recompute a balance from the rows | `Ledger` |
| `LedgerWorker` | rebuilds interleaved with ledger operations | `LedgerAggregate` |
| `RelayBilling` | requests paid from one wallet; refines `Ledger` | `Ledger` |
| `TokenQuota` | `AdjustTokenQuota` and its two books | |
| `AsyncTask` | one task, its workflow and the attempts of its activities | |
| `WalletStore` | adjusting, setting and topping up a wallet, and attributing requests to lots; refines `Attribution` | `Attribution` |
| `Attribution` | abstract: what is funded, and what each request drew | |
| `Playground` | the chat page | |
| `SettingsForm`, `SettingsSections` | a settings form in general; which of its choices each of 38 sections makes | |
| `ClientSession` | who is signed in, in several tabs | |
| `DesktopShell` | the desktop shell | |
| `LedgerProofs`, `LedgerWorkerProofs`, `RelayBillingProofs`, `TokenQuotaProofs`, `AsyncTaskProofs`, `WalletStoreProofs` | theorems | the module each is named after |
| `ClientProofs` | theorems | `Playground`, `SettingsForm`, `ClientSession`, `DesktopShell` |
| `SumTheorems` | lemmas about sums over finite sets | |
| `MC*` | constants and symmetry for TLC | |

### Ledger

A ledger operation is one transaction at READ COMMITTED: look up the key without a lock, lock rows
in the order of the code, check, write all tables, commit. Row locks are held until the
commit, so the only thing another transaction can get between is the lookup and the rest. An
operation is therefore two steps: `BeginCall` (the lookup found nothing) and `…Tx` (the rest). `RollbackTx`
stands for every way the second part leaves no trace: a failed check, a unique index, a
database error, a death of the process. Idempotency keys are the identities of the rows they are
unique in; `<<"raw", k>>` and `<<"entry", k>>` are the two forms in which the code derives entry keys, and the
outbox key is `k` in a table of its own. `BalanceAfter`, the five counters of a snapshot, the three
branches of a settlement and the zero-amount adjustment entry (`audit`) are kept. A `COMMIT` whose outcome the
client never learns is not modelled separately: to the tables it is a commit or a rollback.

### LedgerAggregate and LedgerWorker

`ExpectedSnapshot` is `aggregateExpectedBalanceSnapshot`, one operator per query.
`rebuildBalanceSnapshotTx` locks the event and the account row; the operations lock the snapshot
row. So they interleave: `BeginRebuild`, `ReadSettlements`, `ReadReservations`, `SaveSnapshot` are
steps, with ledger steps between any two. `Refresh` is a rebuild that an operator or a workflow asks for.

### RelayBilling

One `Session` record per request stands for `BillingSession` and its `LedgerRelayFunding`; its `at` is the
next call. Each action is one database call: an SQL increment of `quota` or `token`, or one of
the two steps of a ledger operation, run by `Ledger`'s own action with the keys the code derives (`Key(r,
"reserve")`, `"undo"`, `"settle"`, `"release"`). Every call may fail (`Fault`), each failing call takes the branch of the code, and a
process may die anywhere (`Crash`). A trusted session holds nothing until it settles, then reserves
and settles the usage. Whether a token can pay is decided by `TokenQuota`'s code from rows read without a
lock, so here a charge of the token may always be refused.

### TokenQuota

One `AdjustTokenQuota` per caller: load the row, create the account, credit it on first use, align it,
charge (reserve and settle) or credit, move the column, or undo. Its ledger transactions are one
step each, as `Ledger` and its proofs justify: no two share a key except the bootstrap.

### AsyncTask

The workflow is `flow`: the step it is at, attempts made, and the attempt it waits for. Temporal
runs an activity at least once, in up to `MaxTries` attempts. An attempt that exceeds its minute
is given up by the server, but the code never looks at its context, so the worker goes on with it: `Overrun`
changes `flow` and leaves `work[w]`. Any number of attempts of any age then work on the row, each
statement by statement (`pc`). The server ignores a completion it no longer waits for (`Completed`). `Cas` is
`UpdateTaskWithStatus`, which writes the whole row if the status is the one loaded; `Save` is the unguarded
write of Suno tasks. `charge` is what wallet and token have paid so far. The upstream may answer anything at any time. The
sweep of timed-out tasks and the dispatch per platform exist in the code but nothing calls them.

The workflow is started with a limit of 24 hours (`orchestrator.go:53-54`), and the default deadline of a task is 1440 minutes
(`environment.go:161`): Temporal may cut the workflow off at any step, before the deadline or while an attempt finalizes the task, and
no further activity is scheduled (`WorkflowExpires`; an attempt under way goes on unheard). A task that is cut off before it
ended stays pending and is not refunded, so `EndsUnlessExpired` promises an end only to the others.

### WalletStore and Attribution

A caller is a goroutine of some process and runs one call at a time: `AdjustWalletQuota`, `SetWalletQuota`,
`CompleteTopUpByTradeNo` or the attribution of a settled request. Each step is one read or one transaction, with
row locks only where the code takes them (`clause.Locking`, or an update). The history variable `due` is what the calls that
reported success add up to, and `apart` says that no two calls overlapped: overlapping calls may leave ledger and column
different, which the code repairs at the next call. `Attribution` is what `AllocateSettledFundingFIFO` promises, without lots:
quota is funded, and a request draws its whole cost, once, from what is funded and not drawn.
`ImplementsAttribution` instantiates it with the sums over the lots.

### Playground

`messages` is the list in React's state, `view` the list and the generating flag as last rendered: button handlers use `view`,
stream handlers use `messages` and ask for a `Render` that comes later. The text of a message is the set of streams that wrote to it. `raced`
remembers that a request was started over another one, or a list built from an old rendering; the properties that need it to be false say so, and `silent` that a
stream ended with neither `[DONE]` nor an error.

### SettingsForm and SettingsSections

All sections share one cached query and one way of saving, and differ in a few choices: when new data resets the form
(`follow`), what a value is compared with (`base`), what a save moves (`rebases`), what it sends (`sends`), whether it has keys that the server
hides (`secrets`) and what becomes of one that is blank (`blanks`). A section is a record of
these; `SettingsSections` reads each one off its source file. TLC takes the section nondeterministically in
`FormInit`, so that a run is a run of all sections. `SectionsAssumption` says that there are no others: the properties do not hold of
every combination of the choices (`SoundChoices` in `ClientProofs` is what the real ones share). `joined` remembers that an
invalidation joined a GET that had been answered before the write; `Uneventful`, that this has not happened, that nobody else wrote and that nothing failed.

`ListOptions` answers with all options but those whose keys end in `Token`, `Secret`, `Key`, `secret` or `api_key` (two public keys
of Waffo Pancake excepted). `Served` is that answer as a section sees it: a hidden option is blank, always. So the properties compare the copy with `Served(server)`, and:
the sections of email, payment and Waffo do not send a blank secret (`Kept`, "Leave blank to keep the existing …"), hence
`LeftBlank` in `SaveStores`; the bot protection and io.net sections compare it with the blank copy, with the same effect, so a stored key can never be cleared there; and the
worker section sends its key whenever its address is blank (`Forced`), edited or not, which `OnlyEditsAreSent` has to except. In one section some keys may be hidden, in another kept
although shown (`WaffoPancakeWebhookKeys`): a record stands for one kind of its keys at a time. A value stands for what is sent for it, so an empty
field that a section fills up with a default (a currency, a minimum) is that default.

### ClientSession

The header of a request and its session are those of the moment it is sent; its answer arrives later. `self[t]` is the
one `GET /api/user/self` a tab has in flight, which others join (`waiters`), as the request cache of `lib/api.ts` makes them. The
first of two overlapping sign-ins, sign-outs or refusals sets `overlapped`; states after it are not explored
(`UntilOverlap`), because every property is about the time before. A sign-in also overlaps with a user that its own tab has
already: a late answer of the wallet page can put one into the store while the sign-in page is open.

### DesktopShell

`main.js` handler by handler. A timeout destroys its request, whose error handler then fires too, so `probes` counts requests
that are out and delays that are due. Electron, node and the server are external: windows close unless prevented,
SIGKILL ends the server, SIGTERM may not.

### Conjunctions

Where a run checks one invariant of several parts (`WorkerInv`, `TokenInv`, `ChatInv`, `ShellInv`, `FormInv`, `SessionInv`,
`WalletInv`), each part is a definition of its own with its own comment, and the type invariant is the first of them.

## Runs and bounds

Distinct states are those TLC reports, with symmetry where the configuration says so. Runs that check
liveness use no symmetry.

| run | shows | bounds and why they are enough | states |
|---|---|---|---|
| `ledger` | all properties of the ledger | 1 account, 4 keys, 2 callers, amounts to 2: a key used twice at once, also by different operations; settlement and release of one reservation racing; settlement below, at and above the hold. Calls start under unused keys (`StartsUnused`): a later start meets the same tables as an earlier one that was delayed | 103,414 |
| `ledger_worker` | an account whose events have all been served has the snapshot its rows explain, whether a rebuild runs or not; a snapshot that differs is repaired in the end | 1 account, 3 keys, amount 1: credit, reserve and close around rebuilds. Keys are taken in turn (`KeysInOrder`), in place of symmetry | 10,213 |
| `ledger_worker_race` | violation, see [findings](#findings) | as `ledger_worker` | |
| `relay` | the three books agree at rest; outcomes match reservations; every step is a step of `Ledger` (refinement); a failed request is released, unless a call failed or a process died | 2 requests, quota 2, faults at up to 2 places, 1 crash: one request takes the balance the other was promised, and a compensation fails | 90,989 |
| `token_quota` | the column is exact; a call that runs alone repairs the account and never overspends | 3 callers, 2 faults: a drift left by two overlapping calls, met by a third | 111,583 |
| `async_task` | charge, one billing; tasks and workflows end | 2 workers, 2 failures of any kind, 3 tries: a zombie beside a new attempt, one of them failing, and fewer failures than attempts, so that `EndsUnlessExpired` can hold; the limit of 24 hours at any step | 398,590 |
| `async_task_suno` | Suno tasks whose attempts neither overlap nor fail half-way are charged correctly | activity failures only: the repeated refund needs more, see [findings](#findings) | 986 |
| `wallet_store` | quota enters the ledger once, an order is granted once, attribution implements its abstract specification, calls that do not overlap leave exact balances and draw on the oldest lots, every call ends | 2 callers in 2 processes, 1 order, 2 requests, 3 calls, 1 fault, quota 2: both processes complete one order; two settlements share a lot; a call fails and the next repairs | 137,288 |
| `playground` | a reply is its own stream's, can be stopped, settles, and is stable after a reload | 2 requests: one stream's late events meet another's reply | 624,370 |
| `settings_form` | saves store the form and only edits; form, copy and server agree in the end; a stale copy is fetched | 2 options, one of them a secret, and 1 of another section, 2 values, one of them blank, 3 edits, 2 saves, 1 trouble, all sections: an option set back to its old value while the other is being sent, a secret stored and then left blank | 580,350 |
| `client_session` | tabs, storage, header and cookie agree; a user is forgotten only when the session is gone; sign-ins arrive | 2 tabs, 2 users, 1 query, 2 sign-ins, 1 trouble: a second sign-in over an answer to the first | 270,000 |
| `desktop_shell` | no server left behind, no exit unasked, one window, bounded probes, crashes reported, startup and quitting end | 2 windows, 3 retries: more probes in flight than one, and the last retry | 10,799 |

The bounded constants: `MaxAmount` (amounts of a call; the code's are 64-bit, and quotas are far below
overflow), `MaxFaults`, `MaxCrashes`, `MaxTroubles` (environment failures), `MaxTries` (5 in the code), `MaxRetries` (30 in the code),
`MaxRequests`, `MaxCalls`, `MaxEdits`, `MaxSaves`, `MaxLogins` (what users do), and the sets `Keys`, `Callers`,
`Requests`, `Workers`, `Tabs`, `Windows`. Deadlock checking is off where the system really stops: requests end, calls
end, the workflow closes, the shell exits, and bounded users stop.

## Fairness

* `WorkerFairness`: the loop of `StartLedgerWorker` ticks every 15 seconds, takes the oldest 100 pending events and has
  no attempt limit. Reading and finishing a rebuild is weakly fair. Serving a given event, and committing
  rather than failing, is strongly fair: other events of the account, or failures, may disable it again and again, but not forever. A database that refuses the same
  rebuild forever, and a backlog that never drains below a batch, are excluded by that.
* `LiveRelaySpec`: a request that is under way makes its next call (weak fairness). Opening requests is not fair.
* `TaskSpec`: the deadline passes, Temporal goes on with a workflow nobody is working for, and an attempt takes its next step (upstream and
  database calls have timeouts). Failures are never forced. Any worker may be the one that begins an activity, and
  none is favoured: fairness is of `Begin` by somebody. The limit of the workflow is not fair: a workflow that closes in time never reaches it.
* `WalletStore`: a call under way takes its next step; a caller that waits for a row or an order waits for one that goes on.
  Calls are not forced to start.
* `Playground`: React renders what was asked for, and a stream ends. Chunks and users are not fair.
* `SettingsForm`, `ClientSession`: a request is answered, or fails. Nobody has to type, save or sign in.
* `DesktopShell`: timers fire, a request to the port ends, the server ends after SIGKILL. Users and crashes are not fair.

## Proofs

From the named assumptions in each module (finiteness, natural bounds, disjointness of markers), for every
value of the constants:

**`LedgerProofs`.** Three invariants, each inductive on top of `TypeOK`. `FundsInv` (conservation and no
overdraft) goes by row: every operation replaces one snapshot by a sound one. `HeldByOpenReservations` counts
the units of open reservations, so that a sum becomes a cardinality and the step lemmas are about adding or removing
one finite set. `EffectInv` says, per key, what the outbox event says has happened to all tables; it gives
`OneEffectPerKey`, and with the reservation's status `ClosedInv` gives `ClosedOnce`. They are needed because `ClosedOnce` alone does not exclude an entry or settlement under a fresh key. The action
properties `ReservationLifecycle` and `EntriesAppendOnly` follow from typing and the guards.
Theorems: `TypeCorrect`, `Conservation`, `Solvency`, `HeldBalanceExplained`, `EntriesExplainBalance`, `ReservationsCloseOnce`, `KeysAreIdempotent`, `LifecycleRespected`, `EntriesImmutable`.

**`SumTheorems`.** The models add up rows with `SumFunction`, a fold defined by `CHOOSE` of a function on the subsets of its
domain. `SubsetInduction` is induction over the subsets of a finite set, with the induction hypothesis as a set and not as an
operator, so that the provers can use it. From it: the recursion has one solution (`IterExists`, `IterUnique`), the order of summation does not matter (`SumRemove`),
and the lemmas the other proofs cite: what a sum becomes when an element is added, removed or changed (`SumAdd`, `SumRemove`, `SumUpdate`, `SumAppended`), when it is
reindexed (`SumImage`) or split (`SumPlus`), and how sums compare term by term (`SumMonotone`).

**`RelayBillingProofs`.** `RelayInv` is `RelayTypeOK` and, for a request that is about to settle or release, that it holds a
positive amount. Each relay step is then a ledger step or leaves the ledger alone, so
`RelayRefinesLedger` (`RelaySpec => Spec`), and all of the ledger's theorems hold of the relay
(`RelayKeepsLedgerSound`). `RelayTypeCorrect` gives the types.
That the three books agree *at rest* says nothing about the states in between, so `MirrorInv` says what separates them there: `Drift` is a
request's share of the difference between legacy column and ledger at its place in the code, `TokenDrift` its share of the difference between
token and ledger, and the books differ by the sum of the shares of all requests. A step moves one request, and changes its share by
what it does to the books (`Moves`, one lemma per call); at rest every share is nothing. `RowAgrees` ties a session to the row of its
reservation, with `BootInv` for the first credit. Theorems: `OutcomesMatchLedger`, `LegacyMirrored`, `TokenMirrorsWallet`.

**`LedgerWorkerProofs`.** Every ledger operation moves a snapshot and the five sums over the rows by the same amounts (`Moves`; `CreditMoves`, `ReserveMoves`,
`ReleaseMoves`, `SettleMoves`), which needs that every settlement has a reservation (`SettlementsOwned`). That gives
`SnapshotsExplained` for the ledger without a worker. With one, snapshots are wrong for a while, and the invariant `RebuildsSound` says who
repairs them: an account with a rebuild under way has another pending event, or the row that the rebuild has gathered so far is current in what it has
read. An operation that makes it stale leaves a pending event itself. Theorem: `WorkerSafe`.

**`TokenQuotaProofs`.** `CallInv` says what a call knows at each place, `AloneKnows` what a call that nothing overlapped knows on top: that account and column are
aligned after it reconciled them, and differ by its own charge until it projects it. `ColumnIsExact` needs the sum over the calls under way.
Theorems: `TokenSafe`, `TokenInductive`, `AloneCallAligns`, `AloneCallCovered`; the last two are action properties.

**`AsyncTaskProofs`.** `TaskInv` adds to the types what an attempt knows (`Sound`: it transitions only a row it loaded
pending, and a new quota is not negative) and when Temporal waits (`FlowInv`). `BillInv` is the heart: while
the task is pending, nobody has billed or is about to; whoever is about to bill has not billed; and at most one attempt
ever is about to. The guarded update makes it inductive, and only on platforms whose every write of the row
is guarded or keeps its status, hence the assumption `Platform = "video"`. `ResultInv` says that a
terminal status an attempt holds is the row's. `PayInv` follows the charge on its way: what the attempt that won the transition has
paid at each step (`Due`), that nobody else pays, and that otherwise task and charge balance. Theorems: `TaskTypeCorrect` (all platforms), `VideoBilledOnce`, `VideoEndIsFinal`,
`VideoResultIsStatus`, `VideoChargeMatches`.

On Suno no write is guarded, and nothing is proved but the types: the charge is right only while attempts neither overrun nor die, which is a
small finite matter for TLC, and wrong otherwise (see [Findings](#findings)).

**`WalletStoreProofs`.** All on one invariant, `SafeInv`. It is `BaseInv` (what each call knows of its kind; until the ledger account has
moved it is empty and the column untouched; a call that may bring the first balance has read it) and `GrantsOnce` (an order has been granted in the ledger,
and has its one lot, exactly if it is paid), and gives `WalletSafe`. For `WalletAttributes`, the refinement of `Attribution`, `AttributionInv` adds that a request about to be attributed has drawn
nothing and that allocations are what left the lots; `Allocate` then draws the whole cost or stutters, and every other step
stutters or adds funds. For `WalletExact`, `ExactInv` says of calls that did not overlap that at most one is under way and how far it has brought
ledger, column and order at each place (`Underway`). The action properties are about an attribution that nothing overlaps:
`ApartInv` says that it has read all the lots there are and brings what they lack (`Sighted`), which needs that the ledger account is never overdrawn
(`WalletSolvent`), or what is missing would be computed too low. What the oldest-first loop gives is a lemma about prefixes of the
lots (`UsedSum`: all lots together give what is asked, or all they have; `OldestGives`). Theorems: `WalletSafe`, `WalletAttributes`, `WalletExact`,
`WalletSolvent`, `WalletSuffices`, `WalletOldestFirst`.

**`ClientProofs`.** The four client components, one section each.

*Chat page.* `ChatIInv` adds to `ChatInv` what makes it inductive. A page that shows no running reply has no stream (`ButtonInv`), which is why the
buttons that are then enabled start from a list at rest. Unless requests raced, the list ends with the reply of the current stream and no
other message waits (`Followed`): every handler writes to the last message, and only this says that the last message is its own. The
list in local storage is a list of some earlier moment, so its last message at most waits (`LastWaits`); that is what
`sanitizeMessagesOnLoad`, which repairs one message, relies on. Below are lemmas on the operators on messages and lists
(`FinalizedReply`, `ChunkReply`, `Updated`, `Sanitized`, `EditedList`), two on the two kinds of handler (`FromButtonStep`,
`FromStreamStep`), and one on a request (`RequestStep`) for lists that begin one (`Begun`). `LastPosition` gives the maximum that the `CHOOSE` of
`sanitizeMessagesOnLoad` takes. Theorems: `ChatInductive`, `ChatSafe`, `ReplyCanBeStopped`, `LoadedAtRest`.

*Settings forms.* `FormIInv` has a part for each of the copies. `CacheSound`: an unmarked copy, and an answer on its way, are what the
server stores and serves, unless something eventful happened or a save of a section that invalidates only at its end is going on (`Announced`). `BaseSound`: what
the section compares with is the cached copy, or what the last save stored. `FieldsSound`: a field nobody edited shows what the form was
last reset to. `SaveSound`: what is not left to send is stored, although some of it was never sent, or is a secret left blank; a section whose saves move its own copy has no secrets,
or it would compare with what the server never serves. The lemma `SectionsFit` checks that each of the
sections makes choices for which this can work (`SoundChoices`). Theorems: `FormInductive`, `FormSafe`, `SavesAreStored`, `EditsAreSent`.

*Session.* `SessionIInv`: until something overlaps, cookie, header, stored user and every tab name one user or none, and so does each answer on its
way (`OneIdentity`); an answer on its way that names nobody was asked for with a header the session still does not match (`StillTrue`); and a stored
user is shown by some tab (`SavedIsShown`), so that a sign-in that no tab's user overlaps finds none in storage. `IdentityAgrees` alone is not inductive,
because it says nothing of the answers. `ForgottenWhenExpired` is about every answer that clears a tab's user, also in the guard of a tab that is not yet
verified. Theorems: `SessionInductive`, `SessionSafe`, `ForgottenWhenExpired`.

*Desktop shell.* `ShellIInv`: a running server is the one the shell holds, a pending kill or an ended shell goes back to a request to quit, probes are paid for by
attempts (`ProbesPaid` bounds what is due plus twice what is out, because a timeout may start two), and the window count follows
the phase. Theorems: `ShellInductive`, `ShellSafe`, `CrashReported`.

Each of these inductive invariants was first checked by TLC. For two of them the proof went further than the run. `FormAgrees` used to
promise too much: with three saves and four edits, an invalidation that joins an older GET leaves `PricingSection` comparing with options older than
the server's, so the property now excludes `joined` for the sections that a save leaves with a copy or a form of their own. `SessionInv`
failed with more sign-ins and failures than the run has, in the way described under [ClientSession](#clientsession), and `Visit` did not run the route guard for links inside the signed-in part,
as the router does. Both were out of reach of the runs' bounds.

**Only model-checked.** All liveness and everything that needs fairness, which the provers do not reach: `SnapshotsConverge`, `FailuresAreRefunded`, `EndsUnlessExpired`,
`CallsEnd`, `RepliesSettle`, `QuitCompletes`, `StartupSettles`, `StaleIsFetched`, `LoginArrives`. The charge of a Suno task. Every other invariant and every action property of the passing runs is
stated by a theorem.

**Only proved.** `TypeOK`, `HeldByOpenReservations`, `BalanceChain`, `ReservationLifecycle` and `EntriesAppendOnly` of the ledger, `RelayTypeOK`, and `TypeOK`,
`EndIsFinal` and `ResultIsStatus` of tasks were checked by TLC before they were proved; no run repeats them, as the theorems cover every instance.

## Findings

`ledger_worker_race` checks what the ledger design says, and TLC refutes it: a rebuild undoes, in the snapshot, a reservation
committed between its queries and its save; the next reservation passes its check and the entries of the account go negative.

Other disagreements, met while modelling, are conditions of the properties, or of their runs; without the condition TLC finds them.

* Relay: a settlement the ledger refuses leaves its reservation open for ever; the status "expired" exists in schema and
  documents, but no code expires or retries.
* Tokens: two overlapping charges spend more than the token has (`AloneNeverOverspends` is about a call that runs alone).
* Tasks: a worker that dies between the transition and the refund loses the refund, while the recorded result says "refunded"; a task whose channel cannot be
  loaded (`ChannelMissing`) fails without a refund; a workflow cut off by its limit, or failed five times, leaves its task pending for ever with the charge kept, since
  nothing calls `SweepTimedOutTasks`. A failed Suno task is refunded before it is saved, so overlapping attempts, a crash between the two or a save that fails
  refund it again, although `docs/architecture/codego-v2/07-temporal-workflows.zh-CN.md:106` demands that settlement and refund be idempotent.
* Wallet: a credit aligns the ledger with the legacy column, although `wallet_store.go:50` calls the ledger canonical; the column is credited twice if two processes
  complete one order at once; two concurrent settlements count on the same lots, and the one that fails is only logged.
* Playground: a request started over another one may leave two replies waiting, of which a reload makes only the last stable (`raced`); a stream that ends
  without `[DONE]` leaves its reply streaming until the user stops it (`silent`).
* Settings: the worker section says of its key "Leave blank to keep the existing secret" (`worker-settings-section.tsx:158`), but sends the blank when its address is blank, which erases the
  stored key; the invalidation after a write joins a GET that was answered before it, although its comment says "always refresh" (`joined`); sections that never
  follow the copy, and those that move only their own copy, write back what another administrator changed; `useSettingsForm` resets the form in an effect although its comment promises none.
* Session: the 401 of a query sent before a new sign-in ends the new session (`overlapped`).
* Shell: a server that ends with code 0 or by a signal only hides the window; any program that answers on the port counts as the server.

## What is not modelled

* Unlimited tokens, requests paid by a subscription (`refundWithRetry` and its repeated refund included); the Claude wallet (same code, another column).
* How orders are created, signed and expire; affiliate rewards; transfers between wallets, bonus quota and points.
* That a submission whose row or workflow fails after the charge is not refunded: the steps `InsertFails` and `StartFails` are there, what the caller does next is not.
* In the settings: toggles of the list editors, checks of a form before it is sent, and the OAuth, channel-affinity and ratio-sync sections. In the session: binding an account to a provider, and the older callback `(auth)/oauth.tsx`. In the playground: the non-streaming request, and the choice of model and group.
* The rest of the web client, about a thousand files of tables, dialogs, editors, charts and texts over one query each: rendering and
  validation without protocol state. It is most of the TypeScript in the repository, so the modules cover little of that by lines; the logic that can go wrong is in the Go packages and in the four client parts above.
* Redis copies, batched counters, notifications and logs: no property here reads them.
* `ForcePreConsume` outside task submission, and the retries' larger holds, which a ledger funding refuses.
* Task queries, result proxying, adaptors; a difference between the workflow's and the worker's clock at the deadline; tasks older than the cut-off of the legacy timeout; the missing-id branch of a poll, which `GetUpstreamTaskID` makes unreachable.
* Pricing and translation: data. The components marked `not_modelled` in `PROJECT.json`, for the reason given there.

## Plan

Order of work: the ledger first, because every other book leans on it; then what runs on it, from the most
frequent path outwards; then the clients. Done: `Ledger`, `LedgerAggregate`, `LedgerWorker`, `RelayBilling`, `TokenQuota`,
`AsyncTask`, `WalletStore` with `Attribution`, `Playground`, `SettingsForm`, `ClientSession`, `DesktopShell`, and the proofs above. Next:

1. `SubscriptionFunding`: `refundWithRetry`, `ReserveAdditional` and its keys, period reset; composed with `RelayBilling` as
   a second funding.
2. Orders and redemption codes: fulfilment at most once.
3. Channel selection and health; the status machine of bounty tasks; the rate limiter.
