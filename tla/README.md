# A verification development of beexar-go

beexar-go is the operator's side of a game platform's wallet protocol: the
platform POSTs signed callbacks (`/balance`, `/betwin`, `/rollback`, `/finish`,
`/freespins/finish`) to the operator's wallet, and the operator calls the
platform's gateway to launch games and to issue and cancel freespins. These
modules model the program in TLA+; TLC checks small instances of them, and TLAPS
proves the statements that matter most for every value of the constants.

## Inventory

| Component | State | Operations | Talks to |
|---|---|---|---|
| In-memory wallet, `examples/inmemory/wallet.go` | accounts, transactions, tombstones, freespins issues, round ids, two counters, one mutex | Balance, BetWin, Rollback, Finish, FreespinsFinish, RecordFreespinsIssue, CancelFreespinsIssue, New, Snapshot | called by the wallet server on one goroutine per request, and by the operator around the client's calls |
| Wallet server, `wallet.go`, `wire.go`, `wire_convert.go` | none between requests | NewHandler, RouteFromPath, Dispatch: route, size, signature, JSON, fields, handler, answer | called by net/http; calls the wallet |
| Errors, `errors.go` | none | one constructor per api_code, Envelope, newAPIError | wallet, server, client |
| Money, `money.go` | none | parse, format, rescale, add, subtract, compare, clamp | everyone |
| Client, `launcher.go` | none between calls | LaunchReal, LaunchDemo, ListGames, IssueFreespins, CancelFreespins, BetLevels | the gateway (external) |
| Signatures, `signature.go` | none | Sign, Verify | server, client |
| Platform, gateway, network | external | retries of 5xx and timeouts for 30 seconds, rollbacks, freespins results until a 200 | described in the repository's README and OpenAPI documents |

Hard behaviours, the subject of the properties (each is listed at its line in
`PROJECT.json` under `hazards`): two callbacks for one account at once; repeats,
reordering of a bet and its rollback; a batch refused half way; a rollback of a
win that was spent; cancel against finish of a freespins issue; a panic inside
the critical section; a restart from a snapshot; balances longer than the wire
format admits; what a truncated, misrouted or oversize request is taken for; a
copy of a bet that arrives after the platform gave it up; answers that are lost
after the work was done; amounts of different scales.

Correct means: for the wallet, that money moves once per transaction, or not at
all, and every repeat is told the same; for the server, that the handler sees
the genuine callbacks and nothing else, and the status says whether to repeat;
for both together with the platform, that the two sides end with the same
opinion of every bet; for the client with the gateway, the same of every
freespins issue; for money, that nothing is rounded but a bonus, and that down.

### How the modules fit together

| Module | Models | Uses | Checked by | Proved in |
|---|---|---|---|---|
| `InMemoryWallet` | the in-memory wallet | `WalletContract` as its abstract specification | `MCInMemoryWallet`: `wallet_*` | `InMemoryWalletProofs`, `InMemoryWalletRefinement`, `InMemoryWalletAnswers`, `InMemoryWalletBooks` |
| `WalletContract` | what any wallet promises, without the money | | through the two beside it | `SeamlessWalletProofs` |
| `SeamlessWallet` | a wallet, the network and the platform | extends `WalletContract` | `MCSeamlessWallet`: `seamless` | `SeamlessWalletProofs` |
| `WalletServer` | the wallet server | | `MCWalletServer`: `server_*` | `WalletServerProofs` |
| `GatewayClient` | the outgoing client, which has no state | | through the next | |
| `FreespinsLifecycle` | operator, client, gateway and the wallet's issues | extends `GatewayClient`, instantiates `InMemoryWallet` | `MCFreespinsLifecycle`: `freespins_lifecycle` | `FreespinsLifecycleProofs` |
| `Money` | amounts and their texts | | through the next | |
| `MoneyAccount` | one account seen as amounts | extends `Money` | `MCMoneyAccount`: `money` | `MoneyProofs` |

## The wallet: `InMemoryWallet`

One variable per field of `Wallet` (`balance` is the `accounts` map, `mu` says
which goroutine holds the mutex), plus `call[g]`, the locals of goroutine g's
BetWin or Rollback, and two history variables: `reply`, the answer just given,
and `answered`, every 200 and 409 given so far.

| Code | Actions |
|---|---|
| lock, account lookup, start of a loop | `Enter`, `UnknownAccount` |
| one turn of BetWin's loop | `Replay`, `ReplayPanics`, `BetWinTombstoned`, `BetWinLimited`, `BetWinInsufficient`, `BetWinApply` |
| the end of BetWin | `BetWinCommit` |
| one turn of Rollback's loop, its end | `Replay`, `ReplayPanics`, `RollbackApply`, `RollbackCommit` |
| Balance, Finish | `Balance`, `Finish` |
| FreespinsFinish | one action per return statement, `FreespinsFinish...` |
| the operator's own calls | `RecordFreespinsIssue`, `CancelFreespinsIssue` |
| `New(w.Snapshot())` | `Restart` |

The loops are taken one transaction at a time, and the mutex is a variable,
although it makes each call a critical section: what the critical section is
good for, and what a panic or an early return leaves behind, is then checked and
not assumed. Requests are those that pass `toRequest` (no empty batch, no zero
amount). Ids and rounds are model values. Money is an integer at one scale;
`MaxMoney` is the largest amount `ParseMoney` accepts. Currencies are left out:
the wallet stores them and compares them with nothing.

A request may be delivered again at any time and in any order. That is weaker
than any network and covers retries, duplicates and reordering.

### What the runs check

| Run | Instance | Question |
|---|---|---|
| `wallet_batches` | two goroutines, two accounts (one bet limited) and an unknown one, three batches of two, two rollbacks, 8 own ids | do the books balance, are batches atomic, do rollbacks hold, do retries see the first answer, does the mutex always come back |
| `wallet_restart` | restarts between any two calls; two issues, one of an unknown account, two amounts for one issue, two batches, a rollback; `MaxMoney` 3, below balances that occur | do dedupe, tombstones and own ids survive; is an issue credited once, and never before or after it is canceled; do panics and 500s do harm |
| `wallet_rolled_back`, `wallet_round_ids`, `wallet_duplicate`, `wallet_mixed`, `wallet_long_balance` | smaller | five statements of the documents that the code does not keep, see Findings |

`Books` is the property the others serve: between calls, each account holds its
opening balance plus what the stored transactions that are not reversed and the
finished issues moved, and more only when the reversal of a win was clamped at
zero.

Bounds: `MaxTx` caps the own transaction ids, checked when a call starts, so
that no call is cut short; with it every request can be delivered several times
with fresh ids and without limit as a repeat. Two goroutines are enough because
a third can only wait for the same mutex. Batches of two exercise every
combination of a first transaction that is repeated or applied and a second that
is repeated, applied, barred, limited or uncovered.

The runs respect the platform's discipline (`PlatformDiscipline`): an
id_provider names one transaction of one request, and a transaction is rolled
back by one rollback, of the account it was sent for. `wallet_duplicate` and
`wallet_mixed` leave it.

Fairness: `WF_vars(Step(g))`, for a goroutine inside a call only. Nothing under
the mutex blocks, so the Go scheduler runs it on. No fairness is assumed of
deliveries.

### What is proved: `InMemoryWalletProofs`

All theorems are about `Spec` for arbitrary accounts, requests, batches of any
length, goroutines and bounds, under the assumptions in `InMemoryWallet`
(`AccountsAssumption`, `RequestsAssumption`, `NoneAssumption`).

1. `TypeCorrect`: types, on which everything rests.
2. `MutexExcludes`: a call in progress holds the mutex, so at most one is.
3. `StagedStaysFresh`: what a working copy holds is neither stored nor barred.
   It is inductive because of 2: only the goroutine itself could change that.
4. `RowsNeverChange` from 3: the commit of a batch writes where nothing was.
5. `BalancesCovered`: `NeverOverdrawn`, strengthened by the same bound on rows
   in working copies, which the commit stores.
6. `TombstoneBars` from 3 and 4: a stored bet with a tombstone was reversed. A
   commit adds no barred row; a rollback that finds its original reverses it.
7. `RollbacksHold` from 6: if rollbacks keep their id_providers to themselves,
   a stored rollback has a tombstone, hence `RolledBackHasNoEffect`.
8. `OwnIdsStayUnique`: strengthened by the ids in working copies.

Liveness is model-checked only.

### Whole batches and what they are answered: `InMemoryWalletAnswers`

The premise of the first two is `BatchesApart`, the platform's discipline: an
id_provider names one transaction of one request. Without it a batch can mix
repeats and new transactions, and a refusal then leaves the part that was there.

9. `BatchesAtomic`, from `Orderly`: a call repeats a batch that is there whole
   (`Again`), works out one of which nothing is there (`FirstBet`), or undoes for
   the first time, and has stored what it walked past and no more (`FirstUndo`).
   It never changes from one to the other, so early returns and panics happen
   only in the first two, where the batch is whole.
10. `AnswersAreTheSame`, from `Walking` and `Told`. `Walking`: the ids a call
    collected are those of the rows it walked past, and its `running` or
    `replayed` is the balance of the last. So the answer is what the rows say
    (`Granted`), and it stays so because rows never change; a 409 stays true
    because no barred row is staged (`Barred`); a finished issue stays as it is
    (`Credited`).
11. `AnswersAreCommitted`, from `BeforeIsCommitted`: nobody else moves the balance
    while a call is under way.
12. `CanceledIsNeverPaid`, from `PaidIsFinished` and `CanceledStays`: a result
    answered with 200 is of an issue that is finished, and no step touches the row
    of a canceled one; so none was paid before its cancel and none is after it.
13. `OwnRoundsStayUnique`, which supposes that there are no restarts, after which
    it is false (see Findings).

### The books: `InMemoryWalletBooks`

14. `BooksBalance`, the property the others serve, under three premises.
    `BatchesApart` is the discipline above. `UndoneOnce` is its other half: a
    transaction is rolled back by one rollback transaction, and by its own
    account's. Without it the theorem is false of the code, which neither looks
    for a second reversal nor compares accounts. `FiniteBooks` says that the
    ids and issues are finitely many, as they are in a running wallet; a sum over
    infinitely many has no meaning.

`Books` is not inductive, for two reasons. It says nothing while a call holds the
mutex, and the commit that ends a call must restore it. And a rollback stores its
rows inside the loop but its balance at the end (lines 305 and 311), so in
between the account is off by what was undone so far. The invariant has three
parts:

- `Origins`: a row that moves money is of a transaction in a batch, and only such
  a row is reversed. So a row counts for the account that asked for it.
- `AllWorking`: a BetWin's running balance is the one it began with plus the sum of
  what it staged (`Gain`), and any call's is the one it began with until it changes
  something. So a commit moves the balance by what its rows are worth.
- `Sound`: an account that a rollback is working on is balanced by the running
  balance; every other one by its stored balance, at all times.

`StepIsSound` takes the steps one by one. A commit makes staged rows stored ones
(`CommitIsSound`); a turn of Rollback's loop takes the worth of one row back, and
what the clamp at zero leaves over is what `MayHaveClamped` allows
(`UndoingIsSound`); a freespins result is one issue's amount (`CreditIsSound`);
the rest moves neither rows nor money (`QuietIsSound`).

`Due` adds over sets, and the library's fold takes the elements in an order that
CHOOSE picks. That any order gives the same sum needs an induction, and the
theorem of the library for it takes a predicate as its parameter, which no prover
here can be given. `FiniteInduction` therefore speaks of a set of sets in the
place of the predicate, and follows from the well-foundedness of the strict
subset relation. With it: sums exist whatever the order (`AdditiveExists`), the
fold is one of them (`SumIsAdditive`), and the sum of sums is a sum (`SumOfSums`),
so that what is due moves by what each row and issue moves (`DueMoves`).

## What any wallet promises: `WalletContract`

The comments in BetWin and Rollback are a rule for every wallet, and the
in-memory one is the example of it. `WalletContract` is that rule without the
money: each id_provider is `unseen`, `applied`, `reversed` or `barred` (rolled
back before it came), `undone` holds the rollback transactions performed, and
`told` the answers that are final. Its steps are `Accept` (a batch takes effect
whole), `ApplyUnanswered` (it did, and nobody hears of it), `RefuseBarred`
(409), `Undo` (one transaction of a rollback, which may stop half way) and
`AcceptRollback`. A batch that was applied before is accepted again without
effect, also if it has been reversed since: that is what BetWin does (finding
`wallet_rolled_back`).

The first part of `SeamlessWalletProofs` proves, of the contract alone: fates only
move forward (`FatesAreFinal`), so what was told stays true (`AnswersStayTrue`,
`AnswersAgree`), and a rollback that was performed leaves its original without
effect (`UndoingHolds`).

The in-memory wallet implements it. The mapping is in `InMemoryWallet`: `Fate`
reads the row and the tombstone of an id_provider, `Performed` collects the rows
that moved nothing, `FinalAnswers` the 200s and 409s of batches. `ImplementsContract`
is a property of `wallet_batches`, and `InMemoryWalletRefinement` proves it:

1. the commit of a BetWin is `Accept`; this needs that what was walked past is
   stored or staged (`Walked`), that what is staged is unseen (`StagedIsFresh`),
   and that rows tell which route stored them (`RowKinds`, `StagedKinds`);
2. the refusal with 409 is `RefuseBarred`, a turn of Rollback's loop that stores
   is `Undo`, its end `AcceptRollback`;
3. everything else, freespins, panics and restarts among it, is a stutter.

The premise is `RollbackIdsUnique`: without it a bet that bears the id_provider of
a rollback is taken for its repeat and answered 200 without having been applied.

## Behind the network: `SeamlessWallet`

A wallet that keeps the contract, the answers Dispatch makes of what its handler
returns, and the platform of the repository's README (lines 152-154) and of
`wallet.yaml`: it repeats timeouts and 500s with the same id_provider, and rolls
back what did not end with a 200.

A request that was sent may arrive at any later time and any number of times,
from attempts given up long ago too; nothing orders a bet and its rollback. An
answer reaches the attempt that waits for it or nobody. A handler may fail
before its work, after it (`ApplyUnanswered` with 500), or half way through a
rollback. The wallet may also refuse for the moment (`400`: no funds, a limit),
and such a refusal and a later copy that is applied do not exclude each other.
That is why the platform rolls back after a refusal too: an earlier attempt may
still be on its way.

| Part | Actions |
|---|---|
| platform: first attempt, next attempt, giving up | `Bet`, `Retry`, `GiveUp` |
| platform: what it makes of answers | `LearnAccepted`, `LearnRefused`, `LearnReverted`, `Abandon` |
| `Dispatch` with BetWin | `HandleBetWin` |
| `Dispatch` with Rollback | `HandleRollback` |

`seamless` runs a bet, and a bet with its win in one batch, with three attempts
each, so that there is an attempt between the first and the last. The batches
meet at the wallet only through tombstones (`OnlyRevertedRefused`), for which two
are enough; a batch of two can be undone half way.

No fairness is assumed: platform, wallet and network may each stay silent for
ever. That every bet ends is the platform's doing, which counts its attempts, and
nothing of this code; so nothing is claimed of it. A bet whose rollback is never
answered ends as `unresolved`, of which `Agreement` says nothing; but of it, too,
`TakesEffectWhole` says that it counts whole or not at all, which is what a late
copy of a batch with half of its rollback done could break.

Proved in `SeamlessWalletProofs` for any number of batches, of any length, and
attempts: `Agreement`, `OnlyRevertedRefused` and `TakesEffectWhole`, which is
inductive as it stands because no two batches share an id. The argument for the
others: every step is one of the contract (`KeepsContract`), so its theorems hold
here (`ToldTrue`, `UndoneHasNoEffect`); and `Knowledge` is invariant: a rollback
is sent only for a batch given up (`SentOnPurpose`), and what the platform heard
was said (`HeardTrue`, `RollbackToldTrue`). So a batch the platform took for
accepted is never rolled back, although a 200 that came too late may have been.
The assumption is `PlatformAssumption`: an id_provider names one transaction of
one request, and a batch is reverted by one request of its own.

## The wallet server: `WalletServer`

`WalletServer` models one exchange after another: NewHandler's routing and
reading, Dispatch with its checks in their order, the operator's handler as an
arbitrary one, and the encoding of what it returns. The server value never
changes once built and exchanges share nothing else, so exchanges side by side
behave as these do. `phase` says how far the exchange is; `rawBody` and `route`
are the arguments of `dispatch`, `call` the route whose handler method was
called, `outcome` what it returned, `reply` what was written.

| Code | Actions |
|---|---|
| `NewWalletServer` | `Init`, over the configurations it accepts |
| `NewHandler` | `Receive`, `Misrouted`, `ReadFails`, `ReadBody` |
| `Dispatch` called by a transport of the operator's own | `CallDispatch` |
| `dispatch` up to the switch | `RefuseRoute`, `RefuseOversize`, `RefuseSignature`, `Authenticate` |
| `decode`, `toRequest`, the handler's method | `RefuseMalformed`, `RefuseInvalid`, `CallHandler` |
| the handler | `HandlerReturns`, `HandlerPanics` |
| `encodeJSON`, `encodeError`, `Envelope` | `EncodeResult`, `EncodeOther`, `EncodeWalletError`, `EncodePanics` |

What is abstracted: a path is its segments, an HMAC the pair of the secret and
the bytes, a body its size and the fields of its JSON, a field the class of its
string that `toRequest` tells apart. Bytes cut short decode only when what was
cut was white space, which is left open. `encodeJSON` cannot fail on the strings
it is given. The warnings of `explainSignatureFailure` and the wording of
messages are left out.

| Run | Instance | Question |
|---|---|---|
| `server_exchange` | eight paths, bodies of 0 to 4 bytes around caps of -2, 2 and 3, eleven field shapes, six signatures, connections that break anywhere, all outcomes a handler can have | does the handler see exactly the genuine callbacks, and does each answer say what happened |
| `server_uncapped` | the largest int64 as the cap | the same, where cap + 1 wraps |

Sizes matter only in comparison with the cap, one more than it, and zero; the
bodies have all of these. The paths have every route, a mount prefix, trailing
slashes, and near misses of the freespins route. There is no liveness here:
nothing obliges an operator's handler to return.

`WalletServerProofs` proves every property of the run for all servers,
requests, bodies and handler outcomes. The inductive invariant is `TypeOK /\
Knowledge`: for each phase, which checks have passed (`Passed`, `Called`), what
the bytes have to do with the body sent (`Delivered`), and what an answer says
about the check that failed (`Refused`) or about the handler's outcome
(`Settled`). The properties say less than that and are not inductive: that a
handler was called with a genuine body says nothing of the phases before it.
`GenuineIsServed` and `OversizeIsNamed` need `CapsBelowMaxInt`, and
`server_uncapped` shows why. The link to the wallet is `OnlyGenuineHandled`: the
batches and amounts `RequestsAssumption` of `InMemoryWallet` grants are those
the server lets through.

Seen while modelling, and not worth a run: `Envelope`'s comment says its panic
"can only happen through WalletErrorWithAPICode" (`errors.go:110-111`), but that
function refuses such an error, and a `WalletError` literal is what reaches the
panic; `WalletErrorWithAPICode` accepts a balance with any code although the
field's comment says it "must be nil otherwise" (`errors.go:100-101`); and
`NewHandler` answers HTTP 404 where `errors.go:13` knows only 400 and 500.

## The client and freespins: `GatewayClient`, `FreespinsLifecycle`

`GatewayClient` is the Client of `launcher.go`, which keeps nothing between calls:
`Posted` and `Listed` are what it sends, `Outcome` what it makes of what comes back.

| Code | Definitions |
|---|---|
| `withCasinoID`, `postSigned` up to the request, `ListGames` up to it | `WithCasinoID`, `Posted`, `Listed` |
| `do`, `postSigned` behind it, the decoding in `launch`, `ListGames`, `BetLevels` | `Broken`, `Decodes`, `Outcome`, `Success`, `Failed` |
| `newAPIError`, `Retryable`, `SignatureError` | `APIError`, `Retryable`, `SignatureError` |

An answer is its status, its api_code and the size of its JSON, and may break off.
Terms, games and accounts are one value.

`FreespinsLifecycle` puts it between the operator and the gateway. The operator
follows the procedure that the comments of `launcher.go`, `wallet.go` and the
repository's README (lines 164-186) give: `Query` the games and levels, `Record`
the issue, `Ask` the gateway to issue or cancel it, repeat timeouts and 5xx with
the same request, `MarkCanceled` when a cancel was accepted. Issuing and canceling
go on side by side. A request that was sent may `Arrive` at any time and more than
once; its answer gets back, gets lost, breaks off, or is replaced by the 502 of a
proxy. `Fail` is a gateway that fails before doing anything, and a timeout. `Play`
and `DeliverFinish` are the player and the gateway's result. The wallet is
`InMemoryWallet`, instantiated with no bets: its `RecordFreespinsIssue`,
`CancelFreespinsIssue` and `FreespinsFinish` are the steps here. What the gateway
does is taken from `openapi/softswiss/gateway.yaml`: a repeat with the same terms
is accepted, other terms are refused with 610, a cancel may come first and then
bars the issue (605), and is refused once the issue was played (620) or has
expired (611). A repeat is the same request, as `IssueFreespins` asks of its
caller, so no terms but the recorded ones are ever tried. Freespins that expire
after some were played count as played here, as they are reported alike.

`freespins_lifecycle` runs one issue with two possible results, zero among them,
and answers as long as what is read of them, and longer by one. All that issues
share is the balance of an account; two give a million states and no new case,
and `WinningsPaidOnce` is proved for any number: an account holds what it opened
with and what the gateway says its issues won, each paid once, whatever results
are repeated and whatever answers are lost.

Fairness: `WF_vars(DeliverFinish(i, TRUE))`: the gateway sends a result after 1, 3
and 5 minutes and then every 5 until it hears a 200 (README lines 207-208), so
some attempt is heard. Nothing is assumed of the operator, the player, or the
calls of the client.

Proved in `FreespinsLifecycleProofs` for any issues, terms and results: all
properties but `PlayedIsSettled`. The invariant has three parts. `Precedence`:
what exists was asked for: the gateway's rows come from requests sent, requests
from recorded issues, so a result never finds its issue unknown. `Agrees`: per
issue, what the wallet's status and each call's outcome say of the gateway's row;
a wallet's `canceled` implies the gateway's, which is final and sends no result.
`QueriesWhole`: for the queries. `LifecycleAssumption` says that the values that
mean "nothing" are no values, and what `InMemoryWallet` assumes of its constants:
amounts are between 0 and `MaxMoney`.

`WalletBehaves` is that the lifecycle is a behaviour of `InMemoryWallet`: every
step of the four parties is one of the wallet or leaves its variables alone, and
there are no goroutines, hence no fairness to show. `Ledger`, the wallet with its
proofs under the same substitution, then lends its theorems. `WinningsArePaidOnce`
follows from the wallet's `BooksBalance`, which says what was paid by the wallet's
own rows, from `SidesAlwaysAgree`, which makes these amounts the gateway's, and
from `AccountsKept`: an issue stays with the account it was recorded for. Its
premise is that the issues are finitely many, as they are summed up.

## Money: `Money`, `MoneyAccount`

An amount is a whole number of units and a scale. A text is the number before the
point, the number behind it and how many places that is written with; so "0.05"
and "0.5" differ in places only, and padding is something that can go wrong.
Rescaling truncates as `big.Int.Quo` does, whose sign is not TLA+'s `\div`.

| Code | Definitions |
|---|---|
| `clientDecimal`, `ParseMoney`, `MoneyFromMinorUnits` | `Readable`, `ParseMoney`, `MoneyFromMinorUnits` |
| `rescale`, `Format`, `String`, `FormatBonus` | `Rescale`, `Written`, `Format`, `String`, `FormatBonus` |
| `align`, `Add`, `Sub`, `Cmp`, `ClampToZero` | `CommonScale`, `Add`, `Sub`, `Cmp`, `ClampToZero` |

`MoneyAccount` uses them in the order the wallet does, for one account: amounts
arrive as texts of any scale (`Bet`, `BetInsufficient`, `Win`, `Credit`), are
stored as texts, read back by a rollback (`Undo`) or a restart (`Restart`), and
answered with a bonus (`Taken`). Beside it runs `due`, the exact balance in the
smallest unit. `Exact` compares the two; so rounding in any of add, subtract,
compare, clamp, store and read would show. A bonus is taken to be no more than
its bet, as it is a part of it.

`money` has three transactions, texts of the scales 0 to 3 with equal values in two
scales, differences beyond a coarser scale and zeros behind the point, and
bonuses on both sides of `BonusScale`. `MaxScale` is 3 and `BonusScale` 2 here,
not 16 and 12, as TLC computes with 32 bits. `MoneyProofs` is about all of them.
`Pow10` is written as the recursion it is, since the provers know nothing of
exponents; that there is such a function (`PowersAreThere`) and that exponents
add (`PowersMultiply`) are proved by induction, again over a set (`Upwards`). The
invariant adds to the properties that texts in rows can be parsed
(`CameReadable`) and what an answer relates (`Answered`). The heart is `Align`:
at the finer scale both amounts have their value, so nothing is cut; and
`BonusCut`, that Quo of a non-negative number is short by less than a unit.

What the wallet modules assume of money follows from here: they count in one
scale, and `Exact` says that scales make no difference.

Seen while modelling the client and the wallet, and not worth a run:
`newAPIError` puts the HTTP status into `APICode` when an answer has no envelope
(`errors.go:290-293`), so a proxy's bare 403 makes `SignatureError` true, although
its comment says "Keyed on api_code, because the status alone is ambiguous"; a 200
with an empty object decodes to an empty result without an error; and Rollback
stores its rows inside the loop, so in a batch that mixes new transactions with a
repeat a panic of MustParseMoney at the repeat leaves a row whose money did not
move (with `WalletContract` it counts as undone).

## Findings

- `wallet_rolled_back`: a bet that was applied, rolled back and is delivered
  again is answered 200; the OpenAPI document and `errors.go` ask for 409.
- `wallet_round_ids`: own round ids start again after a restart.
- `wallet_duplicate`: one id_provider twice in a batch is debited twice.
- `wallet_mixed`: a batch of new and repeated transactions is answered with one
  balance, and its repeat with another.
- `wallet_long_balance`: a balance longer than 40 characters makes repeats panic.
- `server_uncapped`: `WithMaxBodyBytes(math.MaxInt)` refuses every callback as
  forged.

## Proofs in short

Proved for every value of the constants: the type invariant of each specification;
every safety property of the wallet, and that it implements `WalletContract`;
every property of the server; that the composition with the platform keeps the
contract, its `Agreement`, `OnlyRevertedRefused` and `TakesEffectWhole`; every
safety property of the freespins lifecycle, and that its wallet behaves as
`InMemoryWallet`; every safety property of money.

Model-checked only is what is liveness: `MutexReleased` and `PlayedIsSettled`, as
the provers have no rule for fairness. Some theorems have the platform's
discipline as a premise, which is named in their statements: `RollbackIdsUnique`
(`RollbacksHold`, `Implementation`), `UndoIdsUnique` (`UndoingHolds`),
`BatchesApart` (`BatchesAtomic`, `AnswersAreTheSame`, `BooksBalance`),
`UndoneOnce` and `FiniteBooks` (`BooksBalance`), finitely many issues
(`WinningsArePaidOnce`). TLC evaluates the same discipline for the requests of the
runs (`PlatformDiscipline`).

Every constant's assumption is named in the module that declares the constant and
evaluated by TLC in the runs.

## Not modelled

- `examples/server/main.go`: builds a wallet and a server from flags and hands
  them to net/http; it has no state and no decision of its own.
- The conformance fixtures and the OpenAPI documents: data. The properties and findings quote them.
- The warnings of `explainSignatureFailure`, the wording of messages, and fields
  of requests that nothing depends on (names, locales, images).
- Currencies in the wallet, which are stored and compared with nothing.
- Leading zeros of amounts, which ParseMoney drops, and digits one by one.
- Two rollbacks of one transaction: the platform sends no second one, and no
  document says what the wallet owes then.

## Plan

Done, in this order: `InMemoryWallet`, `WalletServer`, `WalletContract` with the
refinement, `SeamlessWallet`, `FreespinsLifecycle` with `GatewayClient`, `Money`
with `MoneyAccount`, `InMemoryWalletAnswers`, `InMemoryWalletBooks`. What could
follow: the wallet's `AnswersAreTheSame` carried over to the lifecycle as
`BooksBalance` is, and a lifecycle in which the player also bets and wins.
