---------------------------- MODULE InMemoryWallet ----------------------------
(***************************************************************************)
(* The operator wallet of examples/inmemory/wallet.go: a ledger of         *)
(* accounts, transactions, tombstones and freespins issues behind one      *)
(* mutex, called by the goroutines of the HTTP server.                     *)
(*                                                                         *)
(* A BetWin or Rollback call is a sequence of steps: it takes the mutex,   *)
(* walks its batch one transaction at a time, and returns.  Its locals are *)
(* call[g].  The calls that read and write once are single steps.  Money   *)
(* is an integer at one common scale.  Requests are the validated ones:    *)
(* batches are not empty and betwin amounts are positive                   *)
(* (wire_convert.go toRequest).  An own id is the number n of "op-tx-n" or *)
(* "op-round-n", and 0 stands for the empty string or for no id.           *)
(*                                                                         *)
(* Beside some definitions stands the same one with a plausible mistake    *)
(* (MutexIgnored, UndoneUnclamped, ...).  Nothing refers to those: they   *)
(* are put in the place of the definition below them to see that the       *)
(* properties tell the two apart.                                          *)
(***************************************************************************)
EXTENDS Integers, Sequences, FiniteSetsExt

CONSTANTS
    Accounts,           \* the accounts the wallet was built with
    BetLimited,         \* those of them that answer 105 instead of betting
    Opening,            \* their opening balances
    IdProviders,        \* the platform's transaction ids
    ProviderRounds,     \* the platform's round ids
    Issues,             \* freespins issue ids
    Goroutines,         \* the server's goroutines
    BetWinRequests,     \* the /betwin requests that may be delivered
    RollbackRequests,   \* the /rollback requests that may be delivered
    ReadRequests,       \* the /balance and /finish requests
    FinishRequests,     \* the /freespins/finish requests
    IssueAccount,       \* the account each issue is recorded for
    MaxMoney,           \* the largest amount whose string ParseMoney accepts
    MaxTx,              \* bound on the own transaction ids handed out
    Restarts,           \* whether the process may restart from a snapshot
    None                \* no row, no call, no answer, nobody

BatchRequests == BetWinRequests \cup RollbackRequests

BetWinTx == [id : IdProviders, type : {"bet", "win"}, amount : 1..MaxMoney]
RollbackTx == [id : IdProviders, original : IdProviders]

StoredTransaction ==
    [id : Nat, balanceAfter : Int, type : {"bet", "win", ""}, amount : Nat]

StoredFreespinsIssue ==
    [account : {IssueAccount[i] : i \in Issues},
     status : {"issued", "canceled", "finished"},
     amount : Nat, balanceAfter : Int]

(* The locals of a BetWin or Rollback call.  `changed' is Rollback's flag  *)
(* and, for BetWin, len(applied) > 0.                                      *)
Locals ==
    [request : BatchRequests, next : Nat \ {0}, before : Int, running : Int,
     replayed : Int \cup {None}, changed : BOOLEAN,
     applied : [IdProviders -> StoredTransaction \cup {None}],
     ids : Seq(Nat)]

ASSUME AccountsAssumption ==
    /\ BetLimited \subseteq Accounts
    /\ Opening \in [Accounts -> Nat]
    /\ MaxMoney \in Nat
    /\ MaxTx \in Nat
    /\ Restarts \in BOOLEAN

ASSUME RequestsAssumption ==
    /\ \A r \in BetWinRequests :
          /\ r.route = "betwin" /\ r.round \in ProviderRounds
          /\ r.transactions \in Seq(BetWinTx) /\ r.transactions # <<>>
    /\ \A r \in RollbackRequests :
          /\ r.route = "rollback" /\ r.round \in ProviderRounds
          /\ r.transactions \in Seq(RollbackTx) /\ r.transactions # <<>>
    /\ \A r \in FinishRequests :
          /\ r.route = "freespins_finish" /\ r.issue \in Issues
          /\ r.amount \in 0..MaxMoney

ASSUME NoneAssumption ==
    /\ None \notin Goroutines /\ None \notin Int
    /\ None \notin StoredTransaction /\ None \notin StoredFreespinsIssue
    /\ None \notin Locals

VARIABLES
    mu,             \* who holds the mutex
    balance,        \* accounts[a].balance
    transactions,   \* id_provider -> stored row
    tombstones,     \* the id_providers that were rolled back
    freespinsIssues,\* issue_id -> stored row
    rounds,         \* provider round -> own round
    nextTx, nextRound,
    call,           \* the locals of each goroutine's call, None outside one
    reply,          \* the answer just given, None once another call starts
    answered        \* history: every 200 and every 409 given so far

ledger == <<balance, transactions, tombstones, freespinsIssues, rounds,
            nextTx, nextRound>>
vars == <<mu, ledger, call, reply, answered>>

-----------------------------------------------------------------------------
(* Answers *)

Answer(r, code, bal, round, ids) ==
    [request |-> r, code |-> code, balance |-> bal, round |-> round, ids |-> ids]

Refusal(r, code) == Answer(r, code, None, 0, <<>>)

(* The answers that must hold for good; a 100 or 105 may become a 200 when *)
(* the same request comes again with more money in the account.            *)
Lasting == {"200", "409"}

Respond(answer) ==
    /\ reply' = answer
    /\ answered' = IF answer.code \in Lasting THEN answered \cup {answer} ELSE answered

MutexIgnored == TRUE

(* Every call starts with mu.Lock. *)
MutexFree == mu = None

ReturnUnlockingSuccess(g, answer) ==
    /\ mu' = IF answer.code = "200" THEN None ELSE mu
    /\ call' = [call EXCEPT ![g] = None]
    /\ Respond(answer)

(* Returning runs the deferred mu.Unlock, whatever the answer is. *)
Return(g, answer) ==
    /\ mu' = None
    /\ call' = [call EXCEPT ![g] = None]
    /\ Respond(answer)

-----------------------------------------------------------------------------
(* BetWin and Rollback: what they share *)

OwnRound(round) == IF rounds[round] # 0 THEN rounds[round] ELSE nextRound

RoundIDForUnkept(round) ==
    /\ rounds' = rounds
    /\ nextRound' = nextRound + 1

(* roundIDFor: the own id of a round, allocated at the first mention. *)
RoundIDFor(round) ==
    /\ rounds' = [rounds EXCEPT ![round] = OwnRound(round)]
    /\ nextRound' = IF rounds[round] = 0 THEN nextRound + 1 ELSE nextRound

Start(r) ==
    [request |-> r, next |-> 1, before |-> balance[r.account],
     running |-> balance[r.account], replayed |-> None, changed |-> FALSE,
     applied |-> [i \in IdProviders |-> None], ids |-> <<>>]

(* The mutex is taken and the account found.  MaxTx bounds the model. *)
Enter(g, r) ==
    /\ MutexFree /\ call[g] = None
    /\ r.account \in Accounts
    /\ nextTx + Len(r.transactions) <= MaxTx + 1
    /\ mu' = g
    /\ call' = [call EXCEPT ![g] = Start(r)]
    /\ reply' = None
    /\ UNCHANGED <<ledger, answered>>

(* Any call that names an account the wallet does not know. *)
UnknownAccount(r) ==
    /\ MutexFree
    /\ r.account \notin Accounts
    /\ Respond(Refusal(r, "101"))
    /\ UNCHANGED <<mu, ledger, call>>

Batch(g) == call[g].request.transactions
Tx(g) == Batch(g)[call[g].next]

SeenMoving(g) == transactions[Tx(g).id] # None /\ transactions[Tx(g).id].type # ""

Seen(g) == transactions[Tx(g).id] # None

AtTx(g, route) ==
    /\ call[g] # None
    /\ call[g].request.route = route
    /\ call[g].next <= Len(Batch(g))

AtEnd(g, route) ==
    /\ call[g] # None
    /\ call[g].request.route = route
    /\ call[g].next > Len(Batch(g))

(* The locals after a transaction was answered from the row stored for it, *)
(* and after one was worked out to leave the row and the running balance.  *)
Replayed(c, row) ==
    [c EXCEPT !.next = c.next + 1, !.replayed = row.balanceAfter,
              !.ids = Append(c.ids, row.id)]

Applied(c, row) ==
    [c EXCEPT !.next = c.next + 1, !.running = row.balanceAfter,
              !.changed = TRUE, !.ids = Append(c.ids, row.id)]

(* A transaction already stored is answered from its row and changes       *)
(* nothing: the first test of both loops.                                  *)
Replay(g, route) ==
    /\ AtTx(g, route) /\ Seen(g)
    /\ transactions[Tx(g).id].balanceAfter <= MaxMoney
    /\ call' = [call EXCEPT ![g] = Replayed(call[g], transactions[Tx(g).id])]
    /\ UNCHANGED <<mu, ledger, reply, answered>>

(* MustParseMoney panics on a stored balance that is longer than           *)
(* ParseMoney reads.  The mutex is released, the caller gets no answer.    *)
ReplayPanics(g, route) ==
    /\ AtTx(g, route) /\ Seen(g)
    /\ transactions[Tx(g).id].balanceAfter > MaxMoney
    /\ Return(g, Refusal(call[g].request, "panic"))
    /\ UNCHANGED ledger

AnswerOfToday(c) ==
    Answer(c.request, "200", c.running, OwnRound(c.request.round), c.ids)

(* What a call that reached the end of its batch answers. *)
AnswerOf(c) ==
    Answer(c.request, "200",
           IF ~c.changed /\ c.replayed # None THEN c.replayed ELSE c.running,
           OwnRound(c.request.round), c.ids)

CommitReplayed(c) ==
    balance' = [balance EXCEPT ![c.request.account] = c.replayed]

CommitBalance(c) ==
    balance' = IF c.changed THEN [balance EXCEPT ![c.request.account] = c.running]
                            ELSE balance

-----------------------------------------------------------------------------
(* BetWin *)

FreshUnbarred(g) == AtTx(g, "betwin") /\ ~Seen(g)

(* A transaction that is neither a repeat nor barred by a tombstone. *)
Fresh(g) ==
    /\ AtTx(g, "betwin") /\ ~Seen(g)
    /\ Tx(g).id \notin tombstones

BeforeRunning(g) == call[g].running

(* balanceBefore: what 100 and 105 report, as nothing of the batch moved. *)
Before(g) == call[g].before

IsBet(g) == Tx(g).type = "bet"
Limited(g) == IsBet(g) /\ call[g].request.account \in BetLimited

Moved(g) ==
    IF IsBet(g) THEN call[g].running - Tx(g).amount
                ELSE call[g].running + Tx(g).amount

BetWinTombstoned(g) ==
    /\ AtTx(g, "betwin") /\ ~Seen(g)
    /\ Tx(g).id \in tombstones
    /\ Return(g, Refusal(call[g].request, "409"))
    /\ UNCHANGED ledger

BetWinLimited(g) ==
    /\ Fresh(g) /\ Limited(g)
    /\ Return(g, Answer(call[g].request, "105", Before(g), 0, <<>>))
    /\ UNCHANGED ledger

BetWinInsufficient(g) ==
    /\ Fresh(g) /\ ~Limited(g)
    /\ IsBet(g) /\ Moved(g) < 0
    /\ Return(g, Answer(call[g].request, "100", Before(g), 0, <<>>))
    /\ UNCHANGED ledger

BetWinRow(g) ==
    [id |-> nextTx, balanceAfter |-> Moved(g), type |-> Tx(g).type,
     amount |-> Tx(g).amount]

BetWinApplyInPlace(g) ==
    /\ Fresh(g) /\ ~Limited(g)
    /\ IsBet(g) => Moved(g) >= 0
    /\ transactions' = [transactions EXCEPT ![Tx(g).id] = BetWinRow(g)]
    /\ call' = [call EXCEPT ![g] = Applied(call[g], BetWinRow(g))]
    /\ nextTx' = nextTx + 1
    /\ UNCHANGED <<mu, balance, tombstones, freespinsIssues, rounds, nextRound,
                   reply, answered>>

(* The transaction is applied to the working copy.  The own id is taken    *)
(* from nextTx at once, and is not given back when a later transaction of  *)
(* the batch is refused.                                                   *)
BetWinApply(g) ==
    /\ Fresh(g) /\ ~Limited(g)
    /\ IsBet(g) => Moved(g) >= 0
    /\ call' = [call EXCEPT ![g] =
                  [Applied(call[g], BetWinRow(g)) EXCEPT
                     !.applied = [call[g].applied EXCEPT ![Tx(g).id] = BetWinRow(g)]]]
    /\ nextTx' = nextTx + 1
    /\ UNCHANGED <<mu, balance, transactions, tombstones, freespinsIssues,
                   rounds, nextRound, reply, answered>>

(* The whole batch succeeded: its rows and the balance are stored. *)
BetWinCommit(g) ==
    LET c == call[g] IN
    /\ AtEnd(g, "betwin")
    /\ transactions' = [i \in IdProviders |->
                          IF c.applied[i] # None THEN c.applied[i]
                                                 ELSE transactions[i]]
    /\ CommitBalance(c)
    /\ RoundIDFor(c.request.round)
    /\ Return(g, AnswerOf(c))
    /\ UNCHANGED <<tombstones, freespinsIssues, nextTx>>

-----------------------------------------------------------------------------
(* Rollback *)

Reversible(i) == transactions[i] # None /\ transactions[i].type # ""

UndoneUnclamped(running, row) ==
    IF row.type = "bet" THEN running + row.amount ELSE running - row.amount

(* A reversed win takes back no more than there is (ClampToZero). *)
Undone(running, row) ==
    IF row.type = "bet" THEN running + row.amount
    ELSE IF running < row.amount THEN 0 ELSE running - row.amount

(* The row a rollback leaves: without an own id if it found nothing to     *)
(* reverse, and never itself reversible.                                   *)
RollbackRow(g) ==
    LET original == transactions[Tx(g).original]
        reverses == Reversible(Tx(g).original)
    IN [id |-> IF reverses THEN nextTx ELSE 0,
        balanceAfter |-> IF reverses THEN Undone(call[g].running, original)
                                     ELSE call[g].running,
        type |-> "", amount |-> 0]

RollbackApplyIfFound(g) ==
    /\ AtTx(g, "rollback") /\ ~Seen(g)
    /\ tombstones' = IF Reversible(Tx(g).original)
                     THEN tombstones \cup {Tx(g).original} ELSE tombstones
    /\ nextTx' = IF Reversible(Tx(g).original) THEN nextTx + 1 ELSE nextTx
    /\ transactions' = [transactions EXCEPT ![Tx(g).id] = RollbackRow(g)]
    /\ call' = [call EXCEPT ![g] = Applied(call[g], RollbackRow(g))]
    /\ UNCHANGED <<mu, balance, freespinsIssues, rounds, nextRound, reply,
                   answered>>

(* The tombstone and the rollback's own row are stored inside the loop;    *)
(* the balance waits for the end of the batch.                             *)
RollbackApply(g) ==
    /\ AtTx(g, "rollback") /\ ~Seen(g)
    /\ tombstones' = tombstones \cup {Tx(g).original}
    /\ nextTx' = IF Reversible(Tx(g).original) THEN nextTx + 1 ELSE nextTx
    /\ transactions' = [transactions EXCEPT ![Tx(g).id] = RollbackRow(g)]
    /\ call' = [call EXCEPT ![g] = Applied(call[g], RollbackRow(g))]
    /\ UNCHANGED <<mu, balance, freespinsIssues, rounds, nextRound, reply,
                   answered>>

RollbackCommit(g) ==
    /\ AtEnd(g, "rollback")
    /\ CommitBalance(call[g])
    /\ RoundIDFor(call[g].request.round)
    /\ Return(g, AnswerOf(call[g]))
    /\ UNCHANGED <<transactions, tombstones, freespinsIssues, nextTx>>

-----------------------------------------------------------------------------
(* Balance and Finish only read the account. *)
ReadAccount(r) ==
    /\ MutexFree
    /\ r.account \in Accounts
    /\ Respond(Answer(r, "200", balance[r.account], 0, <<>>))
    /\ UNCHANGED <<mu, ledger, call>>

Balance(r) == r.route = "balance" /\ ReadAccount(r)

Finish(r) == r.route = "finish" /\ ReadAccount(r)

-----------------------------------------------------------------------------
(* Freespins *)

SetIssue(i, row) == freespinsIssues' = [freespinsIssues EXCEPT ![i] = row]

Status(i) == IF freespinsIssues[i] = None THEN "unknown"
                                          ELSE freespinsIssues[i].status

RecordFreespinsIssueOver(i) ==
    /\ MutexFree
    /\ SetIssue(i, [account |-> IssueAccount[i], status |-> "issued",
                    amount |-> 0, balanceAfter |-> 0])
    /\ reply' = None
    /\ UNCHANGED <<mu, balance, transactions, tombstones, rounds, nextTx,
                   nextRound, call, answered>>

(* A repeated recording leaves the row that is there. *)
RecordFreespinsIssue(i) ==
    /\ MutexFree
    /\ Status(i) = "unknown"
    /\ SetIssue(i, [account |-> IssueAccount[i], status |-> "issued",
                    amount |-> 0, balanceAfter |-> 0])
    /\ reply' = None
    /\ UNCHANGED <<mu, balance, transactions, tombstones, rounds, nextTx,
                   nextRound, call, answered>>

CancelableLate(i) == Status(i) \in {"issued", "finished"}

Cancelable(i) == Status(i) = "issued"

(* Canceling an issue that is unknown, canceled or finished does nothing. *)
CancelFreespinsIssue(i) ==
    /\ MutexFree
    /\ Cancelable(i)
    /\ SetIssue(i, [freespinsIssues[i] EXCEPT !.status = "canceled"])
    /\ reply' = None
    /\ UNCHANGED <<mu, balance, transactions, tombstones, rounds, nextTx,
                   nextRound, call, answered>>

FinishRefused(r, code) ==
    /\ MutexFree
    /\ Respond(Refusal(r, code))
    /\ UNCHANGED <<mu, ledger, call>>

FreespinsFinishUnknown(r) ==
    Status(r.issue) = "unknown" /\ FinishRefused(r, "610")

FreespinsFinishCanceled(r) ==
    Status(r.issue) = "canceled" /\ FinishRefused(r, "605")

PayableCanceled(i) == Status(i) \in {"issued", "canceled"}

(* Neither paid already nor canceled: the two cases of the switch that     *)
(* return.                                                                 *)
Payable(i) == Status(i) = "issued"

FreespinsFinishNoAccount(r) ==
    /\ Payable(r.issue)
    /\ freespinsIssues[r.issue].account \notin Accounts
    /\ FinishRefused(r, "101")

RepeatToday(i) == balance[freespinsIssues[i].account]

(* What a repeat of a credited issue is answered. *)
Repeat(i) == freespinsIssues[i].balanceAfter

(* The stored balance is longer than ParseMoney reads: HTTP 500. *)
FreespinsFinishUnreadable(r) ==
    /\ Status(r.issue) = "finished"
    /\ Repeat(r.issue) > MaxMoney
    /\ FinishRefused(r, "500")

FreespinsFinishReplay(r) ==
    /\ MutexFree
    /\ Status(r.issue) = "finished"
    /\ Repeat(r.issue) <= MaxMoney
    /\ Respond(Answer(r, "200", Repeat(r.issue), 0, <<>>))
    /\ UNCHANGED <<mu, ledger, call>>

FreespinsFinishCredit(r) ==
    LET a == freespinsIssues[r.issue].account
        after == balance[a] + r.amount
    IN /\ MutexFree
       /\ Payable(r.issue)
       /\ a \in Accounts
       /\ balance' = [balance EXCEPT ![a] = after]
       /\ SetIssue(r.issue, [account |-> a, status |-> "finished",
                             amount |-> r.amount, balanceAfter |-> after])
       /\ Respond(Answer(r, "200", after, 0, <<>>))
       /\ UNCHANGED <<mu, transactions, tombstones, rounds, nextTx, nextRound,
                      call>>

-----------------------------------------------------------------------------
(* What New keeps of a snapshot taken when no call is running: nextTx is   *)
(* given, and the rounds are not in the snapshot.                          *)
Restored(kept, barred) ==
    /\ Restarts /\ MutexFree
    /\ \A a \in Accounts : balance[a] <= MaxMoney
    /\ transactions' = [i \in IdProviders |-> IF i \in kept THEN transactions[i] ELSE None]
    /\ tombstones' = barred
    /\ rounds' = [r \in ProviderRounds |-> 0]
    /\ nextRound' = 1
    /\ call' = [g \in Goroutines |-> None]
    /\ reply' = None
    /\ UNCHANGED <<mu, balance, freespinsIssues, answered>>

(* nextTx becomes one past the largest own id stored. *)
ContinueTxIds ==
    \E n \in 1..nextTx :
       /\ \A i \in IdProviders : transactions[i] # None => transactions[i].id < n
       /\ n # 1 => \E i \in IdProviders :
                      transactions[i] # None /\ transactions[i].id = n - 1
       /\ nextTx' = n

RestartTxIds == Restored(IdProviders, tombstones) /\ nextTx' = 1
RestartUnbarred == Restored(IdProviders, {}) /\ ContinueTxIds
RestartMovingRows ==
    Restored({i \in IdProviders : Reversible(i)}, tombstones) /\ ContinueTxIds

(* New(w.Snapshot()).  New panics on a balance that is longer than         *)
(* ParseMoney reads.                                                       *)
Restart == Restored(IdProviders, tombstones) /\ ContinueTxIds

-----------------------------------------------------------------------------
Init ==
    /\ mu = None
    /\ balance = Opening
    /\ transactions = [i \in IdProviders |-> None]
    /\ tombstones = {}
    /\ freespinsIssues = [i \in Issues |-> None]
    /\ rounds = [r \in ProviderRounds |-> 0]
    /\ nextTx = 1 /\ nextRound = 1
    /\ call = [g \in Goroutines |-> None]
    /\ reply = None
    /\ answered = {}

Step(g) ==
    \/ \E route \in {"betwin", "rollback"} : Replay(g, route) \/ ReplayPanics(g, route)
    \/ BetWinTombstoned(g) \/ BetWinLimited(g) \/ BetWinInsufficient(g)
    \/ BetWinApply(g) \/ BetWinCommit(g)
    \/ RollbackApply(g) \/ RollbackCommit(g)

FreespinsFinish(r) ==
    \/ FreespinsFinishUnknown(r) \/ FreespinsFinishCanceled(r)
    \/ FreespinsFinishNoAccount(r) \/ FreespinsFinishUnreadable(r)
    \/ FreespinsFinishReplay(r) \/ FreespinsFinishCredit(r)

Next ==
    \/ \E g \in Goroutines : Step(g) \/ \E r \in BatchRequests : Enter(g, r)
    \/ \E r \in BatchRequests \cup ReadRequests : UnknownAccount(r)
    \/ \E r \in ReadRequests : Balance(r) \/ Finish(r)
    \/ \E r \in FinishRequests : FreespinsFinish(r)
    \/ \E i \in Issues : RecordFreespinsIssue(i) \/ CancelFreespinsIssue(i)
    \/ Restart

(* Nothing under the mutex blocks, so a call that holds it keeps stepping. *)
Spec == Init /\ [][Next]_vars /\ \A g \in Goroutines : WF_vars(Step(g))
-----------------------------------------------------------------------------
(* Properties *)

(* The variables keep their types: rows, locals and answers stay           *)
(* well-formed over every path of the handlers.                            *)
TypeOK ==
    /\ mu \in Goroutines \cup {None}
    /\ balance \in [Accounts -> Int]
    /\ transactions \in [IdProviders -> StoredTransaction \cup {None}]
    /\ tombstones \subseteq IdProviders
    /\ freespinsIssues \in [Issues -> StoredFreespinsIssue \cup {None}]
    /\ rounds \in [ProviderRounds -> Nat]
    /\ nextTx \in Nat \ {0} /\ nextRound \in Nat \ {0}
    /\ call \in [Goroutines -> Locals \cup {None}]

(* No balance, committed, stored with a row or in a working copy, is ever  *)
(* negative: bets are refused with 100 and reversed wins are clamped.      *)
NeverOverdrawn ==
    /\ \A a \in Accounts : balance[a] >= 0
    /\ \A i \in IdProviders : transactions[i] # None => transactions[i].balanceAfter >= 0
    /\ \A g \in Goroutines : call[g] # None => call[g].running >= 0

RollbackTxs ==
    UNION {{r.transactions[k] : k \in DOMAIN r.transactions} : r \in RollbackRequests}

IdsOf(r) == {r.transactions[k].id : k \in DOMAIN r.transactions}

(* The rollback transaction t reversed its original (its row has an own    *)
(* id), rather than only leaving a tombstone.                              *)
Reverses(t) == transactions[t.id] # None /\ transactions[t.id].id # 0

IsReversed(i) == \E t \in RollbackTxs : t.original = i /\ Reverses(t)

(* What row i moved, if it still counts. *)
Worth(i) ==
    IF ~Reversible(i) \/ IsReversed(i) THEN 0
    ELSE IF transactions[i].type = "bet" THEN -transactions[i].amount
    ELSE transactions[i].amount

Paid(a, i) ==
    IF Status(i) = "finished" /\ freespinsIssues[i].account = a
    THEN freespinsIssues[i].amount ELSE 0

(* A win of account a was reversed when less than the win was left. *)
MayHaveClamped(a) ==
    \E r \in RollbackRequests : \E k \in DOMAIN r.transactions :
       LET t == r.transactions[k] IN
       /\ r.account = a /\ Reverses(t)
       /\ transactions[t.original].type = "win"
       /\ transactions[t.id].balanceAfter = 0

(* What the rows and the issues say account a should hold: its opening     *)
(* balance plus every win and minus every bet stored for it and not        *)
(* reversed, plus the freespins paid once each.                            *)
Mine(a) == UNION {IdsOf(r) : r \in {q \in BetWinRequests : q.account = a}}

Due(a) ==
    Opening[a] + SumFunctionOnSet([i \in IdProviders |-> Worth(i)], Mine(a))
               + SumFunctionOnSet([i \in Issues |-> Paid(a, i)], Issues)

(* Only a clamped reversal leaves an account with more.                    *)
Balanced(a, money) ==
    IF MayHaveClamped(a) THEN money >= Due(a) ELSE money = Due(a)

(* The books balance: between calls an account holds what is due to it.    *)
(* This is what dedupe, tombstones, the working copy and the mutex of      *)
(* BetWin, Rollback and FreespinsFinish are for together.                  *)
Books == mu = None => \A a \in Accounts : Balanced(a, balance[a])

(* Between calls a batch is stored whole or not at all: a 100, 105 or 409  *)
(* in the middle of a BetWin leaves nothing of it behind.                  *)
BatchAtomic ==
    mu = None =>
      \A r \in BatchRequests :
        \/ \A i \in IdsOf(r) : transactions[i] # None
        \/ \A i \in IdsOf(r) : transactions[i] = None

(* An id_provider of a rollback names that rollback only. *)
RollbackIdsUnique ==
    /\ \A t, u \in RollbackTxs : t.id = u.id => t = u
    /\ \A t \in RollbackTxs, r \in BetWinRequests : t.id \notin IdsOf(r)

(* Once a rollback was stored, its original is reversed or was never       *)
(* applied: no order of delivery of the two, and no restart, lets a rolled *)
(* back transaction keep its effect (the rule of BetWin and Rollback).     *)
RolledBackHasNoEffect ==
    \A t \in RollbackTxs :
       transactions[t.id] # None /\ Reversible(t.original) => IsReversed(t.original)

(* Two final answers to one request are the same: a retry gets the ids and *)
(* the balance of the first time, and is never refused once accepted or    *)
(* accepted once refused.  A freespins issue is one request, whatever the  *)
(* amount of its repeats.                                                  *)
SameRequest(r, s) ==
    \/ r = s
    \/ r.route = "freespins_finish" /\ s.route = "freespins_finish" /\ r.issue = s.issue

SameAnswer ==
    \A x, y \in {z \in answered : z.request \notin ReadRequests} :
       SameRequest(x.request, y.request) =>
          /\ x.code = y.code /\ x.balance = y.balance /\ x.ids = y.ids

(* An answered round keeps its own id, and no two rounds share one. *)
OwnRoundsUnique ==
    \A x, y \in {z \in answered : z.round # 0} :
       (x.request.round = y.request.round) <=> (x.round = y.round)

(* The own ids of stored rows are distinct and behind nextTx, across       *)
(* restarts too, whatever ids refused batches used up.                     *)
OwnIdsUnique ==
    \A i, j \in {k \in IdProviders : transactions[k] # None /\ transactions[k].id # 0} :
       /\ transactions[i].id < nextTx
       /\ transactions[i].id = transactions[j].id => i = j

(* A stored row never changes: it is what a repeat will be answered from.  *)
RowsImmutable ==
    [][\A i \in IdProviders :
          transactions[i] # None => transactions'[i] = transactions[i]]_vars

(* The balance in an answer is the committed one whenever the step moved   *)
(* money or refused to: 100 and 105 report the balance before the batch.   *)
AnswersCommitted ==
    [][ /\ reply' # reply /\ reply' # None
        /\ \/ balance' # balance
           \/ reply'.code \in {"100", "105"}
        => \E a \in Accounts : /\ reply'.balance = balance'[a]
                               /\ balance'[a] # balance[a] \/ reply'.request.account = a
      ]_vars

(* A canceled issue was never credited before and never is again: no       *)
(* finish, repeat of one, recording or restart brings its row back to life *)
(* or has its result answered with 200, and no cancel is taken for an      *)
(* issue that was paid.                                                    *)
CanceledNeverPaid ==
    [][\A i \in Issues : Status(i) = "canceled" =>
          /\ freespinsIssues'[i] = freespinsIssues[i]
          /\ \A x \in answered' :
                ~(x.request.route = "freespins_finish" /\ x.request.issue = i)]_vars

(* The handlers answer: whoever takes the mutex gives it back, on every    *)
(* early return too.                                                       *)
MutexReleased == (mu # None) ~> (mu = None)

(* The package comment's first rule: a repeat is always answered from what *)
(* was stored the first time.                                              *)
RepeatIsAnswered ==
    reply # None => reply.code \notin {"panic", "500"}

(* What wallet.yaml says of /betwin and errors.go of 409: a transaction    *)
(* that was rolled back is refused, applied before or not.                 *)
RolledBackIsRefused ==
    [][ /\ reply' # reply /\ reply' # None
        /\ reply'.request.route = "betwin"
        /\ \E i \in IdsOf(reply'.request) : i \in tombstones
        => reply'.code # "200" ]_vars
-----------------------------------------------------------------------------
(* The wallet as the contract sees it *)

(* What became of an id_provider, told from its row and its tombstone. *)
Fate(i) ==
    IF Reversible(i) THEN IF i \in tombstones THEN "reversed" ELSE "applied"
                     ELSE IF i \in tombstones THEN "barred" ELSE "unseen"

(* The rollback transactions performed: the rows that moved nothing. *)
Performed == {i \in IdProviders : transactions[i] # None /\ transactions[i].type = ""}

FinalAnswers ==
    {<<x.request, x.code>> : x \in {y \in answered : y.request.route \in {"betwin", "rollback"}}}

Contract == INSTANCE WalletContract
            WITH fate <- [i \in IdProviders |-> Fate(i)],
                 undone <- Performed,
                 told <- FinalAnswers

(* The wallet keeps the contract: step by step, with the mutex, the        *)
(* working copy, the panics and the restarts, what it stores and answers   *)
(* is what WalletContract allows.                                          *)
ImplementsContract == Contract!ContractSpec
=============================================================================
