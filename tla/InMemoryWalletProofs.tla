------------------------- MODULE InMemoryWalletProofs -------------------------
(* Proofs about InMemoryWallet for every value of its constants.            *)
EXTENDS InMemoryWallet, TLAPS

(* The call a goroutine is in, and the transaction it is at, are of the    *)
(* kind its route says.                                                    *)
LEMMA CallIsTyped ==
    ASSUME TypeOK, NEW g \in Goroutines, call[g] # None
    PROVE  /\ call[g] \in Locals
           /\ call[g].request \in BatchRequests
           /\ call[g].next \in Nat \ {0}
           /\ call[g].request.round \in ProviderRounds
           /\ Len(Batch(g)) \in Nat
BY RequestsAssumption DEF TypeOK, Locals, BatchRequests, Batch

(* The transaction a BetWin is at is a bet or win of its own batch.        *)
LEMMA BetWinTxIsTyped ==
    ASSUME TypeOK, NEW g \in Goroutines, AtTx(g, "betwin")
    PROVE  /\ call[g].request \in BetWinRequests
           /\ Tx(g) \in BetWinTx
           /\ Tx(g).id \in IdsOf(call[g].request)
<1>1. call[g] # None /\ call[g].next \in 1..Len(Batch(g))
  BY CallIsTyped DEF AtTx
<1>2. call[g].request \in BetWinRequests
  BY <1>1, CallIsTyped, RequestsAssumption DEF AtTx, BatchRequests
<1>3. Batch(g) \in Seq(BetWinTx)
  BY <1>2, RequestsAssumption DEF Batch
<1>4. Tx(g) \in BetWinTx /\ call[g].next \in DOMAIN Batch(g)
  BY <1>1, <1>3 DEF Tx
<1> QED
  BY <1>2, <1>4 DEF IdsOf, Tx, Batch

(* The transaction a Rollback is at is one of the rollback transactions.   *)
LEMMA RollbackTxIsTyped ==
    ASSUME TypeOK, NEW g \in Goroutines, AtTx(g, "rollback")
    PROVE  /\ call[g].request \in RollbackRequests
           /\ Tx(g) \in RollbackTx
           /\ Tx(g) \in RollbackTxs
<1>1. call[g] # None /\ call[g].next \in 1..Len(Batch(g))
  BY CallIsTyped DEF AtTx
<1>2. call[g].request \in RollbackRequests
  BY <1>1, CallIsTyped, RequestsAssumption DEF AtTx, BatchRequests
<1>3. Batch(g) \in Seq(RollbackTx)
  BY <1>2, RequestsAssumption DEF Batch
<1>4. Tx(g) \in RollbackTx /\ call[g].next \in DOMAIN Batch(g)
  BY <1>1, <1>3 DEF Tx
<1> QED
  BY <1>2, <1>4 DEF RollbackTxs, Tx, Batch

-----------------------------------------------------------------------------
(* Types                                                                   *)

(* The locals of a call at the start of its loop have their types.         *)
LEMMA StartIsTyped ==
    ASSUME TypeOK, NEW r \in BatchRequests, r.account \in Accounts
    PROVE  Start(r) \in Locals
BY DEF Start, TypeOK, Locals

(* roundIDFor keeps the types of the round table and its counter.          *)
LEMMA RoundsStayTyped ==
    ASSUME TypeOK, NEW r \in ProviderRounds, RoundIDFor(r)
    PROVE  rounds' \in [ProviderRounds -> Nat] /\ nextRound' \in Nat \ {0}
BY DEF TypeOK, RoundIDFor, OwnRound

(* Walking past a repeat keeps the types of the locals.                    *)
LEMMA ReplayedIsTyped ==
    ASSUME NEW c \in Locals, NEW row \in StoredTransaction
    PROVE  Replayed(c, row) \in Locals
<1>1. c.ids \in Seq(Nat) /\ row.id \in Nat /\ row.balanceAfter \in Int
  BY DEF Locals, StoredTransaction
<1>2. Append(c.ids, row.id) \in Seq(Nat)
  BY <1>1
<1>3. c.next + 1 \in Nat \ {0}
  BY DEF Locals
<1> QED
  BY <1>1, <1>2, <1>3 DEF Replayed, Locals

(* Walking past a transaction that was worked out keeps them too.          *)
LEMMA AppliedIsTyped ==
    ASSUME NEW c \in Locals, NEW row \in StoredTransaction
    PROVE  Applied(c, row) \in Locals
<1>1. c.ids \in Seq(Nat) /\ row.id \in Nat /\ row.balanceAfter \in Int
  BY DEF Locals, StoredTransaction
<1>2. Append(c.ids, row.id) \in Seq(Nat)
  BY <1>1
<1>3. c.next + 1 \in Nat \ {0}
  BY DEF Locals
<1> QED
  BY <1>1, <1>2, <1>3 DEF Applied, Locals

(* So does putting a row into the working copy.                            *)
LEMMA StagedIsTyped ==
    ASSUME NEW c \in Locals, NEW row \in StoredTransaction, NEW i \in IdProviders
    PROVE  [c EXCEPT !.applied = [c.applied EXCEPT ![i] = row]] \in Locals
BY DEF Locals

(* What BetWin stages is a row under an id_provider.                       *)
LEMMA BetWinRowIsTyped ==
    ASSUME TypeOK, NEW g \in Goroutines, Fresh(g)
    PROVE  BetWinRow(g) \in StoredTransaction /\ Tx(g).id \in IdProviders
<1>1. Tx(g) \in BetWinTx /\ call[g] \in Locals
  BY BetWinTxIsTyped, CallIsTyped DEF Fresh, AtTx
<1>2. Moved(g) \in Int
  BY <1>1, AccountsAssumption DEF Moved, BetWinTx, Locals
<1>3. /\ Tx(g).id \in IdProviders /\ Tx(g).type \in {"bet", "win"}
      /\ Tx(g).amount \in 1..MaxMoney
  BY <1>1 DEF BetWinTx
<1>4. Tx(g).amount \in Nat /\ nextTx \in Nat
  BY <1>3, AccountsAssumption DEF TypeOK
<1> QED
  BY <1>2, <1>3, <1>4 DEF BetWinRow, StoredTransaction

(* What Rollback stores is a row.                                          *)
LEMMA RollbackRowIsTyped ==
    ASSUME TypeOK, NEW g \in Goroutines, AtTx(g, "rollback")
    PROVE  RollbackRow(g) \in StoredTransaction
<1>1. Tx(g) \in RollbackTx /\ call[g] \in Locals
  BY RollbackTxIsTyped, CallIsTyped DEF AtTx
<1>2. ASSUME Reversible(Tx(g).original)
      PROVE  Undone(call[g].running, transactions[Tx(g).original]) \in Int
  <2>1. transactions[Tx(g).original] \in StoredTransaction
    BY <1>1, <1>2 DEF Reversible, TypeOK, RollbackTx
  <2>2. transactions[Tx(g).original].amount \in Nat /\ call[g].running \in Int
    BY <1>1, <2>1 DEF StoredTransaction, Locals
  <2> QED
    BY <2>2 DEF Undone
<1> QED
  BY <1>1, <1>2 DEF RollbackRow, StoredTransaction, TypeOK, Locals

(* Every turn of a loop, and every return from it, keeps the types.        *)
LEMMA StepKeepsTypes ==
    ASSUME TypeOK, NEW g \in Goroutines, Step(g)
    PROVE  TypeOK'
<1>1. ASSUME NEW route \in {"betwin", "rollback"}, Replay(g, route) PROVE TypeOK'
  <2>1. Tx(g).id \in IdProviders
    BY <1>1, BetWinTxIsTyped, RollbackTxIsTyped DEF Replay, BetWinTx, RollbackTx
  <2>2. transactions[Tx(g).id] \in StoredTransaction
    BY <1>1, <2>1 DEF Replay, Seen, TypeOK
  <2>3. Replayed(call[g], transactions[Tx(g).id]) \in Locals
    BY <1>1, <2>2, CallIsTyped, ReplayedIsTyped DEF Replay, AtTx
  <2> QED
    BY <1>1, <2>3 DEF Replay, TypeOK, ledger
<1>2. ASSUME NEW route \in {"betwin", "rollback"}, ReplayPanics(g, route) PROVE TypeOK'
  BY <1>2 DEF ReplayPanics, Return, TypeOK, ledger
<1>3. CASE BetWinTombstoned(g) \/ BetWinLimited(g) \/ BetWinInsufficient(g)
  BY <1>3
  DEF BetWinTombstoned, BetWinLimited, BetWinInsufficient, Return, TypeOK, ledger
<1>4. CASE BetWinApply(g)
  <2>1. BetWinRow(g) \in StoredTransaction /\ Tx(g).id \in IdProviders
    BY <1>4, BetWinRowIsTyped DEF BetWinApply
  <2>2. Applied(call[g], BetWinRow(g)) \in Locals
    BY <1>4, <2>1, CallIsTyped, AppliedIsTyped DEF BetWinApply, Fresh, AtTx
  <2>3. [Applied(call[g], BetWinRow(g)) EXCEPT
           !.applied = [call[g].applied EXCEPT ![Tx(g).id] = BetWinRow(g)]] \in Locals
    BY <2>1, <2>2, StagedIsTyped DEF Applied, Locals
  <2> QED
    BY <1>4, <2>3 DEF BetWinApply, TypeOK
<1>5. CASE BetWinCommit(g)
  <2>1. call[g] \in Locals /\ call[g].request.round \in ProviderRounds
    BY <1>5, CallIsTyped DEF BetWinCommit, AtEnd
  <2>2. transactions' \in [IdProviders -> StoredTransaction \cup {None}]
    BY <1>5, <2>1 DEF BetWinCommit, TypeOK, Locals
  <2>3. balance' \in [Accounts -> Int]
    BY <1>5, <2>1 DEF BetWinCommit, CommitBalance, TypeOK, Locals
  <2> QED
    BY <1>5, <2>1, <2>2, <2>3, RoundsStayTyped DEF BetWinCommit, Return, TypeOK
<1>6. CASE RollbackApply(g)
  <2>1. RollbackRow(g) \in StoredTransaction /\ Tx(g) \in RollbackTx
    BY <1>6, RollbackRowIsTyped, RollbackTxIsTyped DEF RollbackApply
  <2>2. Applied(call[g], RollbackRow(g)) \in Locals
    BY <1>6, <2>1, CallIsTyped, AppliedIsTyped DEF RollbackApply, AtTx
  <2> QED
    BY <1>6, <2>1, <2>2 DEF RollbackApply, TypeOK, RollbackTx
<1>7. CASE RollbackCommit(g)
  <2>1. call[g] \in Locals /\ call[g].request.round \in ProviderRounds
    BY <1>7, CallIsTyped DEF RollbackCommit, AtEnd
  <2>2. balance' \in [Accounts -> Int]
    BY <1>7, <2>1 DEF RollbackCommit, CommitBalance, TypeOK, Locals
  <2> QED
    BY <1>7, <2>1, <2>2, RoundsStayTyped DEF RollbackCommit, Return, TypeOK
<1> QED
  BY <1>1, <1>2, <1>3, <1>4, <1>5, <1>6, <1>7 DEF Step

(* Every return of FreespinsFinish keeps the types.                        *)
LEMMA FreespinsKeepTypes ==
    ASSUME TypeOK, NEW r \in FinishRequests, FreespinsFinish(r)
    PROVE  TypeOK'
<1>1. CASE FreespinsFinishCredit(r)
  <2>1. freespinsIssues[r.issue] \in StoredFreespinsIssue /\ r.issue \in Issues
    BY <1>1, RequestsAssumption DEF FreespinsFinishCredit, Payable, Status, TypeOK
  <2>2. /\ freespinsIssues[r.issue].account \in {IssueAccount[i] : i \in Issues}
        /\ balance[freespinsIssues[r.issue].account] + r.amount \in Int
        /\ r.amount \in Nat
    BY <1>1, <2>1, RequestsAssumption, AccountsAssumption
    DEF FreespinsFinishCredit, StoredFreespinsIssue, TypeOK
  <2> QED
    BY <1>1, <2>1, <2>2 DEF FreespinsFinishCredit, SetIssue, StoredFreespinsIssue, TypeOK
<1> QED
  BY <1>1 DEF FreespinsFinish, FreespinsFinishUnknown, FreespinsFinishCanceled,
    FreespinsFinishNoAccount, FreespinsFinishUnreadable, FreespinsFinishReplay,
    FinishRefused, TypeOK, ledger

(* A rebuilt wallet has the types of the one it was rebuilt from.          *)
LEMMA RestartKeepsTypes == ASSUME TypeOK, Restart PROVE TypeOK'
BY DEF Restart, Restored, ContinueTxIds, TypeOK

(* The program never leaves the types: what each handler stores is a row,  *)
(* and what it keeps between two steps of its loop is a call's locals.     *)
THEOREM TypeCorrect == Spec => []TypeOK
<1>1. Init => TypeOK
  BY AccountsAssumption DEF Init, TypeOK
<1>2. TypeOK /\ [Next]_vars => TypeOK'
  <2> SUFFICES ASSUME TypeOK, [Next]_vars PROVE TypeOK'
    OBVIOUS
  <2>1. ASSUME NEW g \in Goroutines, Step(g) PROVE TypeOK'
    BY <2>1, StepKeepsTypes
  <2>2. ASSUME NEW g \in Goroutines, NEW r \in BatchRequests, Enter(g, r) PROVE TypeOK'
    BY <2>2, StartIsTyped DEF Enter, TypeOK, ledger
  <2>3. ASSUME NEW r, UnknownAccount(r) \/ Balance(r) \/ Finish(r) PROVE TypeOK'
    BY <2>3 DEF UnknownAccount, Balance, Finish, ReadAccount, TypeOK, ledger
  <2>4. ASSUME NEW r \in FinishRequests, FreespinsFinish(r) PROVE TypeOK'
    BY <2>4, FreespinsKeepTypes
  <2>5. ASSUME NEW i \in Issues, RecordFreespinsIssue(i) PROVE TypeOK'
    BY <2>5 DEF RecordFreespinsIssue, SetIssue, StoredFreespinsIssue, TypeOK
  <2>6. ASSUME NEW i \in Issues, CancelFreespinsIssue(i) PROVE TypeOK'
    BY <2>6 DEF CancelFreespinsIssue, Cancelable, Status, SetIssue, StoredFreespinsIssue, TypeOK
  <2>7. CASE Restart
    BY <2>7, RestartKeepsTypes
  <2>8. CASE UNCHANGED vars
    BY <2>8 DEF vars, ledger, TypeOK
  <2> QED
    BY <2>1, <2>2, <2>3, <2>4, <2>5, <2>6, <2>7, <2>8 DEF Next
<1> QED
  BY <1>1, <1>2, PTL DEF Spec
-----------------------------------------------------------------------------
(* The mutex                                                               *)

(* Only the goroutine that holds the mutex is inside a call. *)
MutualExclusion == \A g \in Goroutines : call[g] # None => mu = g

(* The steps that change no transaction, tombstone, own id or call. *)
Quiet == UNCHANGED <<mu, call, transactions, tombstones, nextTx>>

(* A step is one of a call, the start of a call, a restart, or one that    *)
(* touches neither transactions nor calls.                                 *)
LEMMA NextCases ==
    ASSUME [Next]_vars
    PROVE  \/ \E g \in Goroutines : Step(g) \/ \E r \in BatchRequests : Enter(g, r)
           \/ Restart
           \/ Quiet
<1>1. ASSUME NEW r, UnknownAccount(r) \/ Balance(r) \/ Finish(r) PROVE Quiet
  BY <1>1 DEF UnknownAccount, Balance, Finish, ReadAccount, ledger, Quiet
<1>2. ASSUME NEW r, FreespinsFinish(r) PROVE Quiet
  BY <1>2 DEF FreespinsFinish, FreespinsFinishUnknown, FreespinsFinishCanceled,
    FreespinsFinishNoAccount, FreespinsFinishUnreadable, FreespinsFinishReplay,
    FreespinsFinishCredit, FinishRefused, ledger, Quiet
<1>3. ASSUME NEW i, RecordFreespinsIssue(i) \/ CancelFreespinsIssue(i) PROVE Quiet
  BY <1>3 DEF RecordFreespinsIssue, CancelFreespinsIssue, Quiet
<1>4. UNCHANGED vars => Quiet
  BY DEF vars, ledger, Quiet
<1> QED
  BY <1>1, <1>2, <1>3, <1>4 DEF Next

(* A step of g belongs to g's call and moves no other; it may end it. *)
StepShape(g) ==
    /\ call[g] # None
    /\ \A h \in Goroutines \ {g} : call'[h] = call[h]
    /\ mu' = mu \/ (mu' = None /\ call'[g] = None)

(* A step of goroutine g moves the locals of g only, and gives the mutex   *)
(* back only when the call is over.                                        *)
LEMMA StepMovesItsCall ==
    ASSUME TypeOK, NEW g \in Goroutines, Step(g)
    PROVE  StepShape(g)
<1>1. ASSUME NEW route, Replay(g, route) \/ ReplayPanics(g, route) PROVE StepShape(g)
  BY <1>1 DEF Replay, ReplayPanics, AtTx, Return, TypeOK, StepShape
<1>2. CASE BetWinTombstoned(g) \/ BetWinLimited(g) \/ BetWinInsufficient(g) \/ BetWinApply(g)
  BY <1>2 DEF BetWinTombstoned, BetWinLimited, BetWinInsufficient, BetWinApply, Fresh,
    AtTx, Return, TypeOK, StepShape
<1>3. CASE BetWinCommit(g) \/ RollbackApply(g) \/ RollbackCommit(g)
  BY <1>3 DEF BetWinCommit, RollbackApply, RollbackCommit, AtTx, AtEnd, Return, TypeOK,
    StepShape
<1> QED
  BY <1>1, <1>2, <1>3 DEF Step

(* BetWin and Rollback calls exclude each other: what one of them read is  *)
(* still so when it writes.                                                *)
THEOREM MutexExcludes == Spec => []MutualExclusion
<1>1. Init => MutualExclusion
  BY DEF Init, MutualExclusion
<1>2. TypeOK /\ MutualExclusion /\ [Next]_vars => MutualExclusion'
  <2> SUFFICES ASSUME TypeOK, MutualExclusion, [Next]_vars PROVE MutualExclusion'
    OBVIOUS
  <2>1. ASSUME NEW g \in Goroutines, Step(g) PROVE MutualExclusion'
    BY <2>1, StepMovesItsCall DEF StepShape, MutualExclusion
  <2>2. ASSUME NEW g \in Goroutines, NEW r, Enter(g, r) PROVE MutualExclusion'
    BY <2>2, NoneAssumption DEF Enter, MutexFree, MutualExclusion, TypeOK
  <2>3. CASE Restart
    BY <2>3 DEF Restart, Restored, MutualExclusion
  <2>4. CASE Quiet
    BY <2>4 DEF Quiet, MutualExclusion
  <2> QED
    BY <2>1, <2>2, <2>3, <2>4, NextCases
<1> QED
  BY <1>1, <1>2, TypeCorrect, PTL DEF Spec
-----------------------------------------------------------------------------
(* The working copy of a BetWin                                            *)

(* What a call holds in its working copy is still unknown to the ledger:   *)
(* not stored, not barred by a tombstone, and of a /betwin batch.          *)
StagedIsFresh ==
    \A g \in Goroutines : call[g] # None =>
       \A i \in IdProviders : call[g].applied[i] # None =>
          /\ transactions[i] = None
          /\ i \notin tombstones
          /\ call[g].request.route = "betwin"
          /\ i \in IdsOf(call[g].request)

(* Walking on changes neither the working copy nor the request; the        *)
(* running balance is the row's, or as it was.                             *)
LEMMA LocalsKept ==
    ASSUME NEW c \in Locals, NEW row
    PROVE  /\ Replayed(c, row).applied = c.applied
           /\ Replayed(c, row).request = c.request
           /\ Replayed(c, row).running = c.running
           /\ Applied(c, row).applied = c.applied
           /\ Applied(c, row).request = c.request
           /\ Applied(c, row).running = row.balanceAfter
BY DEF Replayed, Applied, Locals

(* BetWinApply changes the working copy at one id_provider. *)
LEMMA BetWinApplyStages ==
    ASSUME TypeOK, NEW g \in Goroutines, BetWinApply(g)
    PROVE  /\ call'[g].request = call[g].request
           /\ call'[g].running = Moved(g)
           /\ call'[g].applied = [call[g].applied EXCEPT ![Tx(g).id] = BetWinRow(g)]
           /\ call[g].applied \in [IdProviders -> StoredTransaction \cup {None}]
           /\ call'[g].applied \in [IdProviders -> StoredTransaction \cup {None}]
<1>1. call[g] \in Locals /\ BetWinRow(g) \in StoredTransaction /\ Tx(g).id \in IdProviders
  BY CallIsTyped, BetWinRowIsTyped DEF BetWinApply, Fresh, AtTx
<1>2. call'[g] = [Applied(call[g], BetWinRow(g)) EXCEPT
                    !.applied = [call[g].applied EXCEPT ![Tx(g).id] = BetWinRow(g)]]
  BY DEF BetWinApply, TypeOK
<1>3. Applied(call[g], BetWinRow(g)) \in Locals
  BY <1>1, AppliedIsTyped
<1>4. /\ call'[g].request = Applied(call[g], BetWinRow(g)).request
      /\ call'[g].running = Applied(call[g], BetWinRow(g)).running
      /\ call'[g].applied = [call[g].applied EXCEPT ![Tx(g).id] = BetWinRow(g)]
  BY <1>2, <1>3 DEF Locals
<1>5. call[g].applied \in [IdProviders -> StoredTransaction \cup {None}]
  BY <1>1 DEF Locals
<1>6. /\ Applied(call[g], BetWinRow(g)).request = call[g].request
      /\ Applied(call[g], BetWinRow(g)).running = BetWinRow(g).balanceAfter
  BY <1>1, LocalsKept
<1>7. BetWinRow(g).balanceAfter = Moved(g)
  BY DEF BetWinRow
<1>8. call'[g].applied \in [IdProviders -> StoredTransaction \cup {None}]
  BY <1>1, <1>4, <1>5
<1> QED
  BY <1>4, <1>5, <1>6, <1>7, <1>8

(* With the mutex, a step of g finds every other goroutine outside a call. *)
LEMMA OthersOutside ==
    ASSUME TypeOK, MutualExclusion, NEW g \in Goroutines, Step(g)
    PROVE  \A h \in Goroutines \ {g} : call[h] = None /\ call'[h] = None
BY StepMovesItsCall DEF StepShape, MutualExclusion

(* A step of a call keeps what is staged fresh, as every other call is     *)
(* outside.                                                                *)
LEMMA StepKeepsStaged ==
    ASSUME TypeOK, MutualExclusion, StagedIsFresh, NEW g \in Goroutines, Step(g)
    PROVE  StagedIsFresh'
<1>0. \A h \in Goroutines \ {g} : call'[h] = None
  BY OthersOutside
<1>1. ASSUME NEW route \in {"betwin", "rollback"}, Replay(g, route) PROVE StagedIsFresh'
  <2>1. call[g] # None /\ call[g] \in Locals
        /\ call'[g] = Replayed(call[g], transactions[Tx(g).id])
    BY <1>1, CallIsTyped DEF Replay, AtTx, TypeOK
  <2>2. /\ Replayed(call[g], transactions[Tx(g).id]).applied = call[g].applied
        /\ Replayed(call[g], transactions[Tx(g).id]).request = call[g].request
    BY <2>1, LocalsKept
  <2>3. transactions' = transactions /\ tombstones' = tombstones
    BY <1>1 DEF Replay, ledger
  <2> QED
    BY <1>0, <2>1, <2>2, <2>3 DEF StagedIsFresh, IdsOf
<1>2. CASE call'[g] = None
  BY <1>0, <1>2 DEF StagedIsFresh
<1>3. CASE BetWinApply(g)
  <2>1. /\ Tx(g).id \in IdsOf(call[g].request) /\ call[g] # None
        /\ call[g].request.route = "betwin"
        /\ transactions[Tx(g).id] = None /\ Tx(g).id \notin tombstones
    BY <1>3, BetWinTxIsTyped DEF BetWinApply, Fresh, Seen, AtTx
  <2>2. \A i \in IdProviders \ {Tx(g).id} : call'[g].applied[i] = call[g].applied[i]
    BY <1>3, BetWinApplyStages
  <2>3. call'[g].request = call[g].request
    BY <1>3, BetWinApplyStages
  <2>4. transactions' = transactions /\ tombstones' = tombstones
    BY <1>3 DEF BetWinApply
  <2> QED
    BY <1>0, <2>1, <2>2, <2>3, <2>4 DEF StagedIsFresh, IdsOf
<1>4. CASE RollbackApply(g)
  <2>1. call[g] # None /\ call[g] \in Locals /\ call[g].request.route = "rollback"
        /\ call'[g] = Applied(call[g], RollbackRow(g))
    BY <1>4, CallIsTyped DEF RollbackApply, AtTx, TypeOK
  <2>2. \A i \in IdProviders : call[g].applied[i] = None
    BY <2>1 DEF StagedIsFresh
  <2>3. Applied(call[g], RollbackRow(g)).applied = call[g].applied
    BY <2>1, LocalsKept
  <2> QED
    BY <1>0, <2>1, <2>2, <2>3 DEF StagedIsFresh
<1>5. (\E route \in {"betwin", "rollback"} : Replay(g, route)) \/ BetWinApply(g)
      \/ RollbackApply(g) \/ call'[g] = None
  BY DEF Step, ReplayPanics, BetWinTombstoned, BetWinLimited, BetWinInsufficient,
    BetWinCommit, RollbackCommit, Return, TypeOK
<1> QED
  BY <1>1, <1>2, <1>3, <1>4, <1>5

(* What the working copy of a BetWin holds is not stored, not barred, and  *)
(* part of its own batch.                                                  *)
THEOREM StagedStaysFresh == Spec => []StagedIsFresh
<1>1. Init => StagedIsFresh
  BY DEF Init, StagedIsFresh
<1>2. TypeOK /\ MutualExclusion /\ StagedIsFresh /\ [Next]_vars => StagedIsFresh'
  <2> SUFFICES ASSUME TypeOK, MutualExclusion, StagedIsFresh, [Next]_vars
               PROVE  StagedIsFresh'
    OBVIOUS
  <2>1. ASSUME NEW g \in Goroutines, Step(g) PROVE StagedIsFresh'
    BY <2>1, StepKeepsStaged
  <2>2. ASSUME NEW g \in Goroutines, NEW r \in BatchRequests, Enter(g, r) PROVE StagedIsFresh'
    <3>1. \A h \in Goroutines : call'[h] = IF h = g THEN Start(r) ELSE call[h]
      BY <2>2 DEF Enter, TypeOK
    <3>2. \A i \in IdProviders : Start(r).applied[i] = None
      BY DEF Start
    <3> QED
      BY <2>2, <3>1, <3>2 DEF Enter, ledger, StagedIsFresh, IdsOf
  <2>3. CASE Restart
    BY <2>3 DEF Restart, Restored, StagedIsFresh
  <2>4. CASE Quiet
    BY <2>4 DEF Quiet, StagedIsFresh, IdsOf
  <2> QED
    BY <2>1, <2>2, <2>3, <2>4, NextCases
<1> QED
  BY <1>1, <1>2, TypeCorrect, MutexExcludes, PTL DEF Spec
-----------------------------------------------------------------------------
(* Stored rows                                                             *)

RowsKept ==
    \A i \in IdProviders : transactions[i] # None => transactions'[i] = transactions[i]

(* A step of a call overwrites no stored row.                              *)
LEMMA StepKeepsRows ==
    ASSUME TypeOK, StagedIsFresh, NEW g \in Goroutines, Step(g)
    PROVE  RowsKept
<1>1. CASE BetWinCommit(g)
  BY <1>1 DEF BetWinCommit, AtEnd, StagedIsFresh, RowsKept
<1>2. CASE RollbackApply(g)
  <2>1. transactions[Tx(g).id] = None
    BY <1>2 DEF RollbackApply, Seen
  <2> QED
    BY <1>2, <2>1 DEF RollbackApply, TypeOK, RowsKept
<1>3. CASE transactions' = transactions
  BY <1>3 DEF RowsKept
<1>4. BetWinCommit(g) \/ RollbackApply(g) \/ transactions' = transactions
  BY DEF Step, Replay, ReplayPanics, BetWinTombstoned, BetWinLimited, BetWinInsufficient,
    BetWinApply, RollbackCommit, ledger
<1> QED
  BY <1>1, <1>2, <1>3, <1>4

(* No step of the program overwrites a stored row.                         *)
LEMMA NextKeepsRows ==
    ASSUME TypeOK, StagedIsFresh, [Next]_vars
    PROVE  RowsKept
<1>1. ASSUME NEW g \in Goroutines, Step(g) PROVE RowsKept
  BY <1>1, StepKeepsRows
<1>2. ASSUME NEW g \in Goroutines, NEW r, Enter(g, r) PROVE RowsKept
  BY <1>2 DEF Enter, ledger, RowsKept
<1>3. CASE Restart
  BY <1>3 DEF Restart, Restored, RowsKept
<1>4. CASE Quiet
  BY <1>4 DEF Quiet, RowsKept
<1> QED
  BY <1>1, <1>2, <1>3, <1>4, NextCases

(* A repeat can always be answered from the row of the first time: no      *)
(* handler and no restart overwrites a stored transaction.                 *)
THEOREM RowsNeverChange == Spec => RowsImmutable
<1>1. TypeOK /\ StagedIsFresh /\ [Next]_vars => [RowsKept]_vars
  BY NextKeepsRows
<1> QED
  BY <1>1, TypeCorrect, StagedStaysFresh, PTL DEF Spec, RowsImmutable, RowsKept

-----------------------------------------------------------------------------
(* Balances                                                                *)

(* NeverOverdrawn says nothing of the rows still in a working copy; those  *)
(* are tomorrow's stored rows.                                             *)
StagedNotOverdrawn ==
    \A g \in Goroutines : call[g] # None =>
       \A i \in IdProviders : call[g].applied[i] # None => call[g].applied[i].balanceAfter >= 0

(* A bet that is applied leaves a running balance that is not negative.    *)
LEMMA MovedIsCovered ==
    ASSUME TypeOK, NeverOverdrawn, NEW g \in Goroutines, BetWinApply(g)
    PROVE  Moved(g) \in Nat
<1>1. call[g] \in Locals /\ call[g].running >= 0 /\ Tx(g) \in BetWinTx
  BY CallIsTyped, BetWinTxIsTyped DEF BetWinApply, Fresh, AtTx, NeverOverdrawn
<1>2. call[g].running \in Nat /\ Tx(g).amount \in 1..MaxMoney
  BY <1>1 DEF Locals, BetWinTx
<1>3. Tx(g).amount \in Nat
  BY <1>2, AccountsAssumption
<1> QED
  BY <1>2, <1>3 DEF BetWinApply, Moved

(* A rollback leaves one that is not negative, by the clamp.               *)
LEMMA UndoneIsCovered ==
    ASSUME TypeOK, NeverOverdrawn, NEW g \in Goroutines, RollbackApply(g)
    PROVE  RollbackRow(g).balanceAfter \in Nat
<1>1. call[g] \in Locals /\ call[g].running >= 0 /\ Tx(g) \in RollbackTx
  BY CallIsTyped, RollbackTxIsTyped DEF RollbackApply, AtTx, NeverOverdrawn
<1>2. call[g].running \in Nat
  BY <1>1 DEF Locals
<1>3. ASSUME Reversible(Tx(g).original)
      PROVE  Undone(call[g].running, transactions[Tx(g).original]) \in Nat
  <2>1. transactions[Tx(g).original] \in StoredTransaction
    BY <1>1, <1>3 DEF Reversible, TypeOK, RollbackTx
  <2>2. transactions[Tx(g).original].amount \in Nat
    BY <2>1 DEF StoredTransaction
  <2> QED
    BY <1>2, <2>2 DEF Undone
<1> QED
  BY <1>2, <1>3 DEF RollbackRow

(* A step of a call makes no balance negative, whether stored, staged or   *)
(* running.                                                                *)
LEMMA StepNeverOverdraws ==
    ASSUME TypeOK, NeverOverdrawn, StagedNotOverdrawn, NEW g \in Goroutines, Step(g)
    PROVE  NeverOverdrawn' /\ StagedNotOverdrawn'
<1>0. \A h \in Goroutines \ {g} : call'[h] = call[h]
  BY StepMovesItsCall DEF StepShape
<1>1. ASSUME NEW route \in {"betwin", "rollback"}, Replay(g, route)
      PROVE  NeverOverdrawn' /\ StagedNotOverdrawn'
  <2>1. call[g] # None /\ call[g] \in Locals
        /\ call'[g] = Replayed(call[g], transactions[Tx(g).id])
    BY <1>1, CallIsTyped DEF Replay, AtTx, TypeOK
  <2>2. /\ Replayed(call[g], transactions[Tx(g).id]).applied = call[g].applied
        /\ Replayed(call[g], transactions[Tx(g).id]).running = call[g].running
    BY <2>1, LocalsKept
  <2>3. transactions' = transactions /\ balance' = balance
    BY <1>1 DEF Replay, ledger
  <2> QED
    BY <1>0, <2>1, <2>2, <2>3 DEF NeverOverdrawn, StagedNotOverdrawn
<1>2. CASE call'[g] = None /\ UNCHANGED <<transactions, balance>>
  BY <1>0, <1>2 DEF NeverOverdrawn, StagedNotOverdrawn
<1>3. CASE BetWinApply(g)
  <2>1. Moved(g) >= 0 /\ BetWinRow(g).balanceAfter = Moved(g)
    BY <1>3, MovedIsCovered DEF BetWinRow
  <2>2. call'[g].running >= 0
    BY <1>3, <2>1, BetWinApplyStages
  <2>3. \A i \in IdProviders : \/ call'[g].applied[i] = call[g].applied[i]
                               \/ call'[g].applied[i] = BetWinRow(g)
    BY <1>3, BetWinApplyStages
  <2>4. transactions' = transactions /\ balance' = balance /\ call[g] # None
    BY <1>3 DEF BetWinApply, Fresh, AtTx
  <2> QED
    BY <1>0, <2>1, <2>2, <2>3, <2>4 DEF NeverOverdrawn, StagedNotOverdrawn
<1>4. CASE BetWinCommit(g)
  <2>1. call[g] # None /\ call'[g] = None
    BY <1>4 DEF BetWinCommit, AtEnd, Return, TypeOK
  <2>2. \A a \in Accounts : balance'[a] >= 0
    BY <1>4, <2>1 DEF BetWinCommit, CommitBalance, NeverOverdrawn, TypeOK
  <2>3. \A i \in IdProviders : transactions'[i] # None => transactions'[i].balanceAfter >= 0
    BY <1>4, <2>1 DEF BetWinCommit, NeverOverdrawn, StagedNotOverdrawn
  <2> QED
    BY <1>0, <2>1, <2>2, <2>3 DEF NeverOverdrawn, StagedNotOverdrawn
<1>5. CASE RollbackApply(g)
  <2>1. call[g] # None /\ call[g] \in Locals /\ Tx(g).id \in IdProviders
        /\ call'[g] = Applied(call[g], RollbackRow(g))
    BY <1>5, CallIsTyped, RollbackTxIsTyped DEF RollbackApply, AtTx, TypeOK, RollbackTx
  <2>2. RollbackRow(g).balanceAfter >= 0
    BY <1>5, UndoneIsCovered
  <2>3. /\ Applied(call[g], RollbackRow(g)).applied = call[g].applied
        /\ Applied(call[g], RollbackRow(g)).running = RollbackRow(g).balanceAfter
    BY <2>1, LocalsKept
  <2>4. /\ balance' = balance
        /\ \A i \in IdProviders : \/ transactions'[i] = transactions[i]
                                  \/ transactions'[i] = RollbackRow(g)
    BY <1>5, <2>1 DEF RollbackApply, TypeOK
  <2> QED
    BY <1>0, <2>1, <2>2, <2>3, <2>4 DEF NeverOverdrawn, StagedNotOverdrawn
<1>6. CASE RollbackCommit(g)
  <2>1. call[g] # None /\ call'[g] = None /\ transactions' = transactions
    BY <1>6 DEF RollbackCommit, AtEnd, Return, TypeOK
  <2>2. \A a \in Accounts : balance'[a] >= 0
    BY <1>6, <2>1 DEF RollbackCommit, CommitBalance, NeverOverdrawn, TypeOK
  <2> QED
    BY <1>0, <2>1, <2>2 DEF NeverOverdrawn, StagedNotOverdrawn
<1>7. \/ \E route \in {"betwin", "rollback"} : Replay(g, route)
      \/ BetWinApply(g) \/ BetWinCommit(g) \/ RollbackApply(g) \/ RollbackCommit(g)
      \/ call'[g] = None /\ UNCHANGED <<transactions, balance>>
  BY DEF Step, ReplayPanics, BetWinTombstoned, BetWinLimited, BetWinInsufficient,
    Return, TypeOK, ledger
<1> QED
  BY <1>1, <1>2, <1>3, <1>4, <1>5, <1>6, <1>7

(* A freespins result makes none negative.                                 *)
LEMMA FreespinsNeverOverdraw ==
    ASSUME TypeOK, NeverOverdrawn, StagedNotOverdrawn,
           NEW r \in FinishRequests, FreespinsFinish(r)
    PROVE  NeverOverdrawn' /\ StagedNotOverdrawn'
<1>1. call' = call /\ transactions' = transactions
  BY DEF FreespinsFinish, FreespinsFinishUnknown, FreespinsFinishCanceled,
    FreespinsFinishNoAccount, FreespinsFinishUnreadable, FreespinsFinishReplay,
    FreespinsFinishCredit, FinishRefused, ledger
<1>2. \A a \in Accounts : balance'[a] >= 0
  <2>1. CASE FreespinsFinishCredit(r)
    <3>1. r.amount \in Nat
      BY RequestsAssumption, AccountsAssumption
    <3> QED
      BY <2>1, <3>1 DEF FreespinsFinishCredit, NeverOverdrawn, TypeOK
  <2> QED
    BY <2>1 DEF FreespinsFinish, FreespinsFinishUnknown, FreespinsFinishCanceled,
      FreespinsFinishNoAccount, FreespinsFinishUnreadable, FreespinsFinishReplay,
      FinishRefused, ledger, NeverOverdrawn
<1> QED
  BY <1>1, <1>2 DEF NeverOverdrawn, StagedNotOverdrawn

(* No order of bets, wins, rollbacks, freespins and restarts makes a       *)
(* balance negative, whether committed, stored with a row or being worked  *)
(* out.                                                                    *)
THEOREM BalancesCovered == Spec => []NeverOverdrawn
<1> DEFINE IInv == NeverOverdrawn /\ StagedNotOverdrawn
<1>1. Init => IInv
  BY AccountsAssumption DEF Init, NeverOverdrawn, StagedNotOverdrawn
<1>2. TypeOK /\ IInv /\ [Next]_vars => IInv'
  <2> SUFFICES ASSUME TypeOK, IInv, [Next]_vars PROVE IInv'
    OBVIOUS
  <2>1. ASSUME NEW g \in Goroutines, Step(g) PROVE IInv'
    BY <2>1, StepNeverOverdraws
  <2>2. ASSUME NEW g \in Goroutines, NEW r \in BatchRequests, Enter(g, r) PROVE IInv'
    <3>1. \A h \in Goroutines : call'[h] = IF h = g THEN Start(r) ELSE call[h]
      BY <2>2 DEF Enter, TypeOK
    <3>2. /\ \A i \in IdProviders : Start(r).applied[i] = None
          /\ Start(r).running = balance[r.account]
      BY DEF Start
    <3> QED
      BY <2>2, <3>1, <3>2 DEF Enter, ledger, NeverOverdrawn, StagedNotOverdrawn
  <2>3. ASSUME NEW r \in FinishRequests, FreespinsFinish(r) PROVE IInv'
    BY <2>3, FreespinsNeverOverdraw
  <2>4. ASSUME NEW r, UnknownAccount(r) \/ Balance(r) \/ Finish(r) PROVE IInv'
    BY <2>4 DEF UnknownAccount, Balance, Finish, ReadAccount, ledger, NeverOverdrawn, StagedNotOverdrawn
  <2>5. ASSUME NEW i \in Issues, RecordFreespinsIssue(i) \/ CancelFreespinsIssue(i) PROVE IInv'
    BY <2>5 DEF RecordFreespinsIssue, CancelFreespinsIssue, NeverOverdrawn, StagedNotOverdrawn
  <2>6. CASE Restart
    BY <2>6 DEF Restart, Restored, NeverOverdrawn, StagedNotOverdrawn
  <2>7. CASE UNCHANGED vars
    BY <2>7 DEF vars, ledger, NeverOverdrawn, StagedNotOverdrawn
  <2> QED
    BY <2>1, <2>2, <2>3, <2>4, <2>5, <2>6, <2>7 DEF Next
<1> QED
  BY <1>1, <1>2, TypeCorrect, PTL DEF Spec
-----------------------------------------------------------------------------
(* Rollbacks and tombstones                                                *)

(* A stored bet or win that carries a tombstone was reversed by the        *)
(* rollback that left it.                                                  *)
TombstonedReversed == \A i \in tombstones : Reversible(i) => IsReversed(i)

(* The transactions of rollbacks have their type.                          *)
LEMMA RollbackTxsTyped == \A t \in RollbackTxs : t \in RollbackTx
<1> SUFFICES ASSUME NEW r \in RollbackRequests, NEW k \in DOMAIN r.transactions
             PROVE  r.transactions[k] \in RollbackTx
  BY DEF RollbackTxs
<1>1. r.transactions \in Seq(RollbackTx)
  BY RequestsAssumption
<1> QED
  BY <1>1

(* What is reversed stays so while rows are kept.                          *)
LEMMA ReversedStays ==
    ASSUME RowsKept, NEW i, IsReversed(i)
    PROVE  IsReversed(i)'
BY RollbackTxsTyped DEF RowsKept, IsReversed, Reverses, RollbackTx

(* A step of a call stores nothing that is barred, and reverses what it    *)
(* bars.                                                                   *)
LEMMA StepKeepsTombstonedReversed ==
    ASSUME TypeOK, StagedIsFresh, TombstonedReversed, NEW g \in Goroutines, Step(g)
    PROVE  TombstonedReversed'
<1>0. RowsKept
  BY StepKeepsRows
<1>1. CASE RollbackApply(g)
  <2>1. /\ Tx(g) \in RollbackTxs /\ Tx(g).id \in IdProviders
        /\ Tx(g).original \in IdProviders
    BY <1>1, RollbackTxIsTyped DEF RollbackApply, RollbackTx
  <2>2. /\ transactions'[Tx(g).id] = RollbackRow(g)
        /\ \A i \in IdProviders \ {Tx(g).id} : transactions'[i] = transactions[i]
        /\ tombstones' = tombstones \cup {Tx(g).original}
    BY <1>1, <2>1 DEF RollbackApply, TypeOK
  <2>3. RollbackRow(g).type = ""
    BY DEF RollbackRow
  <2>4. ASSUME NEW i \in tombstones', Reversible(i)' PROVE IsReversed(i)'
    <3>1. i # Tx(g).id /\ i \in IdProviders
      BY <2>1, <2>2, <2>3, <2>4 DEF Reversible, TypeOK
    <3>2. Reversible(i)
      BY <2>2, <2>4, <3>1 DEF Reversible
    <3>3. CASE i \in tombstones
      BY <1>0, <3>2, <3>3, ReversedStays DEF TombstonedReversed
    <3>4. CASE i = Tx(g).original
      <4>1. RollbackRow(g).id = nextTx /\ nextTx # 0
        BY <3>2, <3>4 DEF RollbackRow, TypeOK
      <4>2. RollbackRow(g) \in StoredTransaction
        BY <1>1, RollbackRowIsTyped DEF RollbackApply
      <4>3. RollbackRow(g) # None
        BY <4>2, NoneAssumption
      <4> QED
        BY <2>1, <2>2, <3>4, <4>1, <4>3 DEF IsReversed, Reverses
    <3> QED
      BY <2>2, <2>4, <3>3, <3>4
  <2> QED
    BY <2>4 DEF TombstonedReversed
<1>2. CASE BetWinCommit(g)
  <2>1. tombstones' = tombstones /\ call[g] # None
    BY <1>2 DEF BetWinCommit, AtEnd
  <2>2. \A i \in IdProviders : i \in tombstones => transactions'[i] = transactions[i]
    BY <1>2, <2>1 DEF BetWinCommit, StagedIsFresh
  <2> QED
    BY <1>0, <2>1, <2>2, ReversedStays DEF TombstonedReversed, Reversible, TypeOK
<1>3. CASE UNCHANGED <<transactions, tombstones>>
  BY <1>0, <1>3, ReversedStays DEF TombstonedReversed, Reversible
<1>4. BetWinCommit(g) \/ RollbackApply(g) \/ UNCHANGED <<transactions, tombstones>>
  BY DEF Step, Replay, ReplayPanics, BetWinTombstoned, BetWinLimited, BetWinInsufficient,
    BetWinApply, RollbackCommit, ledger
<1> QED
  BY <1>1, <1>2, <1>3, <1>4

(* The rule of the tombstone, with no discipline asked of the platform:    *)
(* a transaction that carries one is reversed or was never applied.        *)
THEOREM TombstoneBars == Spec => []TombstonedReversed
<1>1. Init => TombstonedReversed
  BY DEF Init, TombstonedReversed
<1>2. TypeOK /\ StagedIsFresh /\ TombstonedReversed /\ [Next]_vars => TombstonedReversed'
  <2> SUFFICES ASSUME TypeOK, StagedIsFresh, TombstonedReversed, [Next]_vars
               PROVE  TombstonedReversed'
    OBVIOUS
  <2>1. ASSUME NEW g \in Goroutines, Step(g) PROVE TombstonedReversed'
    BY <2>1, StepKeepsTombstonedReversed
  <2>2. CASE UNCHANGED <<transactions, tombstones>>
    BY <2>2 DEF TombstonedReversed, Reversible, IsReversed, Reverses
  <2>3. ASSUME NEW g, NEW r, Enter(g, r) PROVE UNCHANGED <<transactions, tombstones>>
    BY <2>3 DEF Enter, ledger
  <2>4. Restart => UNCHANGED <<transactions, tombstones>>
    BY DEF Restart, Restored, TypeOK
  <2> QED
    BY <2>1, <2>2, <2>3, <2>4, NextCases DEF Quiet
<1> QED
  BY <1>1, <1>2, TypeCorrect, StagedStaysFresh, PTL DEF Spec

(* What a rollback leaves: its own row never without the tombstone.        *)
RollbackLeavesTombstone ==
    \A t \in RollbackTxs : transactions[t.id] # None => t.original \in tombstones

(* A step of a call stores no rollback without its tombstone.              *)
LEMMA StepLeavesTombstone ==
    ASSUME RollbackIdsUnique, TypeOK, StagedIsFresh, RollbackLeavesTombstone,
           NEW g \in Goroutines, Step(g)
    PROVE  RollbackLeavesTombstone'
<1>1. CASE RollbackApply(g)
  <2>1. Tx(g) \in RollbackTxs
    BY <1>1, RollbackTxIsTyped DEF RollbackApply
  <2>2. /\ \A i \in IdProviders \ {Tx(g).id} : transactions'[i] = transactions[i]
        /\ tombstones' = tombstones \cup {Tx(g).original}
    BY <1>1 DEF RollbackApply, TypeOK
  <2>3. \A t \in RollbackTxs : t.id = Tx(g).id => t = Tx(g)
    BY <2>1 DEF RollbackIdsUnique
  <2> QED
    BY <2>1, <2>2, <2>3, RollbackTxsTyped DEF RollbackLeavesTombstone, RollbackTx
<1>2. CASE BetWinCommit(g)
  <2>1. call[g] # None /\ call[g].request \in BetWinRequests
    BY <1>2, CallIsTyped, RequestsAssumption DEF BetWinCommit, AtEnd, BatchRequests
  <2>2. \A t \in RollbackTxs : t.id \in IdProviders /\ t.id \notin IdsOf(call[g].request)
    BY <2>1, RollbackTxsTyped DEF RollbackIdsUnique, RollbackTx
  <2>3. \A t \in RollbackTxs : call[g].applied[t.id] = None
    BY <2>1, <2>2 DEF StagedIsFresh
  <2> QED
    BY <1>2, <2>2, <2>3 DEF BetWinCommit, RollbackLeavesTombstone
<1>3. CASE UNCHANGED <<transactions, tombstones>>
  BY <1>3 DEF RollbackLeavesTombstone
<1>4. BetWinCommit(g) \/ RollbackApply(g) \/ UNCHANGED <<transactions, tombstones>>
  BY DEF Step, Replay, ReplayPanics, BetWinTombstoned, BetWinLimited, BetWinInsufficient,
    BetWinApply, RollbackCommit, ledger
<1> QED
  BY <1>1, <1>2, <1>3, <1>4

(* If rollbacks keep their id_providers to themselves, a rollback that was *)
(* answered has undone its original for good, whichever came first.        *)
THEOREM RollbacksHold ==
    ASSUME RollbackIdsUnique
    PROVE  Spec => []RolledBackHasNoEffect
<1>1. Init => RollbackLeavesTombstone
  BY RollbackTxsTyped DEF Init, RollbackLeavesTombstone, RollbackTx
<1>2. TypeOK /\ StagedIsFresh /\ RollbackLeavesTombstone /\ [Next]_vars
      => RollbackLeavesTombstone'
  <2> SUFFICES ASSUME TypeOK, StagedIsFresh, RollbackLeavesTombstone, [Next]_vars
               PROVE  RollbackLeavesTombstone'
    OBVIOUS
  <2>1. ASSUME NEW g \in Goroutines, Step(g) PROVE RollbackLeavesTombstone'
    BY <2>1, StepLeavesTombstone
  <2>2. CASE UNCHANGED <<transactions, tombstones>>
    BY <2>2 DEF RollbackLeavesTombstone
  <2>3. ASSUME NEW g, NEW r, Enter(g, r) PROVE UNCHANGED <<transactions, tombstones>>
    BY <2>3 DEF Enter, ledger
  <2>4. Restart => UNCHANGED <<transactions, tombstones>>
    BY DEF Restart, Restored, TypeOK
  <2> QED
    BY <2>1, <2>2, <2>3, <2>4, NextCases DEF Quiet
<1>3. RollbackLeavesTombstone /\ TombstonedReversed => RolledBackHasNoEffect
  BY DEF RollbackLeavesTombstone, TombstonedReversed, RolledBackHasNoEffect
<1> QED
  BY <1>1, <1>2, <1>3, TypeCorrect, StagedStaysFresh, TombstoneBars, PTL DEF Spec
-----------------------------------------------------------------------------
(* Own transaction ids                                                     *)

(* The ids in a working copy are taken already, and by nobody else. *)
StagedIdsUnique ==
    \A g \in Goroutines : call[g] # None =>
       \A i \in IdProviders : call[g].applied[i] # None =>
          /\ call[g].applied[i].id \in 1..(nextTx - 1)
          /\ \A j \in IdProviders : transactions[j] # None =>
                transactions[j].id # call[g].applied[i].id
          /\ \A j \in IdProviders :
                call[g].applied[j] # None /\ call[g].applied[j].id = call[g].applied[i].id
                => i = j

OwnIdsInv == OwnIdsUnique /\ StagedIdsUnique

(* A step of a call gives out own ids that nobody has.                     *)
LEMMA StepKeepsOwnIds ==
    ASSUME TypeOK, MutualExclusion, StagedIsFresh, OwnIdsInv,
           NEW g \in Goroutines, Step(g)
    PROVE  OwnIdsInv'
<1>0. \A h \in Goroutines \ {g} : call'[h] = None
  BY OthersOutside
<1>1. ASSUME NEW route \in {"betwin", "rollback"}, Replay(g, route) PROVE OwnIdsInv'
  <2>1. call[g] # None /\ call[g] \in Locals
        /\ call'[g] = Replayed(call[g], transactions[Tx(g).id])
    BY <1>1, CallIsTyped DEF Replay, AtTx, TypeOK
  <2>2. Replayed(call[g], transactions[Tx(g).id]).applied = call[g].applied
    BY <2>1, LocalsKept
  <2>3. transactions' = transactions /\ nextTx' = nextTx
    BY <1>1 DEF Replay, ledger
  <2> QED
    BY <1>0, <2>1, <2>2, <2>3 DEF OwnIdsInv, OwnIdsUnique, StagedIdsUnique
<1>2. CASE call'[g] = None /\ UNCHANGED <<transactions, nextTx>>
  BY <1>0, <1>2 DEF OwnIdsInv, OwnIdsUnique, StagedIdsUnique
<1>3. CASE BetWinApply(g)
  <2>1. /\ transactions' = transactions /\ nextTx' = nextTx + 1 /\ call[g] # None
        /\ nextTx \in Nat \ {0}
    BY <1>3 DEF BetWinApply, Fresh, AtTx, TypeOK
  <2>2. /\ \A i \in IdProviders \ {Tx(g).id} : call'[g].applied[i] = call[g].applied[i]
        /\ Tx(g).id \in IdProviders => call'[g].applied[Tx(g).id] = BetWinRow(g)
    BY <1>3, BetWinApplyStages
  <2>3. BetWinRow(g).id = nextTx
    BY DEF BetWinRow
  <2>4. \A i \in IdProviders : transactions[i] # None => transactions[i].id \in Nat
    BY DEF TypeOK, StoredTransaction
  <2>5. \A i \in IdProviders : transactions[i] # None => transactions[i].id < nextTx
    BY <2>1, <2>4 DEF OwnIdsInv, OwnIdsUnique
  <2>6. OwnIdsUnique'
    BY <2>1, <2>4, <2>5 DEF OwnIdsInv, OwnIdsUnique
  <2>7. \A i \in IdProviders : call[g].applied[i] # None =>
           call[g].applied[i].id \in 1..(nextTx - 1)
    BY <2>1 DEF OwnIdsInv, StagedIdsUnique
  <2>8. ASSUME NEW i \in IdProviders, call'[g].applied[i] # None
        PROVE  /\ call'[g].applied[i].id \in 1..nextTx
               /\ \A j \in IdProviders : transactions[j] # None =>
                     transactions[j].id # call'[g].applied[i].id
    BY <2>1, <2>2, <2>3, <2>5, <2>7, <2>8 DEF OwnIdsInv, StagedIdsUnique
  <2>9. ASSUME NEW i \in IdProviders, NEW j \in IdProviders,
               call'[g].applied[i] # None, call'[g].applied[j] # None,
               call'[g].applied[i].id = call'[g].applied[j].id
        PROVE  i = j
    BY <2>1, <2>2, <2>3, <2>7, <2>9 DEF OwnIdsInv, StagedIdsUnique
  <2>10. nextTx' - 1 = nextTx
    BY <2>1
  <2>11. StagedIdsUnique'
    BY <1>0, <2>1, <2>8, <2>9, <2>10 DEF StagedIdsUnique
  <2> QED
    BY <2>6, <2>11 DEF OwnIdsInv
<1>4. CASE BetWinCommit(g)
  <2>1. call[g] # None /\ call'[g] = None /\ nextTx' = nextTx /\ nextTx \in Nat
    BY <1>4 DEF BetWinCommit, AtEnd, Return, TypeOK
  <2>2. StagedIdsUnique'
    BY <1>0, <2>1 DEF StagedIdsUnique
  <2>3. \A i \in IdProviders : transactions'[i] =
           IF call[g].applied[i] # None THEN call[g].applied[i] ELSE transactions[i]
    BY <1>4 DEF BetWinCommit
  <2>4. OwnIdsUnique'
    BY <2>1, <2>3 DEF OwnIdsInv, OwnIdsUnique, StagedIdsUnique
  <2> QED
    BY <2>2, <2>4 DEF OwnIdsInv
<1>5. CASE RollbackApply(g)
  <2>1. call[g] # None /\ call[g] \in Locals /\ call[g].request.route = "rollback"
        /\ call'[g] = Applied(call[g], RollbackRow(g))
    BY <1>5, CallIsTyped DEF RollbackApply, AtTx, TypeOK
  <2>2. \A i \in IdProviders : call[g].applied[i] = None
    BY <2>1 DEF StagedIsFresh
  <2>3. Applied(call[g], RollbackRow(g)).applied = call[g].applied
    BY <2>1, LocalsKept
  <2>4. StagedIdsUnique'
    BY <1>0, <2>1, <2>2, <2>3 DEF StagedIdsUnique
  <2>5. /\ nextTx \in Nat \ {0}
        /\ nextTx' = IF Reversible(Tx(g).original) THEN nextTx + 1 ELSE nextTx
        /\ RollbackRow(g).id = IF Reversible(Tx(g).original) THEN nextTx ELSE 0
    BY <1>5 DEF RollbackApply, RollbackRow, TypeOK
  <2>6. \A i \in IdProviders \ {Tx(g).id} : transactions'[i] = transactions[i]
    BY <1>5 DEF RollbackApply, TypeOK
  <2>7. Tx(g).id \in IdProviders /\ transactions'[Tx(g).id] = RollbackRow(g)
    BY <1>5, RollbackTxIsTyped DEF RollbackApply, TypeOK, RollbackTx
  <2>8. \A i \in IdProviders : transactions[i] # None => transactions[i].id \in Nat
    BY DEF TypeOK, StoredTransaction
  <2>9. OwnIdsUnique'
    BY <2>5, <2>6, <2>7, <2>8 DEF OwnIdsInv, OwnIdsUnique
  <2> QED
    BY <2>4, <2>9 DEF OwnIdsInv
<1>6. \/ \E route \in {"betwin", "rollback"} : Replay(g, route)
      \/ BetWinApply(g) \/ BetWinCommit(g) \/ RollbackApply(g)
      \/ call'[g] = None /\ UNCHANGED <<transactions, nextTx>>
  BY DEF Step, ReplayPanics, BetWinTombstoned, BetWinLimited, BetWinInsufficient,
    RollbackCommit, Return, TypeOK, ledger
<1> QED
  BY <1>1, <1>2, <1>3, <1>4, <1>5, <1>6

(* A restart continues behind the largest own id stored.                   *)
LEMMA RestartKeepsOwnIds ==
    ASSUME TypeOK, OwnIdsInv, Restart
    PROVE  OwnIdsInv'
<1>1. /\ transactions' = transactions
      /\ \A g \in Goroutines : call'[g] = None
  BY DEF Restart, Restored, TypeOK
<1>2. \A i \in IdProviders : transactions[i] # None => transactions[i].id < nextTx'
  BY DEF Restart, ContinueTxIds
<1> QED
  BY <1>1, <1>2 DEF OwnIdsInv, OwnIdsUnique, StagedIdsUnique

(* Own transaction ids stay unique through refused batches, which use some *)
(* up, and through restarts, which continue after the largest one stored.  *)
THEOREM OwnIdsStayUnique == Spec => []OwnIdsUnique
<1>1. Init => OwnIdsInv
  BY DEF Init, OwnIdsInv, OwnIdsUnique, StagedIdsUnique
<1>2. TypeOK /\ MutualExclusion /\ StagedIsFresh /\ OwnIdsInv /\ [Next]_vars => OwnIdsInv'
  <2> SUFFICES ASSUME TypeOK, MutualExclusion, StagedIsFresh, OwnIdsInv, [Next]_vars
               PROVE  OwnIdsInv'
    OBVIOUS
  <2>1. ASSUME NEW g \in Goroutines, Step(g) PROVE OwnIdsInv'
    BY <2>1, StepKeepsOwnIds
  <2>2. ASSUME NEW g \in Goroutines, NEW r \in BatchRequests, Enter(g, r) PROVE OwnIdsInv'
    <3>1. \A h \in Goroutines : call'[h] = IF h = g THEN Start(r) ELSE call[h]
      BY <2>2 DEF Enter, TypeOK
    <3>2. \A i \in IdProviders : Start(r).applied[i] = None
      BY DEF Start
    <3>3. transactions' = transactions /\ nextTx' = nextTx
      BY <2>2 DEF Enter, ledger
    <3> QED
      BY <3>1, <3>2, <3>3 DEF OwnIdsInv, OwnIdsUnique, StagedIdsUnique
  <2>3. CASE Restart
    BY <2>3, RestartKeepsOwnIds
  <2>4. CASE Quiet
    BY <2>4 DEF Quiet, OwnIdsInv, OwnIdsUnique, StagedIdsUnique
  <2> QED
    BY <2>1, <2>2, <2>3, <2>4, NextCases
<1>3. OwnIdsInv => OwnIdsUnique
  BY DEF OwnIdsInv
<1> QED
  BY <1>1, <1>2, <1>3, TypeCorrect, MutexExcludes, StagedStaysFresh, PTL DEF Spec
=============================================================================
