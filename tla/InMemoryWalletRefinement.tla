----------------------- MODULE InMemoryWalletRefinement -----------------------
(* InMemoryWallet implements WalletContract, for every value of the        *)
(* constants under which rollbacks keep their id_providers to themselves.  *)
EXTENDS InMemoryWalletProofs

(* A row of a bet or win says so, one of a rollback moved nothing. *)
RowKinds ==
    /\ \A r \in BetWinRequests : \A i \in IdsOf(r) :
          transactions[i] # None => transactions[i].type \in {"bet", "win"}
    /\ \A t \in RollbackTxs : transactions[t.id] # None => transactions[t.id].type = ""

StagedKinds ==
    \A g \in Goroutines : call[g] # None =>
       \A i \in IdProviders :
          call[g].applied[i] # None => call[g].applied[i].type \in {"bet", "win"}

(* What a call has walked past is stored, or staged to be. *)
Walked ==
    \A g \in Goroutines : call[g] # None =>
       \A k \in DOMAIN Batch(g) : k < call[g].next =>
          \/ transactions[Batch(g)[k].id] # None
          \/ call[g].applied[Batch(g)[k].id] # None

Progress == RowKinds /\ StagedKinds /\ Walked

(* The ids and transactions of requests have their types.                  *)
LEMMA IdsOfTyped ==
    /\ \A r \in BatchRequests : IdsOf(r) \subseteq IdProviders
    /\ \A r \in RollbackRequests : \A k \in DOMAIN r.transactions :
          r.transactions[k] \in RollbackTxs
<1>1. ASSUME NEW r \in BetWinRequests, NEW k \in DOMAIN r.transactions
      PROVE  r.transactions[k].id \in IdProviders
  <2>1. r.transactions \in Seq(BetWinTx)
    BY RequestsAssumption
  <2>2. r.transactions[k] \in BetWinTx
    BY <2>1
  <2> QED
    BY <2>2 DEF BetWinTx
<1>2. ASSUME NEW r \in RollbackRequests, NEW k \in DOMAIN r.transactions
      PROVE  r.transactions[k].id \in IdProviders /\ r.transactions[k] \in RollbackTxs
  <2>1. r.transactions[k] \in RollbackTxs
    BY DEF RollbackTxs
  <2> QED
    BY <2>1, RollbackTxsTyped DEF RollbackTx
<1> QED
  BY <1>1, <1>2 DEF IdsOf, BatchRequests

(* So have those of the batch a call is walking through.                   *)
LEMMA WalkTyped ==
    ASSUME TypeOK, NEW g \in Goroutines, call[g] # None
    PROVE  /\ call[g].next \in Nat
           /\ \A k \in DOMAIN Batch(g) : k \in Nat /\ Batch(g)[k].id \in IdProviders
<1>1. call[g].request \in BatchRequests /\ call[g].next \in Nat
  BY CallIsTyped
<1>2. DOMAIN Batch(g) \subseteq Nat
  BY <1>1, RequestsAssumption DEF Batch, BatchRequests
<1> QED
  BY <1>1, <1>2, IdsOfTyped DEF IdsOf, Batch

(* How a step of g leaves the part of the batch behind it. *)
LEMMA StepKeepsProgress ==
    ASSUME RollbackIdsUnique, TypeOK, MutualExclusion, StagedIsFresh, Progress,
           NEW g \in Goroutines, Step(g)
    PROVE  Progress'
<1>0. \A h \in Goroutines \ {g} : call'[h] = None
  BY OthersOutside
<1>a. RowsKept
  BY StepKeepsRows
<1>1. ASSUME NEW route \in {"betwin", "rollback"}, Replay(g, route) PROVE Progress'
  <2>1. /\ call[g] # None /\ call[g] \in Locals
        /\ call'[g] = Replayed(call[g], transactions[Tx(g).id])
        /\ transactions' = transactions
        /\ transactions[Tx(g).id] # None
    BY <1>1, CallIsTyped DEF Replay, AtTx, TypeOK, Seen, ledger
  <2>2. /\ call'[g].applied = call[g].applied
        /\ call'[g].request = call[g].request
        /\ call'[g].next = call[g].next + 1
    BY <2>1, LocalsKept DEF Replayed, Locals
  <2>3. RowKinds'
    BY <2>1 DEF Progress, RowKinds, IdsOf, RollbackTxs
  <2>6. StagedKinds'
    BY <1>0, <2>1, <2>2 DEF Progress, StagedKinds
  <2>4. ASSUME NEW k \in DOMAIN Batch(g), k < call[g].next + 1
        PROVE  \/ transactions[Batch(g)[k].id] # None
               \/ call[g].applied[Batch(g)[k].id] # None
    <3>1. k \in Nat /\ call[g].next \in Nat
      BY <2>1, WalkTyped
    <3>2. k < call[g].next \/ k = call[g].next
      BY <2>4, <3>1
    <3> QED
      BY <2>1, <3>2 DEF Progress, Walked, Tx
  <2>5. Walked'
    BY <1>0, <2>1, <2>2, <2>4 DEF Walked, Batch
  <2> QED
    BY <2>3, <2>5, <2>6 DEF Progress
<1>2. CASE BetWinApply(g)
  <2>1. /\ call[g] # None /\ call[g] \in Locals
        /\ transactions' = transactions
        /\ Tx(g).id \in IdProviders /\ Tx(g).type \in {"bet", "win"}
        /\ BetWinRow(g) # None
    BY <1>2, CallIsTyped, BetWinTxIsTyped, BetWinRowIsTyped, NoneAssumption
    DEF BetWinApply, Fresh, AtTx, BetWinTx
  <2>2. /\ call'[g].applied = [call[g].applied EXCEPT ![Tx(g).id] = BetWinRow(g)]
        /\ call[g].applied \in [IdProviders -> StoredTransaction \cup {None}]
        /\ call'[g].request = call[g].request
    BY <1>2, BetWinApplyStages
  <2>3. call'[g].next = call[g].next + 1
    <3>1. call'[g] = [Applied(call[g], BetWinRow(g)) EXCEPT
                        !.applied = [call[g].applied EXCEPT ![Tx(g).id] = BetWinRow(g)]]
      BY <1>2 DEF BetWinApply, TypeOK
    <3> QED
      BY <2>1, <3>1 DEF Applied, Locals
  <2>4. RowKinds'
    BY <2>1 DEF Progress, RowKinds, IdsOf, RollbackTxs
  <2>5. StagedKinds'
    <3>1. BetWinRow(g).type = Tx(g).type
      BY DEF BetWinRow
    <3> QED
      BY <1>0, <2>1, <2>2, <3>1 DEF Progress, StagedKinds
  <2>6. ASSUME NEW k \in DOMAIN Batch(g), k < call[g].next + 1
        PROVE  \/ transactions[Batch(g)[k].id] # None
               \/ call'[g].applied[Batch(g)[k].id] # None
    <3>1. k \in Nat /\ call[g].next \in Nat
      BY <2>1, WalkTyped
    <3>2. k < call[g].next \/ k = call[g].next
      BY <2>6, <3>1
    <3>3. Batch(g)[k].id \in IdProviders
      BY <2>1, WalkTyped
    <3>4. CASE k = call[g].next
      BY <2>1, <2>2, <3>4 DEF Tx
    <3>5. CASE k < call[g].next
      BY <2>1, <2>2, <3>3, <3>5 DEF Progress, Walked
    <3> QED
      BY <3>2, <3>4, <3>5
  <2>7. Batch(g)' = Batch(g)
    BY <2>2 DEF Batch
  <2>8. Walked'
    BY <1>0, <2>1, <2>3, <2>6, <2>7 DEF Walked
  <2> QED
    BY <2>4, <2>5, <2>8 DEF Progress
<1>3. CASE RollbackApply(g)
  <2>1. /\ call[g] # None /\ call[g] \in Locals
        /\ call'[g] = Applied(call[g], RollbackRow(g))
        /\ Tx(g) \in RollbackTxs /\ Tx(g).id \in IdProviders
        /\ RollbackRow(g) # None /\ RollbackRow(g).type = ""
    <3>1. call[g] # None /\ call[g] \in Locals /\ call'[g] = Applied(call[g], RollbackRow(g))
      BY <1>3, CallIsTyped DEF RollbackApply, AtTx, TypeOK
    <3>2. Tx(g) \in RollbackTxs /\ Tx(g).id \in IdProviders
      BY <1>3, RollbackTxIsTyped DEF RollbackApply, RollbackTx
    <3>3. RollbackRow(g) # None /\ RollbackRow(g).type = ""
      BY <1>3, RollbackRowIsTyped, NoneAssumption DEF RollbackApply, RollbackRow
    <3> QED
      BY <3>1, <3>2, <3>3
  <2>2. /\ call'[g].applied = call[g].applied
        /\ call'[g].request = call[g].request
        /\ call'[g].next = call[g].next + 1
    BY <2>1, LocalsKept DEF Applied, Locals
  <2>3. transactions' = [transactions EXCEPT ![Tx(g).id] = RollbackRow(g)]
    BY <1>3 DEF RollbackApply
  <2>4. RowKinds'
    <3>0. \A r \in BetWinRequests : Tx(g).id \notin IdsOf(r) /\ IdsOf(r) \subseteq IdProviders
      BY <2>1, IdsOfTyped DEF RollbackIdsUnique, BatchRequests
    <3>1. \A r \in BetWinRequests : \A i \in IdsOf(r) : i # Tx(g).id /\ i \in IdProviders
      BY <3>0
    <3>2. \A r \in BetWinRequests : \A i \in IdsOf(r) : transactions'[i] = transactions[i]
      BY <2>3, <3>1 DEF TypeOK
    <3>3. \A t \in RollbackTxs : transactions'[t.id] = transactions[t.id]
                                \/ transactions'[t.id].type = ""
      BY <2>1, <2>3, RollbackTxsTyped DEF TypeOK, RollbackTx
    <3> QED
      BY <3>2, <3>3 DEF Progress, RowKinds, IdsOf, RollbackTxs
  <2>5. StagedKinds'
    BY <1>0, <2>1, <2>2 DEF Progress, StagedKinds
  <2>6. ASSUME NEW k \in DOMAIN Batch(g), k < call[g].next + 1
        PROVE  \/ transactions'[Batch(g)[k].id] # None
               \/ call[g].applied[Batch(g)[k].id] # None
    <3>1. k \in Nat /\ call[g].next \in Nat
      BY <2>1, WalkTyped
    <3>2. k < call[g].next \/ k = call[g].next
      BY <2>6, <3>1
    <3>3. Batch(g)[k].id \in IdProviders
      BY <2>1, WalkTyped
    <3>4. CASE k = call[g].next
      BY <2>1, <2>3, <3>4 DEF Tx, TypeOK
    <3>5. CASE k < call[g].next
      BY <1>a, <2>1, <3>3, <3>5 DEF Progress, Walked, RowsKept
    <3> QED
      BY <3>2, <3>4, <3>5
  <2>7. Walked'
    BY <1>0, <2>1, <2>2, <2>6 DEF Walked, Batch
  <2> QED
    BY <2>4, <2>5, <2>7 DEF Progress
<1>4. CASE BetWinCommit(g)
  <2>1. call'[g] = None
    BY <1>4 DEF BetWinCommit, Return, TypeOK
  <2>2. call[g] # None /\ call[g].request \in BetWinRequests
    BY <1>4, CallIsTyped, RequestsAssumption DEF BetWinCommit, AtEnd, BatchRequests
  <2>3. transactions' = [i \in IdProviders |-> IF call[g].applied[i] # None
                           THEN call[g].applied[i] ELSE transactions[i]]
    BY <1>4 DEF BetWinCommit
  <2>4. \A t \in RollbackTxs : transactions'[t.id] = transactions[t.id]
    <3>1. \A t \in RollbackTxs : t.id \in IdProviders /\ t.id \notin IdsOf(call[g].request)
      BY <2>2, RollbackTxsTyped DEF RollbackIdsUnique, RollbackTx
    <3> QED
      BY <2>2, <2>3, <3>1 DEF StagedIsFresh
  <2>5. \A r \in BetWinRequests : \A i \in IdsOf(r) :
           transactions'[i] # None => transactions'[i].type \in {"bet", "win"}
    <3>1. \A r \in BetWinRequests : \A i \in IdsOf(r) : i \in IdProviders
      BY IdsOfTyped DEF BatchRequests
    <3> QED
      BY <2>2, <2>3, <3>1 DEF Progress, RowKinds, StagedKinds
  <2>6. RowKinds'
    BY <2>4, <2>5 DEF Progress, RowKinds, IdsOf, RollbackTxs
  <2> QED
    BY <1>0, <2>1, <2>6 DEF Progress, StagedKinds, Walked
<1>5. CASE call'[g] = None /\ transactions' = transactions
  <2>1. RowKinds'
    BY <1>5 DEF Progress, RowKinds, IdsOf, RollbackTxs
  <2> QED
    BY <1>0, <1>5, <2>1 DEF Progress, StagedKinds, Walked
<1>6. (\E route \in {"betwin", "rollback"} : Replay(g, route)) \/ BetWinApply(g)
      \/ RollbackApply(g) \/ BetWinCommit(g)
      \/ (call'[g] = None /\ transactions' = transactions)
  BY DEF Step, ReplayPanics, BetWinTombstoned, BetWinLimited, BetWinInsufficient,
    RollbackCommit, Return, TypeOK, ledger
<1> QED
  BY <1>1, <1>2, <1>3, <1>4, <1>5, <1>6

(* Rows say which route stored them, and whoever walked past a transaction *)
(* has it stored or staged.                                                *)
THEOREM ProgressKept ==
    ASSUME RollbackIdsUnique
    PROVE  Spec => []Progress
<1>1. Init => Progress
  <2>1. \A r \in BetWinRequests : IdsOf(r) \subseteq IdProviders
    BY IdsOfTyped DEF BatchRequests
  <2>2. \A t \in RollbackTxs : t.id \in IdProviders
    BY RollbackTxsTyped DEF RollbackTx
  <2> QED
    BY <2>1, <2>2 DEF Init, Progress, RowKinds, StagedKinds, Walked
<1>2. TypeOK /\ MutualExclusion /\ StagedIsFresh /\ Progress /\ [Next]_vars => Progress'
  <2> SUFFICES ASSUME TypeOK, MutualExclusion, StagedIsFresh, Progress, [Next]_vars
               PROVE  Progress'
    OBVIOUS
  <2>1. ASSUME NEW g \in Goroutines, Step(g) PROVE Progress'
    BY <2>1, StepKeepsProgress
  <2>2. transactions' = transactions => RowKinds'
    BY DEF Progress, RowKinds, IdsOf, RollbackTxs
  <2>3. ASSUME NEW g \in Goroutines, NEW r \in BatchRequests, Enter(g, r) PROVE Progress'
    <3>1. /\ \A h \in Goroutines : call'[h] = IF h = g THEN Start(r) ELSE call[h]
          /\ transactions' = transactions
      BY <2>3 DEF Enter, TypeOK, ledger
    <3>2. /\ \A i \in IdProviders : Start(r).applied[i] = None
          /\ Start(r).next = 1 /\ Start(r).request = r
      BY DEF Start
    <3>3. StagedKinds'
      BY <3>1, <3>2 DEF Progress, StagedKinds
    <3>4. DOMAIN r.transactions \subseteq Nat \ {0}
      BY <2>3, RequestsAssumption DEF BatchRequests
    <3>5. \A k \in DOMAIN r.transactions : ~(k < 1)
      BY <3>4
    <3>6. Walked'
      BY <3>1, <3>2, <3>5 DEF Progress, Walked, Batch
    <3> QED
      BY <2>2, <3>1, <3>3, <3>6 DEF Progress
  <2>4. CASE Restart
    <3>1. transactions' = transactions /\ \A g \in Goroutines : call'[g] = None
      BY <2>4 DEF Restart, Restored, TypeOK
    <3> QED
      BY <2>2, <3>1 DEF Progress, StagedKinds, Walked
  <2>5. CASE Quiet
    BY <2>2, <2>5 DEF Quiet, Progress, StagedKinds, Walked, Batch
  <2> QED
    BY <2>1, <2>3, <2>4, <2>5, NextCases
<1> QED
  BY <1>1, <1>2, TypeCorrect, MutexExcludes, StagedStaysFresh, PTL DEF Spec
-----------------------------------------------------------------------------
(* Steps of the wallet and steps of the contract                            *)

Fated == [i \in IdProviders |-> Fate(i)]

(* The steps the contract does not see. *)
Unseen == Fated' = Fated /\ Performed' = Performed /\ FinalAnswers' = FinalAnswers

(* An answer that is not final, or not of a batch, adds nothing.           *)
LEMMA PassingAnswers ==
    ASSUME NEW answer, Respond(answer),
           answer.code \notin Lasting \/ answer.request.route \notin {"betwin", "rollback"}
    PROVE  FinalAnswers' = FinalAnswers
BY DEF Respond, FinalAnswers

(* A 200 or 409 to a batch joins what the contract calls told.             *)
LEMMA FinalAnswer ==
    ASSUME NEW answer, Respond(answer), answer.code \in Lasting,
           answer.request.route \in {"betwin", "rollback"}
    PROVE  FinalAnswers' = FinalAnswers \cup {<<answer.request, answer.code>>}
BY DEF Respond, FinalAnswers

(* Fates follow from the rows and the tombstones.                          *)
LEMMA SameLedger ==
    ASSUME transactions' = transactions, tombstones' = tombstones
    PROVE  Fated' = Fated /\ Performed' = Performed
BY DEF Fated, Fate, Performed, Reversible

(* A refusal that may pass (100, 105, 500, ...) is no step of the          *)
(* contract.                                                               *)
LEMMA RefusedIsUnseen ==
    ASSUME NEW r, NEW code, code \notin Lasting, NEW bal,
           Respond(Answer(r, code, bal, 0, <<>>)),
           transactions' = transactions, tombstones' = tombstones
    PROVE  Unseen
BY SameLedger, PassingAnswers DEF Answer, Unseen

(* At the end of its batch a call has every transaction stored or staged.  *)
LEMMA AllWalked ==
    ASSUME TypeOK, Progress, NEW g \in Goroutines, call[g] # None,
           call[g].next > Len(Batch(g)),
           NEW i \in IdsOf(call[g].request)
    PROVE  transactions[i] # None \/ call[g].applied[i] # None
<1>1. PICK k \in DOMAIN Batch(g) : i = Batch(g)[k].id
  BY DEF IdsOf, Batch
<1>2. k < call[g].next
  <2>1. k \in 1..Len(Batch(g)) /\ Len(Batch(g)) \in Nat /\ call[g].next \in Nat
    BY CallIsTyped, RequestsAssumption DEF Batch, BatchRequests
  <2> QED
    BY <2>1
<1> QED
  BY <1>1, <1>2 DEF Progress, Walked

(* The commit of a BetWin is the contract's Accept: all of the batch that  *)
(* was unseen takes effect at once.                                        *)
LEMMA CommitAccepts ==
    ASSUME TypeOK, StagedIsFresh, Progress, NEW g \in Goroutines, BetWinCommit(g)
    PROVE  \E r \in BetWinRequests : Contract!Accept(r)
<1> DEFINE r == call[g].request
           staged(i) == call[g].applied[i] # None
<1>1. call[g] # None /\ r \in BetWinRequests /\ r.route = "betwin"
      /\ call[g].next > Len(Batch(g))
  BY CallIsTyped, RequestsAssumption DEF BetWinCommit, AtEnd, BatchRequests
<1>2. /\ transactions' = [i \in IdProviders |-> IF staged(i) THEN call[g].applied[i]
                                                           ELSE transactions[i]]
      /\ tombstones' = tombstones
  BY DEF BetWinCommit
<1>3. IdsOf(r) \subseteq IdProviders
  BY <1>1, IdsOfTyped DEF BatchRequests
<1>4. \A i \in IdProviders : staged(i) =>
         /\ transactions[i] = None /\ i \notin tombstones /\ i \in IdsOf(r)
         /\ call[g].applied[i].type \in {"bet", "win"}
  BY <1>1 DEF StagedIsFresh, Progress, StagedKinds
<1>5. \A i \in IdsOf(r) : ~staged(i) => Reversible(i)
  <2>1. \A i \in IdsOf(r) : transactions[i] # None => transactions[i].type \in {"bet", "win"}
    BY <1>1 DEF Progress, RowKinds
  <2>2. \A i \in IdsOf(r) : ~staged(i) => transactions[i] # None
    BY <1>1, AllWalked
  <2> QED
    BY <2>1, <2>2 DEF Reversible
<1>6. \A i \in IdProviders : staged(i) => Fate(i) = "unseen" /\ Fate(i)' = "applied"
  BY <1>2, <1>4 DEF Fate, Reversible
<1>7. \A i \in IdProviders : ~staged(i) => Fate(i)' = Fate(i)
  BY <1>2 DEF Fate, Reversible
<1>8. \A i \in IdsOf(r) : ~staged(i) => Fate(i) \in {"applied", "reversed"}
  BY <1>5 DEF Fate
<1>9. \A i \in IdsOf(r) : Fated[i] # "barred"
  BY <1>3, <1>6, <1>8 DEF Fated
<1>10. Fated' = [i \in IdProviders |-> IF i \in IdsOf(r) /\ Fated[i] = "unseen"
                                        THEN "applied" ELSE Fated[i]]
  <2>1. ASSUME NEW i \in IdProviders
        PROVE  Fate(i)' = IF i \in IdsOf(r) /\ Fated[i] = "unseen" THEN "applied" ELSE Fated[i]
    BY <1>4, <1>6, <1>7, <1>8 DEF Fated
  <2> QED
    BY <2>1 DEF Fated
<1>11. Performed' = Performed
  BY <1>2, <1>4 DEF Performed
<1>12. FinalAnswers' = FinalAnswers \cup {<<r, "200">>}
  <2>1. Respond(AnswerOf(call[g])) /\ AnswerOf(call[g]).code = "200"
        /\ AnswerOf(call[g]).request = r
    BY DEF BetWinCommit, Return, AnswerOf, Answer
  <2> QED
    BY <1>1, <2>1, FinalAnswer DEF Lasting
<1>13. Contract!Accept(r)
  BY <1>9, <1>10, <1>11, <1>12 DEF Contract!Accept, Contract!Apply, Contract!IdsOf, IdsOf, Fated
<1> QED
  BY <1>1, <1>13

(* The refusal with 409 is the contract's RefuseBarred.                    *)
LEMMA TombstonedRefuses ==
    ASSUME TypeOK, NEW g \in Goroutines, BetWinTombstoned(g)
    PROVE  \E r \in BetWinRequests : Contract!RefuseBarred(r)
<1> DEFINE r == call[g].request
<1>1. /\ r \in BetWinRequests /\ r.route = "betwin"
      /\ Tx(g).id \in IdsOf(r) /\ Tx(g).id \in IdProviders
  BY BetWinTxIsTyped DEF BetWinTombstoned, AtTx, BetWinTx
<1>2. Fated[Tx(g).id] = "barred"
  BY <1>1 DEF BetWinTombstoned, Seen, Fated, Fate, Reversible
<1>3. Fated' = Fated /\ Performed' = Performed
  BY SameLedger DEF BetWinTombstoned, ledger
<1>4. FinalAnswers' = FinalAnswers \cup {<<r, "409">>}
  BY <1>1, FinalAnswer DEF BetWinTombstoned, Return, Refusal, Answer, Lasting
<1>5. Contract!RefuseBarred(r)
  BY <1>1, <1>2, <1>3, <1>4 DEF Contract!RefuseBarred, Contract!IdsOf, IdsOf, Fated
<1> QED
  BY <1>1, <1>5

(* A turn of Rollback's loop that stores a row is the contract's Undo.     *)
LEMMA RollbackUndoes ==
    ASSUME TypeOK, NEW g \in Goroutines, RollbackApply(g)
    PROVE  \E r \in RollbackRequests : \E t \in Contract!TxsOf(r) : Contract!Undo(t)
<1>0. PICK t \in RollbackTx : t = Tx(g)
  BY RollbackTxIsTyped DEF RollbackApply
<1>1. /\ call[g].request \in RollbackRequests
      /\ t.id \in IdProviders /\ t.original \in IdProviders
  BY RollbackTxIsTyped DEF RollbackApply, RollbackTx
<1>2. t \in Contract!TxsOf(call[g].request)
  <2>1. call[g].next \in DOMAIN Batch(g)
    BY CallIsTyped, RequestsAssumption DEF RollbackApply, AtTx, Batch, BatchRequests
  <2> QED
    BY <1>0, <2>1 DEF Contract!TxsOf, Tx, Batch
<1>3. /\ transactions[t.id] = None
      /\ transactions' = [transactions EXCEPT ![t.id] = RollbackRow(g)]
      /\ tombstones' = tombstones \cup {t.original}
      /\ RollbackRow(g) # None /\ RollbackRow(g).type = ""
  BY <1>0, RollbackRowIsTyped, NoneAssumption DEF RollbackApply, RollbackRow, Seen
<1>4. \A i \in IdProviders : Reversible(i)' <=> Reversible(i)
  BY <1>1, <1>3 DEF Reversible, TypeOK
<1>5. Fated' = [Fated EXCEPT ![t.original] = Contract!UndoneFate(Fated[t.original])]
  <2>1. \A i \in IdProviders \ {t.original} : Fate(i)' = Fate(i)
    BY <1>3, <1>4 DEF Fate
  <2>2. Fate(t.original)' = IF Reversible(t.original) THEN "reversed" ELSE "barred"
    BY <1>1, <1>3, <1>4 DEF Fate
  <2>3. Contract!UndoneFate(Fate(t.original)) =
           IF Reversible(t.original) THEN "reversed" ELSE "barred"
    BY DEF Fate, Contract!UndoneFate
  <2>4. Fated[t.original] = Fate(t.original)
    BY <1>1 DEF Fated
  <2>5. Fate(t.original)' = Contract!UndoneFate(Fated[t.original])
    BY <2>2, <2>3, <2>4
  <2> QED
    BY <1>1, <2>1, <2>5 DEF Fated
<1>6. Performed' = Performed \cup {t.id} /\ t.id \notin Performed
  BY <1>1, <1>3 DEF Performed, TypeOK
<1>7. FinalAnswers' = FinalAnswers
  BY DEF RollbackApply, FinalAnswers
<1>8. Contract!Undo(t)
  BY <1>5, <1>6, <1>7 DEF Contract!Undo, Fated
<1> QED
  BY <1>1, <1>2, <1>8

(* The answer of a Rollback is the contract's AcceptRollback.              *)
LEMMA RollbackCommitAccepts ==
    ASSUME TypeOK, StagedIsFresh, Progress, NEW g \in Goroutines, RollbackCommit(g)
    PROVE  \E r \in RollbackRequests : Contract!AcceptRollback(r)
<1> DEFINE r == call[g].request
<1>1. call[g] # None /\ r \in RollbackRequests /\ r.route = "rollback"
      /\ call[g].next > Len(Batch(g))
  BY CallIsTyped, RequestsAssumption DEF RollbackCommit, AtEnd, BatchRequests
<1>2. ASSUME NEW i \in IdsOf(r) PROVE i \in Performed
  <2>1. i \in IdProviders /\ \E t \in RollbackTxs : i = t.id
    BY <1>1, <1>2, IdsOfTyped DEF IdsOf, BatchRequests
  <2>2. call[g].applied[i] = None
    BY <1>1, <2>1 DEF StagedIsFresh
  <2>3. transactions[i] # None
    BY <1>1, <1>2, <2>2, AllWalked
  <2> QED
    BY <2>1, <2>3 DEF Progress, RowKinds, Performed
<1>3. Fated' = Fated /\ Performed' = Performed
  BY SameLedger DEF RollbackCommit
<1>4. FinalAnswers' = FinalAnswers \cup {<<r, "200">>}
  <2>1. Respond(AnswerOf(call[g])) /\ AnswerOf(call[g]).code = "200"
        /\ AnswerOf(call[g]).request = r
    BY DEF RollbackCommit, Return, AnswerOf, Answer
  <2> QED
    BY <1>1, <2>1, FinalAnswer DEF Lasting
<1>5. Contract!AcceptRollback(r)
  BY <1>2, <1>3, <1>4 DEF Contract!AcceptRollback, Contract!IdsOf, IdsOf, Fated
<1> QED
  BY <1>1, <1>5
-----------------------------------------------------------------------------
ContractStep == [Contract!ContractNext]_(Contract!contract)

(* What changes neither fates nor final answers is a stutter.              *)
LEMMA UnseenIsStutter == Unseen => ContractStep
BY DEF Unseen, ContractStep, Contract!contract, Fated

(* Every step of a call is one of the contract or a stutter.               *)
LEMMA StepRefines ==
    ASSUME TypeOK, StagedIsFresh, Progress, NEW g \in Goroutines, Step(g)
    PROVE  ContractStep
<1>1. CASE BetWinCommit(g)
  BY <1>1, CommitAccepts DEF ContractStep, Contract!ContractNext
<1>2. CASE BetWinTombstoned(g)
  BY <1>2, TombstonedRefuses DEF ContractStep, Contract!ContractNext
<1>3. CASE RollbackApply(g)
  BY <1>3, RollbackUndoes DEF ContractStep, Contract!ContractNext
<1>4. CASE RollbackCommit(g)
  BY <1>4, RollbackCommitAccepts DEF ContractStep, Contract!ContractNext
<1>5. ASSUME NEW route, ReplayPanics(g, route) PROVE Unseen
  BY <1>5, RefusedIsUnseen DEF ReplayPanics, Return, Refusal, Lasting, ledger
<1>6. BetWinLimited(g) \/ BetWinInsufficient(g) => Unseen
  BY RefusedIsUnseen DEF BetWinLimited, BetWinInsufficient, Return, Lasting, ledger
<1>7. ASSUME NEW route, Replay(g, route) \/ BetWinApply(g) PROVE Unseen
  <2>1. UNCHANGED <<transactions, tombstones, answered>>
    BY <1>7 DEF Replay, BetWinApply, ledger
  <2> QED
    BY <2>1, SameLedger DEF Unseen, FinalAnswers
<1> QED
  BY <1>1, <1>2, <1>3, <1>4, <1>5, <1>6, <1>7, UnseenIsStutter DEF Step

(* Freespins results are nothing to the contract.                          *)
LEMMA FreespinsAreUnseen ==
    ASSUME NEW r \in FinishRequests, FreespinsFinish(r)
    PROVE  Unseen
<1>1. r.route \notin {"betwin", "rollback"}
  BY RequestsAssumption
<1>2. UNCHANGED <<transactions, tombstones>>
  BY DEF FreespinsFinish, FreespinsFinishUnknown, FreespinsFinishCanceled,
    FreespinsFinishNoAccount, FreespinsFinishUnreadable, FreespinsFinishReplay,
    FreespinsFinishCredit, FinishRefused, ledger
<1>3. \E code, bal : Respond(Answer(r, code, bal, 0, <<>>))
  BY DEF FreespinsFinish, FreespinsFinishUnknown, FreespinsFinishCanceled,
    FreespinsFinishNoAccount, FreespinsFinishUnreadable, FreespinsFinishReplay,
    FreespinsFinishCredit, FinishRefused, Refusal
<1>4. FinalAnswers' = FinalAnswers
  BY <1>1, <1>3, PassingAnswers DEF Answer
<1> QED
  BY <1>2, <1>4, SameLedger DEF Unseen

(* Every step of the wallet is one of the contract or a stutter.           *)
LEMMA NextRefines ==
    ASSUME TypeOK, StagedIsFresh, Progress, [Next]_vars
    PROVE  ContractStep
<1>1. ASSUME NEW g \in Goroutines, Step(g) PROVE ContractStep
  BY <1>1, StepRefines
<1>2. ASSUME NEW g, NEW r, Enter(g, r) PROVE Unseen
  BY <1>2, SameLedger DEF Enter, ledger, Unseen, FinalAnswers
<1>3. ASSUME NEW r, UnknownAccount(r) PROVE Unseen
  BY <1>3, RefusedIsUnseen DEF UnknownAccount, Refusal, Lasting, ledger
<1>4. ASSUME NEW r, Balance(r) \/ Finish(r) PROVE Unseen
  <2>1. r.route \notin {"betwin", "rollback"} /\ UNCHANGED <<transactions, tombstones>>
        /\ Respond(Answer(r, "200", balance[r.account], 0, <<>>))
    BY <1>4 DEF Balance, Finish, ReadAccount, ledger
  <2>2. FinalAnswers' = FinalAnswers
    BY <2>1, PassingAnswers DEF Answer
  <2> QED
    BY <2>1, <2>2, SameLedger DEF Unseen
<1>5. ASSUME NEW r \in FinishRequests, FreespinsFinish(r) PROVE Unseen
  BY <1>5, FreespinsAreUnseen
<1>6. ASSUME NEW i, RecordFreespinsIssue(i) \/ CancelFreespinsIssue(i) PROVE Unseen
  BY <1>6, SameLedger DEF RecordFreespinsIssue, CancelFreespinsIssue, Unseen, FinalAnswers
<1>7. ASSUME Restart PROVE Unseen
  <2>1. \A i \in IdProviders : transactions'[i] = transactions[i]
    BY <1>7 DEF Restart, Restored
  <2>2. transactions' = transactions /\ UNCHANGED <<tombstones, answered>>
    BY <1>7 DEF Restart, Restored, TypeOK
  <2> QED
    BY <2>2, SameLedger DEF Unseen, FinalAnswers
<1>8. ASSUME UNCHANGED vars PROVE Unseen
  BY <1>8, SameLedger DEF vars, ledger, Unseen, FinalAnswers
<1> QED
  BY <1>1, <1>2, <1>3, <1>4, <1>5, <1>6, <1>7, <1>8, UnseenIsStutter DEF Next

(* The in-memory wallet implements the contract of every wallet: under any *)
(* interleaving, refusal, panic and restart, each of its steps is one the  *)
(* contract allows, or none.  Without its premise this is not so: a bet    *)
(* that bears the id_provider of a rollback is taken for its repeat.       *)
THEOREM Implementation ==
    ASSUME RollbackIdsUnique
    PROVE  Spec => ImplementsContract
<1>1. Init => Contract!ContractInit
  <2>1. Init => Fated = [i \in IdProviders |-> "unseen"]
    BY DEF Init, Fated, Fate, Reversible
  <2>2. Init => Performed = {} /\ FinalAnswers = {}
    BY DEF Init, Performed, FinalAnswers
  <2> QED
    BY <2>1, <2>2 DEF Contract!ContractInit, Fated
<1>2. TypeOK /\ StagedIsFresh /\ Progress /\ [Next]_vars
      => [Contract!ContractNext]_(Contract!contract)
  BY NextRefines DEF ContractStep
<1> QED
  BY <1>1, <1>2, TypeCorrect, StagedStaysFresh, ProgressKept, PTL
  DEF Spec, ImplementsContract, Contract!ContractSpec
=============================================================================
