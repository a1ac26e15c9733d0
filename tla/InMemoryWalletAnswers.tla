------------------------- MODULE InMemoryWalletAnswers -------------------------
(* What InMemoryWallet stores and answers of whole batches, for every       *)
(* value of its constants under which an id_provider names one transaction. *)
EXTENDS InMemoryWalletRefinement

(* The platform's discipline: an id_provider names one transaction of one   *)
(* request.                                                                 *)
BatchesApart ==
    /\ \A r \in BatchRequests : \A j, k \in DOMAIN r.transactions :
          r.transactions[j].id = r.transactions[k].id => j = k
    /\ \A r, s \in BatchRequests : \A i \in IdsOf(r) : i \in IdsOf(s) => r = s

Stored(i) == transactions[i] # None

Full(r) == \A i \in IdsOf(r) : Stored(i)
Absent(r) == \A i \in IdsOf(r) : ~Stored(i)

(* A call repeats its batch, works it out for the first time, or undoes for *)
(* the first time; it never changes from one to the other.                  *)
Again(g) == Full(call[g].request) /\ ~call[g].changed

FirstBet(g) == call[g].request \in BetWinRequests /\ Absent(call[g].request)

FirstUndo(g) ==
    /\ call[g].request \in RollbackRequests
    /\ \A k \in DOMAIN Batch(g) : Stored(Batch(g)[k].id) <=> k < call[g].next

OneKind == \A g \in Goroutines : call[g] # None => Again(g) \/ FirstBet(g) \/ FirstUndo(g)

(* Only the batch of a call under way may be there in part.                 *)
PartlyInCall ==
    \A r \in BatchRequests :
       \/ Full(r) \/ Absent(r)
       \/ \E g \in Goroutines : call[g] # None /\ call[g].request = r

Orderly == OneKind /\ PartlyInCall

-----------------------------------------------------------------------------
(* Batches are whole                                                        *)

(* Apart as the batches are, a rollback's id_provider is its own.           *)
LEMMA ApartRollbacks == ASSUME BatchesApart PROVE RollbackIdsUnique
<1>1. ASSUME NEW t \in RollbackTxs, NEW u \in RollbackTxs, t.id = u.id PROVE t = u
  <2>1. PICK r \in RollbackRequests : \E k \in DOMAIN r.transactions : t = r.transactions[k]
    BY DEF RollbackTxs
  <2>2. PICK k \in DOMAIN r.transactions : t = r.transactions[k]
    BY <2>1
  <2>3. PICK s \in RollbackRequests : \E j \in DOMAIN s.transactions : u = s.transactions[j]
    BY DEF RollbackTxs
  <2>4. PICK j \in DOMAIN s.transactions : u = s.transactions[j]
    BY <2>3
  <2>5. t.id \in IdsOf(r) /\ t.id \in IdsOf(s)
    BY <1>1, <2>2, <2>4 DEF IdsOf
  <2>6. r = s
    BY <2>5 DEF BatchesApart, BatchRequests
  <2> QED
    BY <1>1, <2>2, <2>4, <2>6 DEF BatchesApart, BatchRequests
<1>2. ASSUME NEW t \in RollbackTxs, NEW r \in BetWinRequests PROVE t.id \notin IdsOf(r)
  <2>1. PICK s \in RollbackRequests : \E k \in DOMAIN s.transactions : t = s.transactions[k]
    BY DEF RollbackTxs
  <2>2. t.id \in IdsOf(s)
    BY <2>1 DEF IdsOf
  <2>3. r # s
    BY RequestsAssumption
  <2> QED
    BY <2>2, <2>3 DEF BatchesApart, BatchRequests
<1> QED
  BY <1>1, <1>2 DEF RollbackIdsUnique

(* Where a call is in its batch, in the types of both.                      *)
LEMMA PlaceInBatch ==
    ASSUME TypeOK, NEW g \in Goroutines, call[g] # None
    PROVE  /\ call[g] \in Locals /\ call[g].request \in BatchRequests
           /\ call[g].next \in Nat \ {0} /\ Len(Batch(g)) \in Nat \ {0}
           /\ DOMAIN Batch(g) = 1..Len(Batch(g))
           /\ \A k \in DOMAIN Batch(g) : /\ Batch(g)[k].id \in IdProviders
                                         /\ Batch(g)[k].id \in IdsOf(call[g].request)
<1>1. /\ call[g] \in Locals /\ call[g].request \in BatchRequests
      /\ call[g].next \in Nat \ {0}
  BY CallIsTyped
<1>2. CASE call[g].request \in BetWinRequests
  <2>1. Batch(g) \in Seq(BetWinTx) /\ Batch(g) # <<>>
    BY <1>2, RequestsAssumption DEF Batch
  <2>2. Len(Batch(g)) \in Nat \ {0} /\ DOMAIN Batch(g) = 1..Len(Batch(g))
    BY <2>1
  <2> QED
    BY <1>1, <2>2, WalkTyped DEF IdsOf, Batch
<1>3. CASE call[g].request \in RollbackRequests
  <2>1. Batch(g) \in Seq(RollbackTx) /\ Batch(g) # <<>>
    BY <1>3, RequestsAssumption DEF Batch
  <2>2. Len(Batch(g)) \in Nat \ {0} /\ DOMAIN Batch(g) = 1..Len(Batch(g))
    BY <2>1
  <2> QED
    BY <1>1, <2>2, WalkTyped DEF IdsOf, Batch
<1> QED
  BY <1>1, <1>2, <1>3 DEF BatchRequests

(* The transaction a call is at is one of its batch.                        *)
LEMMA AtOwnTx ==
    ASSUME TypeOK, NEW g \in Goroutines, NEW route, AtTx(g, route)
    PROVE  /\ call[g] # None /\ call[g].next \in DOMAIN Batch(g)
           /\ Tx(g).id \in IdProviders /\ Tx(g).id \in IdsOf(call[g].request)
<1>1. call[g] # None /\ call[g].next <= Len(Batch(g))
  BY DEF AtTx
<1>2. call[g].next \in DOMAIN Batch(g)
  BY <1>1, PlaceInBatch
<1> QED
  BY <1>1, <1>2, PlaceInBatch DEF Tx

(* A step of a call stores rows of its own batch only.                      *)
LEMMA StepStoresOwn ==
    ASSUME TypeOK, StagedIsFresh, NEW g \in Goroutines, Step(g)
    PROVE  \A i \in IdProviders :
              i \notin IdsOf(call[g].request) => transactions'[i] = transactions[i]
<1>1. CASE BetWinCommit(g)
  BY <1>1 DEF BetWinCommit, AtEnd, StagedIsFresh
<1>2. CASE RollbackApply(g)
  BY <1>2, AtOwnTx DEF RollbackApply, TypeOK
<1>3. BetWinCommit(g) \/ RollbackApply(g) \/ transactions' = transactions
  BY DEF Step, Replay, ReplayPanics, BetWinTombstoned, BetWinLimited, BetWinInsufficient,
    BetWinApply, RollbackCommit, ledger
<1> QED
  BY <1>1, <1>2, <1>3

(* A transaction met as a repeat is one of a batch that is being repeated.  *)
LEMMA RepeatsAreWhole ==
    ASSUME TypeOK, OneKind, NEW g \in Goroutines, NEW route, AtTx(g, route), Seen(g)
    PROVE  Again(g)
<1>1. /\ call[g] # None /\ (Again(g) \/ FirstBet(g) \/ FirstUndo(g))
      /\ Tx(g).id \in IdsOf(call[g].request) /\ Stored(Tx(g).id)
  BY AtOwnTx DEF OneKind, Seen, Stored
<1>2. ~FirstBet(g)
  BY <1>1 DEF FirstBet, Absent
<1>3. ~FirstUndo(g)
  <2>1. call[g].next \in DOMAIN Batch(g) /\ call[g].next \in Nat
    BY <1>1, AtOwnTx, PlaceInBatch
  <2>2. ~(call[g].next < call[g].next)
    BY <2>1
  <2> QED
    BY <1>1, <2>1, <2>2 DEF FirstUndo, Tx
<1> QED
  BY <1>1, <1>2, <1>3

(* A step that leaves its call inside leaves it of one kind.                *)
LEMMA StepKeepsOneKind ==
    ASSUME BatchesApart, TypeOK, MutualExclusion, OneKind, NEW g \in Goroutines, Step(g)
    PROVE  OneKind'
<1>0. \A h \in Goroutines \ {g} : call'[h] = None
  BY OthersOutside
<1>1. call[g] # None /\ (Again(g) \/ FirstBet(g) \/ FirstUndo(g))
  BY StepMovesItsCall DEF StepShape, OneKind
<1>2. ASSUME NEW route \in {"betwin", "rollback"}, Replay(g, route) PROVE OneKind'
  <2>1. /\ AtTx(g, route) /\ Seen(g) /\ transactions' = transactions
        /\ call'[g] = Replayed(call[g], transactions[Tx(g).id])
    BY <1>2 DEF Replay, TypeOK, ledger
  <2>2. call'[g].request = call[g].request /\ call'[g].changed = call[g].changed
    BY <1>1, <2>1, PlaceInBatch DEF Replayed, Locals
  <2>3. Again(g)
    BY <2>1, RepeatsAreWhole
  <2>4. Again(g)'
    BY <2>1, <2>2, <2>3 DEF Again, Full, Stored, IdsOf
  <2> QED
    BY <1>0, <2>4 DEF OneKind
<1>3. CASE BetWinApply(g)
  <2>1. AtTx(g, "betwin") /\ ~Seen(g) /\ transactions' = transactions
    BY <1>3 DEF BetWinApply, Fresh
  <2>2. call'[g].request = call[g].request
    BY <1>3, BetWinApplyStages
  <2>3. Tx(g).id \in IdsOf(call[g].request) /\ ~Stored(Tx(g).id)
    BY <2>1, AtOwnTx DEF Seen, Stored
  <2>4. call[g].request \in BetWinRequests
    BY <2>1, BetWinTxIsTyped
  <2>5. ~Again(g) /\ ~FirstUndo(g)
    BY <2>3, <2>4, RequestsAssumption DEF Again, Full, FirstUndo
  <2>6. FirstBet(g)'
    BY <1>1, <2>1, <2>2, <2>5 DEF FirstBet, Absent, Stored, IdsOf
  <2> QED
    BY <1>0, <2>6 DEF OneKind
<1>4. CASE RollbackApply(g)
  <2>1. /\ AtTx(g, "rollback") /\ ~Seen(g)
        /\ transactions' = [transactions EXCEPT ![Tx(g).id] = RollbackRow(g)]
        /\ call'[g] = Applied(call[g], RollbackRow(g))
        /\ RollbackRow(g) # None
    BY <1>4, RollbackRowIsTyped, NoneAssumption DEF RollbackApply, TypeOK
  <2>2. call'[g].request = call[g].request /\ call'[g].next = call[g].next + 1
    BY <1>1, <2>1, PlaceInBatch DEF Applied, Locals
  <2>3. /\ Tx(g).id \in IdsOf(call[g].request) /\ ~Stored(Tx(g).id)
        /\ Tx(g).id \in IdProviders /\ call[g].next \in DOMAIN Batch(g)
    BY <2>1, AtOwnTx DEF Seen, Stored
  <2>4. call[g].request \in RollbackRequests
    BY <2>1, RollbackTxIsTyped
  <2>5. FirstUndo(g)
    BY <1>1, <2>3, <2>4, RequestsAssumption DEF Again, Full, FirstBet
  <2>6. ASSUME NEW k \in DOMAIN Batch(g)
        PROVE  Stored(Batch(g)[k].id)' <=> k < call[g].next + 1
    <3>1. k \in Nat /\ call[g].next \in Nat /\ Batch(g)[k].id \in IdProviders
      BY <1>1, PlaceInBatch
    <3>2. CASE k = call[g].next
      <4>1. Batch(g)[k].id = Tx(g).id
        BY <3>2 DEF Tx
      <4>2. transactions'[Tx(g).id] # None
        BY <2>1, <2>3 DEF TypeOK
      <4> QED
        BY <2>2, <3>1, <3>2, <4>1, <4>2 DEF Stored, Batch
    <3>3. CASE k # call[g].next
      <4>1. Batch(g)[k].id # Tx(g).id
        BY <1>1, <2>3, <3>3, PlaceInBatch DEF BatchesApart, Tx, Batch
      <4>2. transactions'[Batch(g)[k].id] = transactions[Batch(g)[k].id]
        BY <2>1, <3>1, <4>1 DEF TypeOK
      <4>3. Stored(Batch(g)[k].id) <=> k < call[g].next
        BY <2>5 DEF FirstUndo
      <4>4. k < call[g].next <=> k < call[g].next + 1
        BY <3>1, <3>3
      <4> QED
        BY <2>2, <4>2, <4>3, <4>4 DEF Stored, Batch
    <3> QED
      BY <3>2, <3>3
  <2>7. FirstUndo(g)'
    BY <2>2, <2>4, <2>6 DEF FirstUndo, Batch
  <2> QED
    BY <1>0, <2>7 DEF OneKind
<1>5. CASE call'[g] = None
  BY <1>0, <1>5 DEF OneKind
<1>6. (\E route \in {"betwin", "rollback"} : Replay(g, route)) \/ BetWinApply(g)
      \/ RollbackApply(g) \/ call'[g] = None
  BY DEF Step, ReplayPanics, BetWinTombstoned, BetWinLimited, BetWinInsufficient,
    BetWinCommit, RollbackCommit, Return, TypeOK
<1> QED
  BY <1>2, <1>3, <1>4, <1>5, <1>6

(* A call that stays inside stays with its request.                         *)
LEMMA StepKeepsRequest ==
    ASSUME TypeOK, NEW g \in Goroutines, Step(g), call'[g] # None
    PROVE  call'[g].request = call[g].request
<1>1. ASSUME NEW route, Replay(g, route) PROVE call'[g].request = call[g].request
  BY <1>1, CallIsTyped, LocalsKept DEF Replay, AtTx, TypeOK
<1>2. CASE BetWinApply(g)
  BY <1>2, BetWinApplyStages
<1>3. CASE RollbackApply(g)
  BY <1>3, CallIsTyped, LocalsKept DEF RollbackApply, AtTx, TypeOK
<1> QED
  BY <1>1, <1>2, <1>3
  DEF Step, ReplayPanics, BetWinTombstoned, BetWinLimited, BetWinInsufficient,
    BetWinCommit, RollbackCommit, Return, TypeOK

(* A call that ends leaves its batch stored whole or not at all.            *)
LEMMA EndsWhole ==
    ASSUME TypeOK, MutualExclusion, StagedIsFresh, Progress, OneKind,
           NEW g \in Goroutines, Step(g), call'[g] = None,
           NEW r \in BatchRequests, r = call[g].request
    PROVE  Full(r)' \/ Absent(r)'
<1>1. /\ call[g] # None /\ (Again(g) \/ FirstBet(g) \/ FirstUndo(g))
      /\ IdsOf(r) \subseteq IdProviders
  BY StepMovesItsCall, IdsOfTyped DEF StepShape, OneKind
<1>2. CASE BetWinCommit(g)
  <2>1. /\ call[g].next > Len(Batch(g))
        /\ transactions' = [i \in IdProviders |->
                              IF call[g].applied[i] # None THEN call[g].applied[i]
                                                           ELSE transactions[i]]
    BY <1>2 DEF BetWinCommit, AtEnd
  <2>2. \A i \in IdsOf(r) : transactions[i] # None \/ call[g].applied[i] # None
    BY <1>1, <2>1, AllWalked
  <2>3. \A i \in IdsOf(r) : transactions'[i] # None
    BY <1>1, <2>1, <2>2
  <2> QED
    BY <2>3 DEF Full, Stored, IdsOf
<1>3. CASE RollbackCommit(g)
  <2>1. /\ call[g].next > Len(Batch(g)) /\ transactions' = transactions
        /\ r.route = "rollback"
    BY <1>3 DEF RollbackCommit, AtEnd
  <2>2. \A i \in IdsOf(r) : call[g].applied[i] = None
    BY <1>1, <2>1 DEF StagedIsFresh
  <2>3. \A i \in IdsOf(r) : transactions'[i] # None
    BY <1>1, <2>1, <2>2, AllWalked
  <2> QED
    BY <2>3 DEF Full, Stored, IdsOf
<1>4. ASSUME NEW route \in {"betwin", "rollback"}, ReplayPanics(g, route)
      PROVE  Full(r)' \/ Absent(r)'
  <2>1. AtTx(g, route) /\ Seen(g) /\ transactions' = transactions
    BY <1>4 DEF ReplayPanics, ledger
  <2>2. Full(r)
    BY <2>1, RepeatsAreWhole DEF Again
  <2> QED
    BY <2>1, <2>2 DEF Full, Stored, IdsOf
<1>5. CASE BetWinTombstoned(g) \/ BetWinLimited(g) \/ BetWinInsufficient(g)
  <2>1. AtTx(g, "betwin") /\ transactions' = transactions
    BY <1>5 DEF BetWinTombstoned, BetWinLimited, BetWinInsufficient, Fresh, ledger
  <2>2. ~FirstUndo(g)
    BY <2>1, BetWinTxIsTyped, RequestsAssumption DEF FirstUndo
  <2>3. Full(r) \/ Absent(r)
    BY <1>1, <2>2 DEF Again, FirstBet
  <2> QED
    BY <2>1, <2>3 DEF Full, Absent, Stored, IdsOf
<1>6. ASSUME Replay(g, "betwin") \/ Replay(g, "rollback") \/ BetWinApply(g) \/ RollbackApply(g)
      PROVE  FALSE
  <2>1. ASSUME NEW route \in {"betwin", "rollback"}, Replay(g, route) PROVE FALSE
    <3>1. Tx(g).id \in IdProviders /\ call[g] \in Locals
      BY <1>1, <2>1, AtOwnTx, PlaceInBatch DEF Replay
    <3>2. Replayed(call[g], transactions[Tx(g).id]) \in Locals
      BY <2>1, <3>1, ReplayedIsTyped DEF Replay, Seen, TypeOK
    <3> QED
      BY <2>1, <3>2, NoneAssumption DEF Replay, TypeOK
  <2>2. CASE BetWinApply(g)
    <3>1. BetWinRow(g) \in StoredTransaction /\ Tx(g).id \in IdProviders /\ call[g] \in Locals
      BY <1>1, <2>2, BetWinRowIsTyped, PlaceInBatch DEF BetWinApply
    <3>2. Applied(call[g], BetWinRow(g)) \in Locals
      BY <3>1, AppliedIsTyped
    <3>3. [Applied(call[g], BetWinRow(g)) EXCEPT
             !.applied = [call[g].applied EXCEPT ![Tx(g).id] = BetWinRow(g)]] \in Locals
      BY <3>1, <3>2, StagedIsTyped DEF Applied, Locals
    <3> QED
      BY <2>2, <3>3, NoneAssumption DEF BetWinApply, TypeOK
  <2>3. CASE RollbackApply(g)
    <3>1. RollbackRow(g) \in StoredTransaction /\ call[g] \in Locals
      BY <1>1, <2>3, RollbackRowIsTyped, PlaceInBatch DEF RollbackApply
    <3>2. Applied(call[g], RollbackRow(g)) \in Locals
      BY <3>1, AppliedIsTyped
    <3> QED
      BY <2>3, <3>2, NoneAssumption DEF RollbackApply, TypeOK
  <2> QED
    BY <1>6, <2>1, <2>2, <2>3
<1>7. (\E route \in {"betwin", "rollback"} : Replay(g, route)) <=>
         Replay(g, "betwin") \/ Replay(g, "rollback")
  OBVIOUS
<1> QED
  BY <1>2, <1>3, <1>4, <1>5, <1>6, <1>7 DEF Step

(* A step of a call leaves no other batch in part.                          *)
LEMMA StepKeepsParts ==
    ASSUME BatchesApart, TypeOK, MutualExclusion, StagedIsFresh, Progress, Orderly,
           NEW g \in Goroutines, Step(g)
    PROVE  PartlyInCall'
<1>1. call[g] # None /\ call[g].request \in BatchRequests
  BY StepMovesItsCall, CallIsTyped DEF StepShape
<1>2. ASSUME NEW r \in BatchRequests, r # call[g].request
      PROVE  Full(r)' \/ Absent(r)'
  <2>1. \A i \in IdsOf(r) : i \notin IdsOf(call[g].request) /\ i \in IdProviders
    BY <1>1, <1>2, IdsOfTyped DEF BatchesApart
  <2>2. \A i \in IdsOf(r) : transactions'[i] = transactions[i]
    BY <2>1, StepStoresOwn
  <2>3. Full(r) \/ Absent(r)
    BY <1>2, OthersOutside DEF Orderly, PartlyInCall
  <2> QED
    BY <2>2, <2>3 DEF Full, Absent, Stored, IdsOf
<1>3. CASE call'[g] # None
  BY <1>2, <1>3, StepKeepsRequest DEF PartlyInCall
<1>4. CASE call'[g] = None
  <2>1. PICK r \in BatchRequests : r = call[g].request
    BY <1>1
  <2>2. Full(r)' \/ Absent(r)'
    BY <1>4, <2>1, EndsWhole DEF Orderly
  <2> QED
    BY <1>2, <2>1, <2>2 DEF PartlyInCall
<1> QED
  BY <1>3, <1>4

(* While nobody holds the mutex, nobody is in a call.                       *)
LEMMA NobodyInside ==
    ASSUME MutualExclusion, mu = None
    PROVE  \A g \in Goroutines : call[g] = None
BY NoneAssumption DEF MutualExclusion

(* A new call finds its batch whole: it is a repeat or the first time.      *)
LEMMA EnterKeepsOrder ==
    ASSUME TypeOK, MutualExclusion, Orderly,
           NEW g \in Goroutines, NEW r \in BatchRequests, Enter(g, r)
    PROVE  Orderly'
<1>1. \A h \in Goroutines : call[h] = None
  BY NobodyInside DEF Enter, MutexFree
<1>2. call' = [call EXCEPT ![g] = Start(r)] /\ transactions' = transactions
  BY DEF Enter, ledger
<1>3. \A h \in Goroutines \ {g} : call'[h] = None
  BY <1>1, <1>2 DEF TypeOK
<1>4. call'[g] = Start(r) /\ Start(r) \in Locals
  BY <1>2, StartIsTyped DEF Enter, TypeOK
<1>5. /\ call'[g].request = r /\ call'[g].next = 1 /\ call'[g].changed = FALSE
      /\ call'[g] # None
  <2>1. Start(r).request = r /\ Start(r).next = 1 /\ Start(r).changed = FALSE
    BY DEF Start
  <2> QED
    BY <1>4, <2>1, NoneAssumption
<1>6. Full(r) \/ Absent(r)
  BY <1>1 DEF Orderly, PartlyInCall
<1>7. Again(g)' \/ FirstBet(g)' \/ FirstUndo(g)'
  <2>1. CASE Full(r)
    BY <1>2, <1>5, <2>1 DEF Again, Full, Stored, IdsOf
  <2>2. CASE Absent(r) /\ r \in BetWinRequests
    BY <1>2, <1>5, <2>2 DEF FirstBet, Absent, Stored, IdsOf
  <2>3. CASE Absent(r) /\ r \in RollbackRequests
    <3>1. ASSUME NEW k \in DOMAIN r.transactions
          PROVE  ~Stored(r.transactions[k].id) /\ ~(k < 1)
      <4>1. r.transactions \in Seq(RollbackTx)
        BY <2>3, RequestsAssumption
      <4>2. k \in Nat \ {0}
        BY <4>1
      <4>3. r.transactions[k].id \in IdsOf(r)
        BY DEF IdsOf
      <4> QED
        BY <2>3, <4>2, <4>3 DEF Absent
    <3> QED
      BY <1>2, <1>5, <2>3, <3>1 DEF FirstUndo, Stored, Batch
  <2> QED
    BY <1>6, <2>1, <2>2, <2>3 DEF BatchRequests
<1>8. OneKind'
  BY <1>3, <1>7 DEF OneKind
<1>9. PartlyInCall'
  <2>1. \A s \in BatchRequests : Full(s) \/ Absent(s)
    BY <1>1 DEF Orderly, PartlyInCall
  <2>2. \A s \in BatchRequests : Full(s)' \/ Absent(s)'
    BY <1>2, <2>1 DEF Full, Absent, Stored, IdsOf
  <2> QED
    BY <2>2 DEF PartlyInCall
<1> QED
  BY <1>8, <1>9 DEF Orderly

(* Calls are of one kind, and batches in part are theirs, in every state.   *)
THEOREM OrderKept ==
    ASSUME BatchesApart
    PROVE  Spec => []Orderly
<1>1. Init => Orderly
  BY IdsOfTyped DEF Init, Orderly, OneKind, PartlyInCall, Absent, Stored
<1>2. TypeOK /\ MutualExclusion /\ StagedIsFresh /\ Progress /\ Orderly /\ [Next]_vars
      => Orderly'
  <2> SUFFICES ASSUME TypeOK, MutualExclusion, StagedIsFresh, Progress, Orderly, [Next]_vars
               PROVE  Orderly'
    OBVIOUS
  <2>1. ASSUME NEW g \in Goroutines, Step(g) PROVE Orderly'
    BY <2>1, StepKeepsOneKind, StepKeepsParts DEF Orderly
  <2>2. ASSUME NEW g \in Goroutines, NEW r \in BatchRequests, Enter(g, r) PROVE Orderly'
    BY <2>2, EnterKeepsOrder
  <2>3. CASE Restart
    <3>1. \A h \in Goroutines : call[h] = None /\ call'[h] = None
      BY <2>3, NobodyInside DEF Restart, Restored, MutexFree
    <3>2. transactions' = transactions
      BY <2>3 DEF Restart, Restored, TypeOK
    <3>3. \A r \in BatchRequests : Full(r) \/ Absent(r)
      BY <3>1 DEF Orderly, PartlyInCall
    <3> QED
      BY <3>1, <3>2, <3>3 DEF Orderly, OneKind, PartlyInCall, Full, Absent, Stored, IdsOf
  <2>4. CASE Quiet
    BY <2>4 DEF Quiet, Orderly, OneKind, PartlyInCall, Again, FirstBet, FirstUndo, Full, Absent,
      Stored, IdsOf, Batch
  <2> QED
    BY <2>1, <2>2, <2>3, <2>4, NextCases
<1>3. Spec => []Progress
  BY ApartRollbacks, ProgressKept
<1> QED
  BY <1>1, <1>2, <1>3, TypeCorrect, MutexExcludes, StagedStaysFresh, PTL DEF Spec

(* Between calls a batch is stored whole or not at all, whatever refusal,   *)
(* panic or restart came in the middle of one.  A batch that repeats an     *)
(* id_provider of another one has no such promise, hence the premise.       *)
THEOREM BatchesAtomic ==
    ASSUME BatchesApart
    PROVE  Spec => []BatchAtomic
<1>1. MutualExclusion /\ Orderly => BatchAtomic
  <2> SUFFICES ASSUME MutualExclusion, Orderly, mu = None, NEW r \in BatchRequests
               PROVE  Full(r) \/ Absent(r)
    BY DEF BatchAtomic, Full, Absent, Stored
  <2> QED
    BY NobodyInside DEF Orderly, PartlyInCall
<1> QED
  BY <1>1, OrderKept, MutexExcludes, PTL
-----------------------------------------------------------------------------
(* Refusals and payments report what is committed                           *)

(* A call still sees the balance it began with committed.                   *)
BeforeIsCommitted ==
    \A g \in Goroutines : call[g] # None =>
       /\ call[g].request.account \in Accounts
       /\ call[g].before = balance[call[g].request.account]

(* What a step of a call keeps of its locals.                               *)
LEMMA StepKeepsBefore ==
    ASSUME TypeOK, NEW g \in Goroutines, Step(g), call'[g] # None
    PROVE  /\ call'[g].request = call[g].request /\ call'[g].before = call[g].before
           /\ balance' = balance
<1>1. ASSUME NEW route, Replay(g, route)
      PROVE  call'[g].before = call[g].before /\ balance' = balance
  <2>1. /\ call[g] \in Locals /\ balance' = balance
        /\ call'[g] = Replayed(call[g], transactions[Tx(g).id])
    BY <1>1, CallIsTyped DEF Replay, AtTx, TypeOK, ledger
  <2> QED
    BY <2>1 DEF Replayed, Locals
<1>2. CASE BetWinApply(g)
  <2>1. /\ call[g] \in Locals /\ balance' = balance
        /\ call'[g] = [Applied(call[g], BetWinRow(g)) EXCEPT
                         !.applied = [call[g].applied EXCEPT ![Tx(g).id] = BetWinRow(g)]]
    BY <1>2, CallIsTyped DEF BetWinApply, Fresh, AtTx, TypeOK
  <2>2. Applied(call[g], BetWinRow(g)).before = call[g].before
    BY <2>1 DEF Applied, Locals
  <2>3. call'[g].before = Applied(call[g], BetWinRow(g)).before
    BY <2>1
  <2> QED
    BY <2>1, <2>2, <2>3, StepKeepsRequest
<1>3. CASE RollbackApply(g)
  <2>1. call[g] \in Locals /\ call'[g] = Applied(call[g], RollbackRow(g)) /\ balance' = balance
    BY <1>3, CallIsTyped DEF RollbackApply, AtTx, TypeOK
  <2> QED
    BY <2>1 DEF Applied, Locals
<1>4. (\E route \in {"betwin", "rollback"} : Replay(g, route)) \/ BetWinApply(g)
      \/ RollbackApply(g) \/ call'[g] = None
  BY DEF Step, ReplayPanics, BetWinTombstoned, BetWinLimited, BetWinInsufficient,
    BetWinCommit, RollbackCommit, Return, TypeOK
<1> QED
  BY <1>1, <1>2, <1>3, <1>4, StepKeepsRequest

(* Nobody else moves the balance of a call under way.                       *)
LEMMA BeforeStaysCommitted == Spec => []BeforeIsCommitted
<1>1. Init => BeforeIsCommitted
  BY DEF Init, BeforeIsCommitted
<1>2. TypeOK /\ MutualExclusion /\ BeforeIsCommitted /\ [Next]_vars => BeforeIsCommitted'
  <2> SUFFICES ASSUME TypeOK, MutualExclusion, BeforeIsCommitted, [Next]_vars
               PROVE  BeforeIsCommitted'
    OBVIOUS
  <2>1. ASSUME NEW g \in Goroutines, Step(g) PROVE BeforeIsCommitted'
    <3>1. call[g] # None /\ \A h \in Goroutines \ {g} : call'[h] = None
      BY <2>1, OthersOutside, StepMovesItsCall DEF StepShape
    <3> QED
      BY <2>1, <3>1, StepKeepsBefore DEF BeforeIsCommitted
  <2>2. ASSUME NEW g \in Goroutines, NEW r \in BatchRequests, Enter(g, r)
        PROVE  BeforeIsCommitted'
    <3>1. \A h \in Goroutines : call'[h] = IF h = g THEN Start(r) ELSE call[h]
      BY <2>2 DEF Enter, TypeOK
    <3>2. Start(r).request = r /\ Start(r).before = balance[r.account]
      BY DEF Start
    <3>3. r.account \in Accounts /\ balance' = balance
      BY <2>2 DEF Enter, ledger
    <3> QED
      BY <3>1, <3>2, <3>3 DEF BeforeIsCommitted
  <2>3. CASE Restart
    BY <2>3 DEF Restart, Restored, BeforeIsCommitted
  <2>4. CASE mu = None /\ call' = call
    BY <2>4, NobodyInside DEF BeforeIsCommitted
  <2>5. CASE balance' = balance /\ call' = call
    BY <2>5 DEF BeforeIsCommitted
  <2>6. ASSUME NEW r, FreespinsFinish(r) PROVE (mu = None /\ call' = call)
    BY <2>6 DEF FreespinsFinish, FreespinsFinishUnknown, FreespinsFinishCanceled,
      FreespinsFinishNoAccount, FreespinsFinishUnreadable, FreespinsFinishReplay,
      FreespinsFinishCredit, FinishRefused, MutexFree
  <2>7. ASSUME NEW r, UnknownAccount(r) \/ Balance(r) \/ Finish(r)
        PROVE  balance' = balance /\ call' = call
    BY <2>7 DEF UnknownAccount, Balance, Finish, ReadAccount, ledger
  <2>8. ASSUME NEW i, RecordFreespinsIssue(i) \/ CancelFreespinsIssue(i)
        PROVE  balance' = balance /\ call' = call
    BY <2>8 DEF RecordFreespinsIssue, CancelFreespinsIssue
  <2>9. UNCHANGED vars => balance' = balance /\ call' = call
    BY DEF vars, ledger
  <2> QED
    BY <2>1, <2>2, <2>3, <2>4, <2>5, <2>6, <2>7, <2>8, <2>9 DEF Next
<1> QED
  BY <1>1, <1>2, TypeCorrect, MutexExcludes, PTL DEF Spec

(* The balance an answer must report.                                       *)
ReportsCommitted ==
    /\ reply' # reply /\ reply' # None
    /\ \/ balance' # balance
       \/ reply'.code \in {"100", "105"}
    => \E a \in Accounts : /\ reply'.balance = balance'[a]
                           /\ balance'[a] # balance[a] \/ reply'.request.account = a

(* The end of a batch that changed something answers the balance it stores. *)
LEMMA CommitReports ==
    ASSUME TypeOK, BeforeIsCommitted, NEW g \in Goroutines,
           BetWinCommit(g) \/ RollbackCommit(g)
    PROVE  ReportsCommitted
<1>1. /\ call[g] # None /\ CommitBalance(call[g]) /\ reply' = AnswerOf(call[g])
      /\ call[g].request.account \in Accounts
  BY DEF BetWinCommit, RollbackCommit, AtEnd, Return, Respond, BeforeIsCommitted
<1>2. CASE call[g].changed
  <2>1. balance'[call[g].request.account] = call[g].running
    BY <1>1, <1>2 DEF CommitBalance, TypeOK
  <2>2. reply'.balance = call[g].running /\ reply'.request = call[g].request
    BY <1>1, <1>2 DEF AnswerOf, Answer
  <2> QED
    BY <1>1, <2>1, <2>2 DEF ReportsCommitted
<1>3. CASE ~call[g].changed
  <2>1. balance' = balance
    BY <1>1, <1>3 DEF CommitBalance
  <2>2. reply'.code = "200"
    BY <1>1 DEF AnswerOf, Answer
  <2> QED
    BY <2>1, <2>2 DEF ReportsCommitted
<1> QED
  BY <1>2, <1>3

(* Every other return leaves the balance alone.                             *)
LEMMA NextReports ==
    ASSUME TypeOK, BeforeIsCommitted, [Next]_vars
    PROVE  ReportsCommitted
<1>1. ASSUME NEW g \in Goroutines, BetWinCommit(g) \/ RollbackCommit(g) PROVE ReportsCommitted
  BY <1>1, CommitReports
<1>2. ASSUME NEW g \in Goroutines, BetWinLimited(g) \/ BetWinInsufficient(g)
      PROVE  ReportsCommitted
  <2>1. /\ call[g] # None /\ balance' = balance
        /\ \E code : reply' = Answer(call[g].request, code, Before(g), 0, <<>>)
    BY <1>2 DEF BetWinLimited, BetWinInsufficient, Fresh, AtTx, Return, Respond, ledger
  <2> QED
    BY <2>1 DEF Before, Answer, BeforeIsCommitted, ReportsCommitted
<1>3. ASSUME NEW g \in Goroutines,
             BetWinTombstoned(g) \/ \E route \in {"betwin", "rollback"} : ReplayPanics(g, route)
      PROVE  ReportsCommitted
  <2>1. balance' = balance /\ reply'.code \in {"409", "panic"}
    BY <1>3 DEF BetWinTombstoned, ReplayPanics, Return, Respond, Refusal, Answer, ledger
  <2> QED
    BY <2>1 DEF ReportsCommitted
<1>4. ASSUME reply' = reply \/ reply' = None PROVE ReportsCommitted
  BY <1>4 DEF ReportsCommitted
<1>5. ASSUME NEW g, \/ \E route : Replay(g, route)
                    \/ BetWinApply(g) \/ RollbackApply(g) \/ \E r : Enter(g, r)
      PROVE  reply' = reply \/ reply' = None
  BY <1>5 DEF Replay, BetWinApply, RollbackApply, Enter
<1>6. ASSUME NEW r, UnknownAccount(r) \/ Balance(r) \/ Finish(r) PROVE ReportsCommitted
  <2>1. balance' = balance /\ reply'.code \in {"101", "200"}
    BY <1>6 DEF UnknownAccount, Balance, Finish, ReadAccount, Respond, Refusal, Answer, ledger
  <2> QED
    BY <2>1 DEF ReportsCommitted
<1>7. ASSUME NEW r \in FinishRequests, FreespinsFinish(r) PROVE ReportsCommitted
  <2>1. CASE FreespinsFinishCredit(r)
    <3> DEFINE a == freespinsIssues[r.issue].account
    <3>1. a \in Accounts /\ balance' = [balance EXCEPT ![a] = balance[a] + r.amount]
      BY <2>1 DEF FreespinsFinishCredit
    <3>2. reply'.balance = balance[a] + r.amount
      BY <2>1 DEF FreespinsFinishCredit, Respond, Answer
    <3>3. reply'.balance = balance'[a]
      BY <3>1, <3>2 DEF TypeOK
    <3>4. reply'.code = "200"
      BY <2>1 DEF FreespinsFinishCredit, Respond, Answer
    <3>5. balance' # balance => balance'[a] # balance[a]
      BY <3>1 DEF TypeOK
    <3> QED
      BY <3>1, <3>3, <3>4, <3>5 DEF ReportsCommitted
  <2>2. CASE ~FreespinsFinishCredit(r)
    <3>1. balance' = balance /\ reply'.code \notin {"100", "105"}
      BY <1>7, <2>2 DEF FreespinsFinish, FreespinsFinishUnknown, FreespinsFinishCanceled,
        FreespinsFinishNoAccount, FreespinsFinishUnreadable, FreespinsFinishReplay,
        FinishRefused, Respond, Refusal, Answer, ledger
    <3> QED
      BY <3>1 DEF ReportsCommitted
  <2> QED
    BY <2>1, <2>2
<1>8. ASSUME NEW i, RecordFreespinsIssue(i) \/ CancelFreespinsIssue(i) PROVE reply' = None
  BY <1>8 DEF RecordFreespinsIssue, CancelFreespinsIssue
<1>9. Restart => reply' = None
  BY DEF Restart, Restored
<1>10. UNCHANGED vars => reply' = reply
  BY DEF vars
<1> QED
  BY <1>1, <1>2, <1>3, <1>4, <1>5, <1>6, <1>7, <1>8, <1>9, <1>10 DEF Next, Step

(* An answer that moved money, or refused to, reports the committed balance *)
(* of the account: 100 and 105 do not show the part of the batch that was   *)
(* worked out before the refusal.                                           *)
THEOREM AnswersAreCommitted == Spec => AnswersCommitted
<1>1. TypeOK /\ BeforeIsCommitted /\ [Next]_vars => [ReportsCommitted]_vars
  BY NextReports
<1> QED
  BY <1>1, TypeCorrect, BeforeStaysCommitted, PTL DEF Spec, AnswersCommitted, ReportsCommitted
-----------------------------------------------------------------------------
(* Freespins                                                                *)

FreespinsAnswers == {x \in answered : x.request.route = "freespins_finish"}

(* The answers given so far to freespins results are of finished issues.    *)
OnlyFinishedPaid ==
    \A x \in FreespinsAnswers : x.request.issue \in Issues /\ Status(x.request.issue) = "finished"

(* An answer that is not to a freespins result leaves those as they were.   *)
LEMMA OtherAnswers ==
    ASSUME NEW answer, Respond(answer), answer.request.route # "freespins_finish"
    PROVE  FreespinsAnswers' = FreespinsAnswers
BY DEF Respond, FreespinsAnswers

(* Calls answer other routes.                                               *)
LEMMA StepAnswersBatch ==
    ASSUME TypeOK, NEW g \in Goroutines, Step(g)
    PROVE  FreespinsAnswers' = FreespinsAnswers /\ freespinsIssues' = freespinsIssues
<1>1. call[g] # None /\ call[g].request.route # "freespins_finish"
  <2>1. call[g] # None /\ call[g].request \in BatchRequests
    BY StepMovesItsCall, CallIsTyped DEF StepShape
  <2> QED
    BY <2>1, RequestsAssumption DEF BatchRequests
<1>2. ASSUME NEW answer, Respond(answer), answer.request = call[g].request
      PROVE  FreespinsAnswers' = FreespinsAnswers
  BY <1>1, <1>2, OtherAnswers
<1>3. \/ answered' = answered
      \/ \E answer : Respond(answer) /\ answer.request = call[g].request
  BY DEF Step, Replay, ReplayPanics, BetWinTombstoned, BetWinLimited, BetWinInsufficient,
    BetWinApply, BetWinCommit, RollbackApply, RollbackCommit, Return, Refusal, AnswerOf, Answer
<1>4. freespinsIssues' = freespinsIssues
  BY DEF Step, Replay, ReplayPanics, BetWinTombstoned, BetWinLimited, BetWinInsufficient,
    BetWinApply, BetWinCommit, RollbackApply, RollbackCommit, ledger
<1>5. answered' = answered => FreespinsAnswers' = FreespinsAnswers
  BY DEF FreespinsAnswers
<1> QED
  BY <1>2, <1>3, <1>4, <1>5

(* A 200 to a freespins result is of an issue that was finished, or is now. *)
LEMMA FinishPays ==
    ASSUME TypeOK, OnlyFinishedPaid, NEW r \in FinishRequests, FreespinsFinish(r)
    PROVE  OnlyFinishedPaid'
<1>1. r.issue \in Issues
  BY RequestsAssumption
<1>2. CASE FreespinsFinishCredit(r)
  <2>1. /\ freespinsIssues'[r.issue].status = "finished" /\ freespinsIssues'[r.issue] # None
        /\ \A i \in Issues \ {r.issue} : freespinsIssues'[i] = freespinsIssues[i]
    <3>1. \E row \in StoredFreespinsIssue :
             /\ row.status = "finished"
             /\ freespinsIssues' = [freespinsIssues EXCEPT ![r.issue] = row]
      <4> DEFINE a == freespinsIssues[r.issue].account
                 row == [account |-> a, status |-> "finished", amount |-> r.amount,
                         balanceAfter |-> balance[a] + r.amount]
      <4>1. freespinsIssues' = [freespinsIssues EXCEPT ![r.issue] = row]
        BY <1>2 DEF FreespinsFinishCredit, SetIssue
      <4>2. freespinsIssues[r.issue] \in StoredFreespinsIssue
        BY <1>1, <1>2 DEF FreespinsFinishCredit, Payable, Status, TypeOK
      <4>3. a \in {IssueAccount[i] : i \in Issues} /\ a \in Accounts
        BY <1>2, <4>2 DEF FreespinsFinishCredit, StoredFreespinsIssue
      <4>4. r.amount \in Nat /\ balance[a] \in Int
        BY <4>3, RequestsAssumption, AccountsAssumption DEF TypeOK
      <4>5. row \in StoredFreespinsIssue
        BY <4>3, <4>4 DEF StoredFreespinsIssue
      <4> QED
        BY <4>1, <4>5
    <3> QED
      BY <1>1, <3>1, NoneAssumption DEF TypeOK
  <2>2. answered' = answered \cup {Answer(r, "200", balance[freespinsIssues[r.issue].account] + r.amount, 0, <<>>)}
    BY <1>2 DEF FreespinsFinishCredit, Respond, Answer, Lasting
  <2>3. \A x \in FreespinsAnswers' : x \in FreespinsAnswers \/ x.request = r
    BY <2>2 DEF FreespinsAnswers, Answer
  <2> QED
    BY <1>1, <2>1, <2>3 DEF OnlyFinishedPaid, Status
<1>3. CASE FreespinsFinishReplay(r)
  <2>1. Status(r.issue) = "finished" /\ freespinsIssues' = freespinsIssues
    BY <1>3 DEF FreespinsFinishReplay, ledger
  <2>2. answered' = answered \cup {Answer(r, "200", Repeat(r.issue), 0, <<>>)}
    BY <1>3 DEF FreespinsFinishReplay, Respond, Answer, Lasting
  <2>3. \A x \in FreespinsAnswers' : x \in FreespinsAnswers \/ x.request = r
    BY <2>2 DEF FreespinsAnswers, Answer
  <2> QED
    BY <1>1, <2>1, <2>3 DEF OnlyFinishedPaid, Status
<1>4. ASSUME NEW code \in {"610", "605", "101", "500"}, FinishRefused(r, code)
      PROVE  OnlyFinishedPaid'
  <2>1. answered' = answered /\ freespinsIssues' = freespinsIssues
    BY <1>4 DEF FinishRefused, Respond, Refusal, Answer, Lasting, ledger
  <2> QED
    BY <2>1 DEF OnlyFinishedPaid, FreespinsAnswers, Status
<1> QED
  BY <1>2, <1>3, <1>4 DEF FreespinsFinish, FreespinsFinishUnknown, FreespinsFinishCanceled,
    FreespinsFinishNoAccount, FreespinsFinishUnreadable

(* A result that was answered with 200 is of an issue that is finished for  *)
(* good, so a cancel comes too late for it.                                 *)
LEMMA PaidIsFinished == Spec => []OnlyFinishedPaid
<1>1. Init => OnlyFinishedPaid
  BY DEF Init, OnlyFinishedPaid, FreespinsAnswers
<1>2. TypeOK /\ OnlyFinishedPaid /\ [Next]_vars => OnlyFinishedPaid'
  <2> SUFFICES ASSUME TypeOK, OnlyFinishedPaid, [Next]_vars PROVE OnlyFinishedPaid'
    OBVIOUS
  <2>0. CASE FreespinsAnswers' = FreespinsAnswers /\ freespinsIssues' = freespinsIssues
    BY <2>0 DEF OnlyFinishedPaid, Status
  <2>1. ASSUME NEW g \in Goroutines, Step(g) PROVE OnlyFinishedPaid'
    BY <2>0, <2>1, StepAnswersBatch
  <2>2. ASSUME NEW r \in FinishRequests, FreespinsFinish(r) PROVE OnlyFinishedPaid'
    BY <2>2, FinishPays
  <2>3. ASSUME NEW r, UnknownAccount(r) PROVE answered' = answered /\ freespinsIssues' = freespinsIssues
    BY <2>3 DEF UnknownAccount, Respond, Refusal, Answer, Lasting, ledger
  <2>4. ASSUME NEW r, Balance(r) \/ Finish(r)
        PROVE  FreespinsAnswers' = FreespinsAnswers /\ freespinsIssues' = freespinsIssues
    <3>1. r.route # "freespins_finish" /\ freespinsIssues' = freespinsIssues
          /\ Respond(Answer(r, "200", balance[r.account], 0, <<>>))
      BY <2>4 DEF Balance, Finish, ReadAccount, ledger
    <3> QED
      BY <3>1, OtherAnswers DEF Answer
  <2>5. ASSUME NEW i \in Issues, RecordFreespinsIssue(i) \/ CancelFreespinsIssue(i)
        PROVE  OnlyFinishedPaid'
    <3>1. /\ Status(i) # "finished" /\ FreespinsAnswers' = FreespinsAnswers
          /\ \A j \in Issues \ {i} : freespinsIssues'[j] = freespinsIssues[j]
      BY <2>5 DEF RecordFreespinsIssue, CancelFreespinsIssue, Cancelable, SetIssue, TypeOK,
        FreespinsAnswers
    <3> QED
      BY <3>1 DEF OnlyFinishedPaid, Status
  <2>6. ASSUME NEW g, NEW r, Enter(g, r) PROVE answered' = answered /\ freespinsIssues' = freespinsIssues
    BY <2>6 DEF Enter, ledger
  <2>7. Restart \/ UNCHANGED vars => answered' = answered /\ freespinsIssues' = freespinsIssues
    BY DEF Restart, Restored, vars, ledger
  <2>8. answered' = answered => FreespinsAnswers' = FreespinsAnswers
    BY DEF FreespinsAnswers
  <2> QED
    BY <2>0, <2>1, <2>2, <2>3, <2>4, <2>5, <2>6, <2>7, <2>8 DEF Next
<1> QED
  BY <1>1, <1>2, TypeCorrect, PTL DEF Spec

(* No step touches the row of a canceled issue. *)
LEMMA CanceledStays ==
    ASSUME TypeOK, [Next]_vars, NEW i \in Issues, Status(i) = "canceled"
    PROVE  freespinsIssues'[i] = freespinsIssues[i]
<1>1. ASSUME NEW r \in FinishRequests, FreespinsFinish(r)
      PROVE  freespinsIssues'[i] = freespinsIssues[i]
  <2>1. CASE FreespinsFinishCredit(r)
    <3>1. r.issue # i
      BY <2>1 DEF FreespinsFinishCredit, Payable
    <3>2. \E row : freespinsIssues' = [freespinsIssues EXCEPT ![r.issue] = row]
      BY <2>1 DEF FreespinsFinishCredit, SetIssue
    <3> QED
      BY <3>1, <3>2 DEF TypeOK
  <2>2. CASE ~FreespinsFinishCredit(r)
    BY <1>1, <2>2 DEF FreespinsFinish, FreespinsFinishUnknown, FreespinsFinishCanceled,
      FreespinsFinishNoAccount, FreespinsFinishUnreadable, FreespinsFinishReplay,
      FinishRefused, ledger
  <2> QED
    BY <2>1, <2>2
<1>2. ASSUME NEW j \in Issues, RecordFreespinsIssue(j) \/ CancelFreespinsIssue(j)
      PROVE  freespinsIssues'[i] = freespinsIssues[i]
  <2>1. j # i /\ \E row : freespinsIssues' = [freespinsIssues EXCEPT ![j] = row]
    BY <1>2 DEF RecordFreespinsIssue, CancelFreespinsIssue, Cancelable, SetIssue
  <2> QED
    BY <2>1 DEF TypeOK
<1>3. ASSUME NEW g \in Goroutines, Step(g) PROVE freespinsIssues' = freespinsIssues
  BY <1>3, StepAnswersBatch
<1>4. ASSUME NEW r, \/ UnknownAccount(r) \/ Balance(r) \/ Finish(r)
                    \/ \E g \in Goroutines : Enter(g, r)
      PROVE  freespinsIssues' = freespinsIssues
  BY <1>4 DEF UnknownAccount, Balance, Finish, ReadAccount, Enter, ledger
<1>5. Restart \/ UNCHANGED vars => freespinsIssues' = freespinsIssues
  BY DEF Restart, Restored, vars, ledger
<1> QED
  BY <1>1, <1>2, <1>3, <1>4, <1>5 DEF Next

(* A canceled issue is never credited, whatever races its cancel: it was    *)
(* not paid before, and its row stays and no result of it is answered 200   *)
(* in any later step, across restarts too.                                  *)
THEOREM CanceledIsNeverPaid == Spec => CanceledNeverPaid
<1>1. TypeOK /\ OnlyFinishedPaid' /\ [Next]_vars =>
        \A i \in Issues : Status(i) = "canceled" =>
          /\ freespinsIssues'[i] = freespinsIssues[i]
          /\ \A x \in answered' :
                ~(x.request.route = "freespins_finish" /\ x.request.issue = i)
  <2> SUFFICES ASSUME TypeOK, OnlyFinishedPaid', [Next]_vars,
                      NEW i \in Issues, Status(i) = "canceled"
               PROVE  /\ freespinsIssues'[i] = freespinsIssues[i]
                      /\ \A x \in answered' :
                            ~(x.request.route = "freespins_finish" /\ x.request.issue = i)
    OBVIOUS
  <2>1. freespinsIssues'[i] = freespinsIssues[i]
    BY CanceledStays
  <2>2. Status(i)' = "canceled"
    BY <2>1 DEF Status
  <2> QED
    BY <2>1, <2>2 DEF OnlyFinishedPaid, FreespinsAnswers
<1> QED
  BY <1>1, PaidIsFinished, TypeCorrect, PTL DEF Spec, CanceledNeverPaid
-----------------------------------------------------------------------------
(* Own round ids                                                            *)

(* The round table gives no id twice, and answers were taken from it.       *)
RoundsApart ==
    /\ \A p \in ProviderRounds : rounds[p] < nextRound
    /\ \A p, q \in ProviderRounds : rounds[p] # 0 /\ rounds[p] = rounds[q] => p = q
    /\ \A x \in answered : x.round # 0 => /\ x.request.round \in ProviderRounds
                                          /\ x.round = rounds[x.request.round]

(* A step that allocates nothing and answers no round.                      *)
NoRound ==
    /\ rounds' = rounds /\ nextRound' = nextRound
    /\ \A x \in answered' : x \in answered \/ x.round = 0

(* A commit answers the id its round has from then on.                      *)
LEMMA CommitKeepsRoundsApart ==
    ASSUME TypeOK, RoundsApart, NEW g \in Goroutines, BetWinCommit(g) \/ RollbackCommit(g)
    PROVE  RoundsApart'
<1>1. PICK p \in ProviderRounds : p = call[g].request.round
  BY CallIsTyped DEF BetWinCommit, RollbackCommit, AtEnd
<1>2. RoundIDFor(p) /\ Respond(AnswerOf(call[g]))
  BY <1>1 DEF BetWinCommit, RollbackCommit, Return
<1>3. /\ rounds \in [ProviderRounds -> Nat] /\ nextRound \in Nat \ {0}
      /\ rounds' = [rounds EXCEPT ![p] = OwnRound(p)]
      /\ nextRound' = IF rounds[p] = 0 THEN nextRound + 1 ELSE nextRound
      /\ OwnRound(p) = IF rounds[p] # 0 THEN rounds[p] ELSE nextRound
  BY <1>2 DEF TypeOK, RoundIDFor, OwnRound
<1>4. /\ rounds'[p] = OwnRound(p)
      /\ \A q \in ProviderRounds \ {p} : rounds'[q] = rounds[q]
  BY <1>3
<1>5. \A q \in ProviderRounds : rounds[q] # 0 => rounds'[q] = rounds[q]
  BY <1>3, <1>4
<1>6. \A q \in ProviderRounds : rounds'[q] < nextRound'
  BY <1>3, <1>4 DEF RoundsApart
<1>7. \A q, s \in ProviderRounds : rounds'[q] # 0 /\ rounds'[q] = rounds'[s] => q = s
  BY <1>3, <1>4 DEF RoundsApart
<1>8. ASSUME NEW x \in answered', x.round # 0
      PROVE  x.request.round \in ProviderRounds /\ x.round = rounds'[x.request.round]
  <2>1. x \in answered \/ x = AnswerOf(call[g])
    BY <1>2 DEF Respond
  <2>2. CASE x \in answered
    BY <1>5, <1>8, <2>2 DEF RoundsApart
  <2>3. CASE x = AnswerOf(call[g])
    BY <1>1, <1>4, <2>3 DEF AnswerOf, Answer
  <2> QED
    BY <2>1, <2>2, <2>3
<1> QED
  BY <1>6, <1>7, <1>8 DEF RoundsApart

(* While the process lives, a round keeps the own id it was first answered  *)
(* with, and no other round gets it.  A restart starts the ids anew, hence  *)
(* the premise.                                                             *)
THEOREM OwnRoundsStayUnique ==
    ASSUME ~Restarts
    PROVE  Spec => []OwnRoundsUnique
<1>1. Init => RoundsApart
  BY DEF Init, RoundsApart
<1>2. TypeOK /\ RoundsApart /\ [Next]_vars => RoundsApart'
  <2> SUFFICES ASSUME TypeOK, RoundsApart, [Next]_vars PROVE RoundsApart'
    OBVIOUS
  <2>1. CASE NoRound
    BY <2>1 DEF NoRound, RoundsApart
  <2>2. ASSUME NEW g \in Goroutines, Step(g) PROVE RoundsApart'
    <3>1. CASE BetWinCommit(g) \/ RollbackCommit(g)
      BY <3>1, CommitKeepsRoundsApart
    <3>2. ASSUME NEW route, Replay(g, route) PROVE NoRound
      BY <3>2 DEF Replay, NoRound, ledger
    <3>3. BetWinApply(g) \/ RollbackApply(g) => NoRound
      BY DEF BetWinApply, RollbackApply, NoRound
    <3>4. ASSUME NEW route, ReplayPanics(g, route) PROVE NoRound
      BY <3>4 DEF ReplayPanics, Return, Respond, Refusal, Answer, NoRound, ledger
    <3>5. BetWinTombstoned(g) \/ BetWinLimited(g) \/ BetWinInsufficient(g) => NoRound
      BY DEF BetWinTombstoned, BetWinLimited, BetWinInsufficient, Return, Respond, Refusal,
        Answer, NoRound, ledger
    <3> QED
      BY <2>1, <2>2, <3>1, <3>2, <3>3, <3>4, <3>5 DEF Step
  <2>3. ASSUME NEW r, FreespinsFinish(r) PROVE NoRound
    BY <2>3 DEF FreespinsFinish, FreespinsFinishUnknown, FreespinsFinishCanceled,
      FreespinsFinishNoAccount, FreespinsFinishUnreadable, FreespinsFinishReplay,
      FreespinsFinishCredit, FinishRefused, Respond, Refusal, Answer, NoRound, ledger
  <2>4. ASSUME NEW r, UnknownAccount(r) \/ Balance(r) \/ Finish(r) PROVE NoRound
    BY <2>4 DEF UnknownAccount, Balance, Finish, ReadAccount, Respond, Refusal, Answer, NoRound,
      ledger
  <2>5. ASSUME NEW g, NEW r, Enter(g, r) PROVE NoRound
    BY <2>5 DEF Enter, NoRound, ledger
  <2>6. ASSUME NEW i, RecordFreespinsIssue(i) \/ CancelFreespinsIssue(i) PROVE NoRound
    BY <2>6 DEF RecordFreespinsIssue, CancelFreespinsIssue, NoRound
  <2>7. ~Restart
    BY DEF Restart, Restored
  <2>8. UNCHANGED vars => NoRound
    BY DEF vars, ledger, NoRound
  <2> QED
    BY <2>1, <2>2, <2>3, <2>4, <2>5, <2>6, <2>7, <2>8 DEF Next
<1>3. TypeOK /\ RoundsApart => OwnRoundsUnique
  <2> SUFFICES ASSUME TypeOK, RoundsApart, NEW x \in answered, NEW y \in answered,
                      x.round # 0, y.round # 0
               PROVE  (x.request.round = y.request.round) <=> (x.round = y.round)
    BY DEF OwnRoundsUnique
  <2> QED
    BY DEF RoundsApart
<1> QED
  BY <1>1, <1>2, <1>3, TypeCorrect, PTL DEF Spec
-----------------------------------------------------------------------------
(* Repeats are told what the first time was told                            *)

(* The row of i as g's call sees it, stored or in the working copy.         *)
RowOf(g, i) == IF transactions[i] # None THEN transactions[i] ELSE call[g].applied[i]

(* What the locals of a call say of the rows it walked past.                *)
Walking(g) ==
    /\ call[g].next <= Len(Batch(g)) + 1
    /\ Len(call[g].ids) = call[g].next - 1
    /\ \A k \in 1..(call[g].next - 1) : call[g].ids[k] = RowOf(g, Batch(g)[k].id).id
    /\ call[g].next > 1 =>
          LET last == RowOf(g, Batch(g)[call[g].next - 1].id).balanceAfter IN
          IF call[g].changed THEN call[g].running = last ELSE call[g].replayed = last

AllWalking == \A g \in Goroutines : call[g] # None => Walking(g)

(* Walking past one more transaction adds its row to what the locals say.   *)
LEMMA WalkOn ==
    ASSUME NEW g \in Goroutines, Walking(g),
           NEW b, Batch(g) = b, Batch(g)' = b, Len(b) \in Nat,
           NEW n \in Nat \ {0}, call[g].next = n, call'[g].next = n + 1, n <= Len(b),
           NEW row \in StoredTransaction, call[g].ids \in Seq(Nat),
           call'[g].ids = Append(call[g].ids, row.id),
           IF call'[g].changed THEN call'[g].running = row.balanceAfter
                               ELSE call'[g].replayed = row.balanceAfter,
           RowOf(g, b[n].id)' = row,
           \A k \in 1..(n - 1) : RowOf(g, b[k].id)' = RowOf(g, b[k].id)
    PROVE  Walking(g)'
<1>1. /\ Len(call[g].ids) = n - 1
      /\ \A k \in 1..(n - 1) : call[g].ids[k] = RowOf(g, b[k].id).id
  BY DEF Walking
<1>2. PICK ids \in Seq(Nat) : ids = call[g].ids
  OBVIOUS
<1>3. PICK i \in Nat : i = row.id
  BY DEF StoredTransaction
<1>4. call'[g].ids = Append(ids, i) /\ Len(ids) = n - 1
  BY <1>1, <1>2, <1>3
<1>5. /\ Len(Append(ids, i)) = n /\ Append(ids, i)[n] = i
      /\ \A k \in 1..(n - 1) : Append(ids, i)[k] = ids[k]
  BY <1>4
<1>6. ASSUME NEW k \in 1..n PROVE call'[g].ids[k] = RowOf(g, b[k].id)'.id
  <2>1. CASE k = n
    BY <1>3, <1>4, <1>5, <2>1 DEF RowOf
  <2>2. CASE k \in 1..(n - 1)
    <3>1. call'[g].ids[k] = RowOf(g, b[k].id).id
      BY <1>1, <1>2, <1>4, <1>5, <2>2
    <3>2. RowOf(g, b[k].id)' = RowOf(g, b[k].id)
      BY <2>2
    <3> QED
      BY <3>1, <3>2
  <2>3. k = n \/ k \in 1..(n - 1)
    OBVIOUS
  <2> QED
    BY <2>1, <2>2, <2>3
<1>7. /\ (n + 1) - 1 = n /\ n + 1 <= Len(b) + 1
      /\ Len(call'[g].ids) = n
  BY <1>4, <1>5
<1> QED
  BY <1>6, <1>7 DEF Walking, RowOf

(* The locals of a call follow its batch, row by row.                       *)
LEMMA StepKeepsWalking ==
    ASSUME BatchesApart, TypeOK, MutualExclusion, OneKind, AllWalking,
           NEW g \in Goroutines, Step(g)
    PROVE  AllWalking'
<1>0. \A h \in Goroutines \ {g} : call'[h] = None
  BY OthersOutside
<1>1. call[g] # None /\ Walking(g) /\ call[g] \in Locals
  BY StepMovesItsCall, CallIsTyped DEF StepShape, AllWalking
<1>2. PICK b : b = Batch(g)
  OBVIOUS
<1>3. PICK n \in Nat \ {0} : n = call[g].next
  BY <1>1, PlaceInBatch
<1>4. /\ Len(b) \in Nat /\ DOMAIN b = 1..Len(b) /\ call[g].ids \in Seq(Nat)
      /\ \A k \in 1..Len(b) : b[k].id \in IdProviders
  BY <1>1, <1>2, PlaceInBatch DEF Locals
<1>5. \A k \in 1..Len(b) : b[k].id = b[n].id /\ n \in 1..Len(b) => k = n
  BY <1>1, <1>2, <1>4, PlaceInBatch DEF BatchesApart, Batch
<1>6. ASSUME NEW route \in {"betwin", "rollback"}, Replay(g, route) PROVE Walking(g)'
  <2>1. /\ AtTx(g, route) /\ Seen(g) /\ transactions' = transactions /\ n <= Len(b)
        /\ call'[g] = Replayed(call[g], transactions[Tx(g).id])
    BY <1>2, <1>3, <1>6 DEF Replay, AtTx, TypeOK, ledger
  <2>2. Tx(g).id = b[n].id /\ transactions[b[n].id] # None
    BY <1>2, <1>3, <2>1 DEF Tx, Seen
  <2>3. PICK row \in StoredTransaction : row = transactions[b[n].id]
    BY <1>4, <2>1, <2>2 DEF TypeOK
  <2>4. /\ call'[g].next = n + 1 /\ call'[g].ids = Append(call[g].ids, row.id)
        /\ call'[g].changed = call[g].changed /\ call'[g].replayed = row.balanceAfter
        /\ call'[g].request = call[g].request /\ call'[g].applied = call[g].applied
    BY <1>1, <1>3, <2>1, <2>2, <2>3 DEF Replayed, Locals
  <2>5. ~call[g].changed
    BY <2>1, RepeatsAreWhole DEF Again
  <2>6. /\ RowOf(g, b[n].id)' = row /\ Batch(g)' = b
        /\ \A k \in 1..(n - 1) : RowOf(g, b[k].id)' = RowOf(g, b[k].id)
    BY <1>2, <2>1, <2>2, <2>3, <2>4 DEF RowOf, Batch
  <2> QED
    BY <1>1, <1>2, <1>3, <1>4, <2>1, <2>4, <2>5, <2>6, WalkOn
<1>7. ASSUME BetWinApply(g) PROVE Walking(g)'
  <2>1. /\ AtTx(g, "betwin") /\ ~Seen(g) /\ transactions' = transactions /\ n <= Len(b)
    BY <1>2, <1>3, <1>7 DEF BetWinApply, Fresh, AtTx
  <2>2. Tx(g).id = b[n].id /\ transactions[b[n].id] = None
    BY <1>2, <1>3, <2>1 DEF Tx, Seen
  <2>3. PICK row \in StoredTransaction : row = BetWinRow(g)
    BY <1>7, BetWinRowIsTyped DEF BetWinApply
  <2>4. /\ call'[g].next = n + 1 /\ call'[g].ids = Append(call[g].ids, row.id)
        /\ call'[g].changed = TRUE /\ call'[g].running = row.balanceAfter
    <3>1. call'[g] = [Applied(call[g], BetWinRow(g)) EXCEPT
                        !.applied = [call[g].applied EXCEPT ![Tx(g).id] = BetWinRow(g)]]
      BY <1>7 DEF BetWinApply, TypeOK
    <3>2. /\ call'[g].next = Applied(call[g], row).next
          /\ call'[g].ids = Applied(call[g], row).ids
          /\ call'[g].changed = Applied(call[g], row).changed
          /\ call'[g].running = Applied(call[g], row).running
      BY <2>3, <3>1
    <3> QED
      BY <1>1, <1>3, <3>2 DEF Applied, Locals
  <2>5. /\ call'[g].request = call[g].request
        /\ call'[g].applied = [call[g].applied EXCEPT ![b[n].id] = row]
        /\ call[g].applied \in [IdProviders -> StoredTransaction \cup {None}]
    BY <1>7, <2>2, <2>3, BetWinApplyStages
  <2>6. RowOf(g, b[n].id)' = row /\ Batch(g)' = b
    BY <1>2, <1>4, <2>1, <2>2, <2>5 DEF RowOf, Batch
  <2>7. ASSUME NEW k \in 1..(n - 1) PROVE RowOf(g, b[k].id)' = RowOf(g, b[k].id)
    <3>1. k \in 1..Len(b) /\ k # n /\ n \in 1..Len(b)
      BY <1>4, <2>1
    <3>2. b[k].id # b[n].id /\ b[k].id \in IdProviders
      BY <1>4, <1>5, <3>1
    <3> QED
      BY <2>1, <2>5, <3>2 DEF RowOf
  <2> QED
    BY <1>1, <1>2, <1>3, <1>4, <2>1, <2>4, <2>6, <2>7, WalkOn
<1>8. ASSUME RollbackApply(g) PROVE Walking(g)'
  <2>1. /\ AtTx(g, "rollback") /\ ~Seen(g) /\ n <= Len(b)
    BY <1>2, <1>3, <1>8 DEF RollbackApply, AtTx
  <2>2. Tx(g).id = b[n].id /\ transactions[b[n].id] = None
    BY <1>2, <1>3, <2>1 DEF Tx, Seen
  <2>3. PICK row \in StoredTransaction : row = RollbackRow(g)
    BY <1>8, RollbackRowIsTyped DEF RollbackApply
  <2>4. /\ call'[g] = Applied(call[g], row)
        /\ transactions' = [transactions EXCEPT ![b[n].id] = row]
    BY <1>8, <2>2, <2>3 DEF RollbackApply, TypeOK
  <2>5. /\ call'[g].next = n + 1 /\ call'[g].ids = Append(call[g].ids, row.id)
        /\ call'[g].changed = TRUE /\ call'[g].running = row.balanceAfter
        /\ call'[g].request = call[g].request /\ call'[g].applied = call[g].applied
    BY <1>1, <1>3, <2>4 DEF Applied, Locals
  <2>6. RowOf(g, b[n].id)' = row /\ Batch(g)' = b
    <3>1. n \in 1..Len(b) /\ row # None
      BY <1>4, <2>1, NoneAssumption
    <3> QED
      BY <1>2, <1>4, <2>4, <2>5, <3>1 DEF RowOf, Batch, TypeOK
  <2>7. ASSUME NEW k \in 1..(n - 1) PROVE RowOf(g, b[k].id)' = RowOf(g, b[k].id)
    <3>1. k \in 1..Len(b) /\ k # n /\ n \in 1..Len(b)
      BY <1>4, <2>1
    <3>2. b[k].id # b[n].id /\ b[k].id \in IdProviders
      BY <1>4, <1>5, <3>1
    <3> QED
      BY <2>4, <2>5, <3>2 DEF RowOf, TypeOK
  <2> QED
    BY <1>1, <1>2, <1>3, <1>4, <2>1, <2>5, <2>6, <2>7, WalkOn
<1>9. (\E route \in {"betwin", "rollback"} : Replay(g, route)) \/ BetWinApply(g)
      \/ RollbackApply(g) \/ call'[g] = None
  BY DEF Step, ReplayPanics, BetWinTombstoned, BetWinLimited, BetWinInsufficient,
    BetWinCommit, RollbackCommit, Return, TypeOK
<1>10. Walking(g)' \/ call'[g] = None
  BY <1>6, <1>7, <1>8, <1>9
<1> QED
  BY <1>0, <1>10 DEF AllWalking

(* Wherever the steps go, the locals of a call follow its batch.            *)
LEMMA WalkingKept ==
    ASSUME BatchesApart
    PROVE  Spec => []AllWalking
<1>1. Init => AllWalking
  BY DEF Init, AllWalking
<1>2. TypeOK /\ MutualExclusion /\ Orderly /\ AllWalking /\ [Next]_vars => AllWalking'
  <2> SUFFICES ASSUME TypeOK, MutualExclusion, Orderly, AllWalking, [Next]_vars
               PROVE  AllWalking'
    OBVIOUS
  <2>1. ASSUME NEW g \in Goroutines, Step(g) PROVE AllWalking'
    BY <2>1, StepKeepsWalking DEF Orderly
  <2>2. ASSUME NEW g \in Goroutines, NEW r \in BatchRequests, Enter(g, r) PROVE AllWalking'
    <3>1. \A h \in Goroutines : call'[h] = IF h = g THEN Start(r) ELSE None
      BY <2>2, NobodyInside DEF Enter, MutexFree, TypeOK
    <3>2. Start(r).request = r /\ Start(r).next = 1 /\ Start(r).ids = <<>>
      BY DEF Start
    <3>3. Len(r.transactions) \in Nat
      BY RequestsAssumption DEF BatchRequests
    <3>4. /\ call'[g].request = r /\ call'[g].next = 1 /\ call'[g].ids = <<>>
          /\ \A h \in Goroutines \ {g} : call'[h] = None
      BY <3>1, <3>2
    <3>5. Walking(g)'
      BY <3>3, <3>4 DEF Walking, Batch
    <3> QED
      BY <3>4, <3>5 DEF AllWalking
  <2>3. CASE Restart
    BY <2>3 DEF Restart, Restored, AllWalking
  <2>4. CASE Quiet
    BY <2>4 DEF Quiet, AllWalking, Walking, RowOf, Batch
  <2> QED
    BY <2>1, <2>2, <2>3, <2>4, NextCases
<1> QED
  BY <1>1, <1>2, OrderKept, TypeCorrect, MutexExcludes, PTL DEF Spec

(* What the rows of a batch answer to it.                                   *)
IdsToday(r) == [k \in DOMAIN r.transactions |-> transactions[r.transactions[k].id].id]
BalanceToday(r) == transactions[r.transactions[Len(r.transactions)].id].balanceAfter

Granted(x) ==
    /\ x.code = "200" /\ x.request \in BatchRequests /\ Full(x.request)
    /\ x.ids = IdsToday(x.request) /\ x.balance = BalanceToday(x.request)

Barred(x) ==
    /\ x.code = "409" /\ x.request \in BetWinRequests
    /\ x.balance = None /\ x.ids = <<>>
    /\ \E i \in IdsOf(x.request) : ~Stored(i) /\ i \in tombstones

Credited(x) ==
    /\ x.code = "200" /\ x.request \in FinishRequests
    /\ Status(x.request.issue) = "finished"
    /\ x.balance = freespinsIssues[x.request.issue].balanceAfter /\ x.ids = <<>>

(* Every final answer is still what the tables would answer.                *)
Told ==
    \A x \in {z \in answered : z.request \notin ReadRequests} :
       Granted(x) \/ Barred(x) \/ Credited(x)

(* What was granted stays so while no row changes.                          *)
LEMMA GrantedStays ==
    ASSUME RowsKept, NEW x, Granted(x)
    PROVE  Granted(x)'
<1>1. x.request \in BatchRequests /\ IdsOf(x.request) \subseteq IdProviders
  BY IdsOfTyped DEF Granted
<1>2. \A k \in DOMAIN x.request.transactions :
         LET i == x.request.transactions[k].id IN
         transactions[i] # None /\ transactions'[i] = transactions[i]
  BY <1>1 DEF Granted, Full, Stored, IdsOf, RowsKept
<1>3. Len(x.request.transactions) \in DOMAIN x.request.transactions
  <2>1. CASE x.request \in BetWinRequests
    <3>1. x.request.transactions \in Seq(BetWinTx) /\ x.request.transactions # <<>>
      BY <2>1, RequestsAssumption
    <3> QED
      BY <3>1
  <2>2. CASE x.request \in RollbackRequests
    <3>1. x.request.transactions \in Seq(RollbackTx) /\ x.request.transactions # <<>>
      BY <2>2, RequestsAssumption
    <3> QED
      BY <3>1
  <2> QED
    BY <1>1, <2>1, <2>2 DEF BatchRequests
<1>4. Full(x.request)'
  BY <1>2 DEF Full, Stored, IdsOf
<1>5. IdsToday(x.request)' = IdsToday(x.request)
  BY <1>2 DEF IdsToday
<1>6. BalanceToday(x.request)' = BalanceToday(x.request)
  BY <1>2, <1>3 DEF BalanceToday
<1> QED
  BY <1>4, <1>5, <1>6 DEF Granted

(* What was barred stays so: the only rows a step adds are of unbarred bets *)
(* and wins, or of rollbacks.                                               *)
LEMMA BarredStays ==
    ASSUME BatchesApart, TypeOK, StagedIsFresh, [Next]_vars, NEW x, Barred(x)
    PROVE  Barred(x)'
<1>1. PICK i \in IdsOf(x.request) : ~Stored(i) /\ i \in tombstones
  BY DEF Barred
<1>2. x.request \in BetWinRequests /\ i \in IdProviders
  BY <1>1, IdsOfTyped DEF Barred, BatchRequests
<1>3. i \in tombstones' /\ transactions'[i] = None
  <2>1. ASSUME NEW g \in Goroutines, BetWinCommit(g) PROVE i \in tombstones' /\ transactions'[i] = None
    BY <1>1, <1>2, <2>1 DEF BetWinCommit, AtEnd, StagedIsFresh, Stored
  <2>2. ASSUME NEW g \in Goroutines, RollbackApply(g) PROVE i \in tombstones' /\ transactions'[i] = None
    <3>1. Tx(g).id \in IdsOf(call[g].request) /\ call[g].request \in RollbackRequests
      BY <2>2, AtOwnTx, RollbackTxIsTyped DEF RollbackApply
    <3>2. x.request # call[g].request
      BY <1>2, <3>1, RequestsAssumption
    <3>3. Tx(g).id # i
      BY <1>1, <1>2, <3>1, <3>2 DEF BatchesApart, BatchRequests
    <3> QED
      BY <1>1, <1>2, <2>2, <3>3 DEF RollbackApply, Stored, TypeOK
  <2>3. CASE tombstones' = tombstones /\ transactions' = transactions
    BY <1>1, <2>3 DEF Stored
  <2>4. ASSUME NEW g \in Goroutines, Step(g), ~BetWinCommit(g), ~RollbackApply(g)
        PROVE  tombstones' = tombstones /\ transactions' = transactions
    BY <2>4 DEF Step, Replay, ReplayPanics, BetWinTombstoned, BetWinLimited,
      BetWinInsufficient, BetWinApply, RollbackCommit, ledger
  <2>5. ASSUME NEW g, NEW r, Enter(g, r) PROVE tombstones' = tombstones /\ transactions' = transactions
    BY <2>5 DEF Enter, ledger
  <2>6. Restart => tombstones' = tombstones /\ transactions' = transactions
    BY DEF Restart, Restored, TypeOK
  <2>7. Quiet => tombstones' = tombstones /\ transactions' = transactions
    BY DEF Quiet
  <2> QED
    BY <2>1, <2>2, <2>3, <2>4, <2>5, <2>6, <2>7, NextCases
<1> QED
  BY <1>1, <1>3 DEF Barred, Stored

(* What was credited stays so: no step touches a finished issue.            *)
LEMMA CreditedStays ==
    ASSUME TypeOK, [Next]_vars, NEW x, Credited(x)
    PROVE  Credited(x)'
<1>1. x.request.issue \in Issues /\ Status(x.request.issue) = "finished"
  BY RequestsAssumption DEF Credited
<1>2. freespinsIssues'[x.request.issue] = freespinsIssues[x.request.issue]
  <2>1. ASSUME NEW g \in Goroutines, Step(g) PROVE freespinsIssues' = freespinsIssues
    BY <2>1, StepAnswersBatch
  <2>2. ASSUME NEW r \in FinishRequests, FreespinsFinish(r)
        PROVE  \/ freespinsIssues' = freespinsIssues
               \/ FreespinsFinishCredit(r)
    BY <2>2 DEF FreespinsFinish, FreespinsFinishUnknown, FreespinsFinishCanceled,
      FreespinsFinishNoAccount, FreespinsFinishUnreadable, FreespinsFinishReplay,
      FinishRefused, ledger
  <2>3. ASSUME NEW r \in FinishRequests, FreespinsFinishCredit(r)
        PROVE  freespinsIssues'[x.request.issue] = freespinsIssues[x.request.issue]
    <3>1. Status(r.issue) = "issued" /\ r.issue \in Issues
      BY <2>3, RequestsAssumption DEF FreespinsFinishCredit, Payable
    <3>2. r.issue # x.request.issue
      BY <1>1, <3>1
    <3>3. \E row : freespinsIssues' = [freespinsIssues EXCEPT ![r.issue] = row]
      BY <2>3 DEF FreespinsFinishCredit, SetIssue
    <3> QED
      BY <1>1, <3>1, <3>2, <3>3 DEF TypeOK
  <2>4. ASSUME NEW r, UnknownAccount(r) \/ Balance(r) \/ Finish(r)
        PROVE  freespinsIssues' = freespinsIssues
    BY <2>4 DEF UnknownAccount, Balance, Finish, ReadAccount, ledger
  <2>5. ASSUME NEW i \in Issues, RecordFreespinsIssue(i) \/ CancelFreespinsIssue(i)
        PROVE  freespinsIssues'[x.request.issue] = freespinsIssues[x.request.issue]
    <3>1. Status(i) # "finished" /\ \E row : freespinsIssues' = [freespinsIssues EXCEPT ![i] = row]
      BY <2>5 DEF RecordFreespinsIssue, CancelFreespinsIssue, Cancelable, SetIssue
    <3>2. i # x.request.issue
      BY <1>1, <3>1
    <3> QED
      BY <1>1, <3>1, <3>2 DEF TypeOK
  <2>6. ASSUME NEW g, NEW r, Enter(g, r) PROVE freespinsIssues' = freespinsIssues
    BY <2>6 DEF Enter, ledger
  <2>7. Restart \/ UNCHANGED vars => freespinsIssues' = freespinsIssues
    BY DEF Restart, Restored, vars, ledger
  <2> QED
    BY <2>1, <2>2, <2>3, <2>4, <2>5, <2>6, <2>7 DEF Next
<1> QED
  BY <1>1, <1>2 DEF Credited, Status

(* The end of a batch grants what its rows say from then on.                *)
LEMMA CommitGrants ==
    ASSUME TypeOK, StagedIsFresh, Progress, OneKind, AllWalking, MutualExclusion,
           NEW g \in Goroutines, BetWinCommit(g) \/ RollbackCommit(g),
           NEW x, x = AnswerOf(call[g])
    PROVE  Granted(x)'
<1>1. /\ call[g] # None /\ call[g].next > Len(Batch(g)) /\ Walking(g)
      /\ call[g] \in Locals /\ Step(g) /\ call'[g] = None
  <2>1. call[g] # None /\ call[g].next > Len(Batch(g))
    BY DEF BetWinCommit, RollbackCommit, AtEnd
  <2>2. Step(g) /\ call'[g] = None
    BY DEF Step, BetWinCommit, RollbackCommit, Return, TypeOK
  <2> QED
    BY <2>1, <2>2, CallIsTyped DEF AllWalking
<1>2. PICK r \in BatchRequests : r = call[g].request
  BY <1>1, CallIsTyped
<1>3. PICK b : b = r.transactions
  OBVIOUS
<1>4. PICK n \in Nat \ {0} : n = Len(b)
  BY <1>1, <1>2, <1>3, PlaceInBatch DEF Batch
<1>5. /\ DOMAIN b = 1..n /\ call[g].next = n + 1 /\ Batch(g) = b
      /\ \A k \in 1..n : b[k].id \in IdsOf(r) /\ b[k].id \in IdProviders
  <2>1. Batch(g) = b /\ call[g].next \in Nat
    BY <1>1, <1>2, <1>3, PlaceInBatch DEF Batch
  <2>2. call[g].next <= n + 1 /\ call[g].next > n
    BY <1>1, <1>4, <2>1 DEF Walking
  <2> QED
    BY <1>1, <1>2, <1>4, <2>1, <2>2, PlaceInBatch
<1>6. \A i \in IdsOf(r) : transactions'[i] # None /\ transactions'[i] = RowOf(g, i)
  <2>1. \A i \in IdsOf(r) : transactions[i] # None \/ call[g].applied[i] # None
    BY <1>1, <1>2, AllWalked
  <2>2. IdsOf(r) \subseteq IdProviders
    BY IdsOfTyped
  <2>3. CASE BetWinCommit(g)
    BY <1>1, <2>1, <2>2, <2>3 DEF BetWinCommit, StagedIsFresh, RowOf
  <2>4. CASE RollbackCommit(g)
    <3>1. \A i \in IdsOf(r) : call[g].applied[i] = None
      BY <1>1, <1>2, <2>2, <2>4 DEF RollbackCommit, AtEnd, StagedIsFresh
    <3> QED
      BY <2>1, <2>4, <3>1 DEF RollbackCommit, RowOf
  <2> QED
    BY <2>3, <2>4
<1>7. x.code = "200" /\ x.request = r /\ x.ids = call[g].ids
  BY <1>2 DEF AnswerOf, Answer
<1>8. x.ids = IdsToday(r)'
  <2>1. Len(call[g].ids) = n /\ call[g].ids \in Seq(Nat)
    BY <1>1, <1>5 DEF Walking, Locals
  <2>2. \A k \in 1..n : call[g].ids[k] = transactions'[b[k].id].id
    BY <1>1, <1>5, <1>6 DEF Walking
  <2>3. call[g].ids = [k \in 1..n |-> call[g].ids[k]]
    BY <2>1
  <2>4. call[g].ids = [k \in 1..n |-> transactions'[b[k].id].id]
    BY <2>2, <2>3
  <2> QED
    BY <1>3, <1>5, <1>7, <2>4 DEF IdsToday
<1>9. x.balance = transactions'[b[n].id].balanceAfter
  <2>1. /\ n + 1 > 1 /\ (n + 1) - 1 = n /\ n \in 1..n
    OBVIOUS
  <2>2. RowOf(g, b[n].id) = transactions'[b[n].id]
    BY <1>5, <1>6, <2>1
  <2>3. IF call[g].changed THEN call[g].running = transactions'[b[n].id].balanceAfter
                           ELSE call[g].replayed = transactions'[b[n].id].balanceAfter
    BY <1>1, <1>5, <2>1, <2>2 DEF Walking
  <2>4. transactions'[b[n].id].balanceAfter # None
    <3>1. transactions'[b[n].id] \in StoredTransaction
      <4>1. RowOf(g, b[n].id) \in StoredTransaction \cup {None}
        BY <1>1, <1>5, <2>1 DEF RowOf, TypeOK, Locals
      <4> QED
        BY <1>5, <1>6, <2>1, <2>2, <4>1
    <3> QED
      BY <3>1, NoneAssumption DEF StoredTransaction
  <2> QED
    BY <2>3, <2>4 DEF AnswerOf, Answer
<1>10. x.balance = BalanceToday(r)'
  BY <1>3, <1>4, <1>9 DEF BalanceToday
<1> QED
  BY <1>2, <1>6, <1>7, <1>8, <1>10 DEF Granted, Full, Stored

(* A freespins result answered with 200 reports what its issue stores.      *)
LEMMA FinishCredits ==
    ASSUME TypeOK, NEW r \in FinishRequests, FreespinsFinish(r),
           NEW x \in answered', x \notin answered
    PROVE  Credited(x)'
<1>1. r.issue \in Issues /\ r.amount \in Nat
  BY RequestsAssumption, AccountsAssumption
<1>2. CASE FreespinsFinishCredit(r)
  <2>1. PICK a \in Accounts : a = freespinsIssues[r.issue].account
    BY <1>2 DEF FreespinsFinishCredit
  <2>2. PICK after : after = balance[a] + r.amount
    OBVIOUS
  <2>3. freespinsIssues' = [freespinsIssues EXCEPT ![r.issue] =
           [account |-> a, status |-> "finished", amount |-> r.amount, balanceAfter |-> after]]
    BY <1>2, <2>1, <2>2 DEF FreespinsFinishCredit, SetIssue
  <2>4. /\ freespinsIssues'[r.issue].status = "finished"
        /\ freespinsIssues'[r.issue].balanceAfter = after
    BY <1>1, <2>3 DEF TypeOK
  <2>5. freespinsIssues'[r.issue] # None
    <3>1. freespinsIssues[r.issue] \in StoredFreespinsIssue
      BY <1>1, <1>2 DEF FreespinsFinishCredit, Payable, Status, TypeOK
    <3>2. a \in {IssueAccount[i] : i \in Issues} /\ after \in Int
      BY <1>1, <2>1, <2>2, <3>1 DEF StoredFreespinsIssue, TypeOK
    <3>3. freespinsIssues'[r.issue] \in StoredFreespinsIssue
      BY <1>1, <2>3, <3>2 DEF TypeOK, StoredFreespinsIssue
    <3> QED
      BY <3>3, NoneAssumption
  <2>6. x = Answer(r, "200", after, 0, <<>>)
    BY <1>2, <2>1, <2>2 DEF FreespinsFinishCredit, Respond, Answer, Lasting
  <2> QED
    BY <2>4, <2>5, <2>6 DEF Credited, Status, Answer
<1>3. CASE FreespinsFinishReplay(r)
  <2>1. /\ Status(r.issue) = "finished" /\ freespinsIssues' = freespinsIssues
        /\ x = Answer(r, "200", freespinsIssues[r.issue].balanceAfter, 0, <<>>)
    BY <1>3 DEF FreespinsFinishReplay, Repeat, Respond, Answer, Lasting, ledger
  <2> QED
    BY <2>1 DEF Credited, Status, Answer
<1>4. ASSUME NEW code \in {"610", "605", "101", "500"}, FinishRefused(r, code)
      PROVE  FALSE
  BY <1>4 DEF FinishRefused, Respond, Refusal, Answer, Lasting
<1> QED
  BY <1>2, <1>3, <1>4 DEF FreespinsFinish, FreespinsFinishUnknown, FreespinsFinishCanceled,
    FreespinsFinishNoAccount, FreespinsFinishUnreadable

(* What a step of a call answers for good follows from its tables.          *)
LEMMA StepTells ==
    ASSUME TypeOK, StagedIsFresh, Progress, OneKind, AllWalking, MutualExclusion,
           NEW g \in Goroutines, Step(g),
           NEW x \in answered', x \notin answered
    PROVE  Granted(x)' \/ Barred(x)'
<1>1. CASE BetWinCommit(g) \/ RollbackCommit(g)
  <2>1. x = AnswerOf(call[g])
    BY <1>1 DEF BetWinCommit, RollbackCommit, Return, Respond
  <2> QED
    BY <1>1, <2>1, CommitGrants
<1>2. CASE BetWinTombstoned(g)
  <2>1. PICK r \in BetWinRequests : r = call[g].request
    BY <1>2, BetWinTxIsTyped DEF BetWinTombstoned
  <2>2. PICK i \in IdsOf(r) : i = Tx(g).id
    BY <1>2, <2>1, BetWinTxIsTyped DEF BetWinTombstoned
  <2>3. transactions'[i] = None /\ i \in tombstones'
    BY <1>2, <2>2 DEF BetWinTombstoned, Seen, ledger
  <2>4. x = Refusal(r, "409")
    BY <1>2, <2>1 DEF BetWinTombstoned, Return, Respond
  <2> QED
    BY <2>2, <2>3, <2>4 DEF Barred, Stored, Refusal, Answer
<1>3. ASSUME NEW route, Replay(g, route) PROVE FALSE
  BY <1>3 DEF Replay
<1>4. ASSUME NEW route, ReplayPanics(g, route) PROVE FALSE
  BY <1>4 DEF ReplayPanics, Return, Respond, Refusal, Answer, Lasting
<1>5. ~BetWinApply(g) /\ ~RollbackApply(g)
  BY DEF BetWinApply, RollbackApply
<1>6. ~BetWinLimited(g) /\ ~BetWinInsufficient(g)
  BY DEF BetWinLimited, BetWinInsufficient, Return, Respond, Answer, Lasting
<1> QED
  BY <1>1, <1>2, <1>3, <1>4, <1>5, <1>6 DEF Step

(* So every step keeps what was told true.                                  *)
LEMMA NextKeepsTold ==
    ASSUME BatchesApart, TypeOK, StagedIsFresh, Progress, OneKind, AllWalking,
           MutualExclusion, Told, [Next]_vars
    PROVE  Told'
<1> SUFFICES ASSUME NEW x \in answered', x.request \notin ReadRequests
             PROVE  Granted(x)' \/ Barred(x)' \/ Credited(x)'
  BY DEF Told
<1>1. CASE x \in answered
  <2>1. Granted(x) \/ Barred(x) \/ Credited(x)
    BY <1>1 DEF Told
  <2>2. RowsKept
    BY NextKeepsRows
  <2> QED
    BY <2>1, <2>2, GrantedStays, BarredStays, CreditedStays
<1>2. CASE x \notin answered
  <2>1. ASSUME NEW g \in Goroutines, Step(g) PROVE Granted(x)' \/ Barred(x)'
    BY <1>2, <2>1, StepTells
  <2>2. ASSUME NEW r \in FinishRequests, FreespinsFinish(r) PROVE Credited(x)'
    BY <1>2, <2>2, FinishCredits
  <2>3. ASSUME NEW r, UnknownAccount(r) PROVE FALSE
    BY <1>2, <2>3 DEF UnknownAccount, Respond, Refusal, Answer, Lasting
  <2>4. ASSUME NEW r \in ReadRequests, Balance(r) \/ Finish(r) PROVE FALSE
    <3>1. Respond(Answer(r, "200", balance[r.account], 0, <<>>))
      BY <2>4 DEF Balance, Finish, ReadAccount
    <3>2. x.request = r
      BY <1>2, <3>1 DEF Respond, Answer
    <3> QED
      BY <3>2
  <2>5. ASSUME NEW g, NEW r, Enter(g, r) PROVE FALSE
    BY <1>2, <2>5 DEF Enter
  <2>6. ASSUME NEW i, RecordFreespinsIssue(i) \/ CancelFreespinsIssue(i) PROVE FALSE
    BY <1>2, <2>6 DEF RecordFreespinsIssue, CancelFreespinsIssue
  <2>7. ~Restart /\ ~UNCHANGED vars
    BY <1>2 DEF Restart, Restored, vars
  <2> QED
    BY <2>1, <2>2, <2>3, <2>4, <2>5, <2>6, <2>7 DEF Next
<1> QED
  BY <1>1, <1>2

(* Two final answers to one request are the same: a repeat is told the ids  *)
(* and the balance of the first time, whatever came between, and what was   *)
(* refused with 409 is never accepted later, nor the other way round.       *)
THEOREM AnswersAreTheSame ==
    ASSUME BatchesApart
    PROVE  Spec => []SameAnswer
<1>1. Init => Told
  BY DEF Init, Told
<1>2. TypeOK /\ StagedIsFresh /\ Progress /\ Orderly /\ AllWalking /\ MutualExclusion
      /\ Told /\ [Next]_vars => Told'
  BY NextKeepsTold DEF Orderly
<1>3. Told => SameAnswer
  <2> SUFFICES ASSUME Told, NEW x \in answered, NEW y \in answered,
                      x.request \notin ReadRequests, y.request \notin ReadRequests,
                      SameRequest(x.request, y.request)
               PROVE  x.code = y.code /\ x.balance = y.balance /\ x.ids = y.ids
    BY DEF SameAnswer
  <2>1. (Granted(x) \/ Barred(x) \/ Credited(x)) /\ (Granted(y) \/ Barred(y) \/ Credited(y))
    BY DEF Told
  <2>2. \A r \in BatchRequests : r.route # "freespins_finish" /\ r \notin FinishRequests
    BY RequestsAssumption DEF BatchRequests
  <2>3. Credited(x) <=> Credited(y)
    BY <2>1, <2>2, RequestsAssumption DEF Granted, Barred, Credited, SameRequest, BatchRequests
  <2>4. CASE Credited(x) /\ Credited(y)
    BY <2>4 DEF Credited, SameRequest
  <2>5. CASE ~Credited(x) /\ ~Credited(y)
    <3>1. x.request = y.request
      BY <2>1, <2>2, <2>5 DEF Granted, Barred, SameRequest, BatchRequests
    <3>2. ~(Granted(x) /\ Barred(y)) /\ ~(Barred(x) /\ Granted(y))
      BY <3>1 DEF Granted, Barred, Full
    <3> QED
      BY <2>1, <2>5, <3>1, <3>2 DEF Granted, Barred
  <2> QED
    BY <2>3, <2>4, <2>5
<1>4. Spec => []Progress
  BY ApartRollbacks, ProgressKept
<1> QED
  BY <1>1, <1>2, <1>3, <1>4, OrderKept, WalkingKept, TypeCorrect, MutexExcludes,
     StagedStaysFresh, PTL DEF Spec
=============================================================================
