-------------------------- MODULE InMemoryWalletBooks --------------------------
(* The books of InMemoryWallet balance, for every value of its constants    *)
(* under which a transaction is sent and rolled back once.                  *)
EXTENDS InMemoryWalletAnswers, FiniteSetTheorems

-----------------------------------------------------------------------------
(* Sums over finite sets                                                    *)

(* Induction over a finite set: what holds of no element, and of one more   *)
(* whenever it holds of some, holds of all.  Q is the set of sets of which  *)
(* it holds.                                                                *)
LEMMA FiniteInduction ==
    ASSUME NEW S, IsFiniteSet(S), NEW Q, {} \in Q,
           \A T \in SUBSET S, x \in S : T \in Q /\ x \notin T => T \cup {x} \in Q
    PROVE  S \in Q
<1> DEFINE Rest == {T \in SUBSET S : S \ T \in Q}
<1>1. IsWellFoundedOn(StrictSubsetOrdering(S), SUBSET S)
  BY FS_StrictSubsetOrderingWellFounded, FS_FiniteSubsetsOfFinite
<1>2. Rest \subseteq SUBSET S /\ S \in Rest
  OBVIOUS
<1>3. PICK T \in Rest : \A U \in Rest : <<U, T>> \notin StrictSubsetOrdering(S)
  BY <1>1, <1>2, WFMin
<1>4. CASE T = {}
  BY <1>4
<1>5. CASE T # {}
  <2>1. PICK x \in T : TRUE
    BY <1>5
  <2>2. (S \ T) \cup {x} \in Q /\ S \ (T \ {x}) = (S \ T) \cup {x}
    OBVIOUS
  <2>3. T \ {x} \in Rest
    BY <2>2
  <2>4. <<T \ {x}, T>> \in StrictSubsetOrdering(S)
    BY DEF StrictSubsetOrdering
  <2> QED
    BY <1>3, <2>3, <2>4
<1> QED
  BY <1>4, <1>5

(* h gives the sum of f over every subset of S.                             *)
Additive(h, f, S) ==
    /\ h \in [SUBSET S -> Int]
    /\ h[{}] = 0
    /\ \A T \in SUBSET S, x \in S : x \notin T => h[T \cup {x}] = h[T] + f[x]

(* Whatever the order of the elements, there is one such sum.               *)
LEMMA AdditiveExists ==
    ASSUME NEW S, IsFiniteSet(S), NEW f, \A x \in S : f[x] \in Int
    PROVE  \E h : Additive(h, f, S)
<1> DEFINE Q == {R \in SUBSET S : \E h : Additive(h, f, R)}
<1>1. {} \in Q
  <2>1. Additive([T \in SUBSET {} |-> 0], f, {})
    BY DEF Additive
  <2> QED
    BY <2>1
<1>2. ASSUME NEW R \in SUBSET S, NEW x \in S, R \in Q, x \notin R
      PROVE  R \cup {x} \in Q
  <2>1. PICK h : Additive(h, f, R)
    BY <1>2
  <2> DEFINE k == [T \in SUBSET (R \cup {x}) |->
                     IF x \in T THEN h[T \ {x}] + f[x] ELSE h[T]]
  <2>2. k \in [SUBSET (R \cup {x}) -> Int] /\ k[{}] = 0
    BY <2>1 DEF Additive
  <2>3. ASSUME NEW T \in SUBSET (R \cup {x}), NEW y \in R \cup {x}, y \notin T
        PROVE  k[T \cup {y}] = k[T] + f[y]
    <3>1. CASE y = x
      <4>1. (T \cup {y}) \ {x} = T /\ x \in T \cup {y} /\ x \notin T
        BY <2>3, <3>1
      <4> QED
        BY <3>1, <4>1
    <3>2. CASE y # x /\ x \notin T
      <4>1. T \in SUBSET R /\ y \in R /\ x \notin T \cup {y}
        BY <3>2
      <4>2. h[T \cup {y}] = h[T] + f[y]
        BY <2>1, <2>3, <4>1 DEF Additive
      <4> QED
        BY <3>2, <4>1, <4>2
    <3>3. CASE y # x /\ x \in T
      <4>1. T \ {x} \in SUBSET R /\ y \in R /\ y \notin T \ {x}
            /\ (T \cup {y}) \ {x} = (T \ {x}) \cup {y}
        BY <2>3, <3>3
      <4>2. h[(T \ {x}) \cup {y}] = h[T \ {x}] + f[y] /\ h[T \ {x}] \in Int
        BY <2>1, <4>1 DEF Additive
      <4>3. f[x] \in Int /\ f[y] \in Int
        OBVIOUS
      <4>4. k[T \cup {y}] = h[T \ {x}] + f[y] + f[x] /\ k[T] = h[T \ {x}] + f[x]
        BY <3>3, <4>1, <4>2
      <4> HIDE DEF k
      <4> QED
        BY <4>2, <4>3, <4>4
    <3> QED
      BY <3>1, <3>2, <3>3
  <2>4. Additive(k, f, R \cup {x})
    BY <2>2, <2>3 DEF Additive
  <2> QED
    BY <2>4
<1> HIDE DEF Q
<1>3. S \in Q
  BY <1>1, <1>2, FiniteInduction
<1> QED
  BY <1>3 DEF Q

(* SumFunctionOnSet adds the elements up in an order it chooses: that is    *)
(* the same sum.                                                            *)
LEMMA SumIsAdditive ==
    ASSUME NEW S, IsFiniteSet(S), NEW f, \A x \in S : f[x] \in Int,
           NEW h, Additive(h, f, S)
    PROVE  SumFunctionOnSet(f, S) = h[S]
<1> DEFINE chosen(T) == CHOOSE x \in T : TRUE
           Sums(k) == k = [T \in SUBSET S |->
                             IF T = {} THEN 0 ELSE f[chosen(T)] + k[T \ {chosen(T)}]]
           iter == CHOOSE k : Sums(k)
<1>1. SumFunctionOnSet(f, S) = iter[S]
  BY DEF SumFunctionOnSet, FoldFunctionOnSet, MapThenFoldSet
<1>2. Sums(h)
  <2>1. ASSUME NEW T \in SUBSET S, T # {}
        PROVE  h[T] = f[chosen(T)] + h[T \ {chosen(T)}]
    <3>1. chosen(T) \in T
      BY <2>1
    <3> HIDE DEF chosen
    <3>2. (T \ {chosen(T)}) \cup {chosen(T)} = T /\ T \ {chosen(T)} \in SUBSET S
      BY <3>1
    <3>3. h[T] = h[T \ {chosen(T)}] + f[chosen(T)]
      BY <3>1, <3>2 DEF Additive
    <3>4. h[T \ {chosen(T)}] \in Int /\ f[chosen(T)] \in Int
      BY <3>1, <3>2 DEF Additive
    <3> QED
      BY <3>3, <3>4
  <2> HIDE DEF chosen
  <2> QED
    BY <2>1 DEF Additive
<1>3. Sums(iter)
  <2> HIDE DEF Sums
  <2> QED
    BY <1>2
<1> HIDE DEF iter
<1> DEFINE Off == {T \in SUBSET S : iter[T] # h[T]}
<1>4. IsWellFoundedOn(StrictSubsetOrdering(S), SUBSET S)
  BY FS_StrictSubsetOrderingWellFounded, FS_FiniteSubsetsOfFinite
<1>5. ASSUME Off # {} PROVE FALSE
  <2>1. PICK T \in Off : \A U \in Off : <<U, T>> \notin StrictSubsetOrdering(S)
    <3>1. Off \subseteq SUBSET S
      OBVIOUS
    <3> HIDE DEF Off
    <3> QED
      BY <1>4, <1>5, <3>1, WFMin
  <2>2. CASE T = {}
    BY <1>3, <2>2 DEF Additive
  <2>3. CASE T # {}
    <3>1. chosen(T) \in T
      BY <2>3
    <3> HIDE DEF chosen
    <3>2. T \ {chosen(T)} \in SUBSET S
          /\ <<T \ {chosen(T)}, T>> \in StrictSubsetOrdering(S)
      BY <3>1 DEF StrictSubsetOrdering
    <3>3. iter[T \ {chosen(T)}] = h[T \ {chosen(T)}]
      BY <2>1, <3>2
    <3>4. iter[T] = f[chosen(T)] + iter[T \ {chosen(T)}]
      BY <1>3, <2>3
    <3>5. h[T] = f[chosen(T)] + h[T \ {chosen(T)}]
      BY <1>2, <2>3
    <3> QED
      BY <3>3, <3>4, <3>5
  <2> QED
    BY <2>2, <2>3
<1> QED
  BY <1>1, <1>5

(* A sum of integers is one.                                                *)
LEMMA SumIsInt ==
    ASSUME NEW S, IsFiniteSet(S), NEW f, \A x \in S : f[x] \in Int
    PROVE  SumFunctionOnSet(f, S) \in Int
<1>1. PICK h : Additive(h, f, S)
  BY AdditiveExists
<1>2. h[S] \in Int
  BY <1>1 DEF Additive
<1> QED
  BY <1>1, <1>2, SumIsAdditive

(* The sum of zeros is zero.                                                *)
LEMMA SumOfZeros ==
    ASSUME NEW S, IsFiniteSet(S), NEW f, \A x \in S : f[x] = 0
    PROVE  SumFunctionOnSet(f, S) = 0
<1>1. Additive([T \in SUBSET S |-> 0], f, S)
  BY DEF Additive
<1> QED
  BY <1>1, SumIsAdditive

(* One value among zeros is the sum.                                        *)
LEMMA SumOfOne ==
    ASSUME NEW S, IsFiniteSet(S), NEW y \in S, NEW d \in Int
    PROVE  SumFunctionOnSet([x \in S |-> IF x = y THEN d ELSE 0], S) = d
<1> DEFINE f == [x \in S |-> IF x = y THEN d ELSE 0]
           h == [T \in SUBSET S |-> IF y \in T THEN d ELSE 0]
<1>1. \A x \in S : f[x] \in Int
  OBVIOUS
<1>2. Additive(h, f, S) /\ h[S] = d
  BY DEF Additive
<1> HIDE DEF h, f
<1>3. SumFunctionOnSet(f, S) = d
  BY <1>1, <1>2, SumIsAdditive
<1> QED
  BY <1>3 DEF f

(* The sum of sums.                                                         *)
LEMMA SumOfSums ==
    ASSUME NEW S, IsFiniteSet(S), NEW f, NEW k, NEW both,
           \A x \in S : f[x] \in Int /\ k[x] \in Int /\ both[x] = f[x] + k[x]
    PROVE  SumFunctionOnSet(both, S) = SumFunctionOnSet(f, S) + SumFunctionOnSet(k, S)
<1>1. PICK h : Additive(h, f, S)
  BY AdditiveExists
<1>2. PICK j : Additive(j, k, S)
  BY AdditiveExists
<1> DEFINE m == [T \in SUBSET S |-> h[T] + j[T]]
<1>3. Additive(m, both, S)
  <2>1. m \in [SUBSET S -> Int] /\ m[{}] = 0
    BY <1>1, <1>2 DEF Additive
  <2>2. ASSUME NEW T \in SUBSET S, NEW x \in S, x \notin T
        PROVE  m[T \cup {x}] = m[T] + both[x]
    <3>1. /\ h[T \cup {x}] = h[T] + f[x] /\ h[T] \in Int /\ T \cup {x} \in SUBSET S
          /\ j[T \cup {x}] = j[T] + k[x] /\ j[T] \in Int
      BY <1>1, <1>2, <2>2 DEF Additive
    <3>2. f[x] \in Int /\ k[x] \in Int /\ both[x] = f[x] + k[x]
      OBVIOUS
    <3> QED
      BY <3>1, <3>2
  <2> QED
    BY <2>1, <2>2 DEF Additive
<1>4. m[S] = h[S] + j[S]
  OBVIOUS
<1> HIDE DEF m
<1> QED
  BY <1>1, <1>2, <1>3, <1>4, SumIsAdditive
-----------------------------------------------------------------------------
(* What is due                                                              *)

(* The platform's discipline: a transaction is rolled back by one rollback  *)
(* transaction, and by the account's own.                                   *)
UndoneOnce ==
    /\ \A t, u \in RollbackTxs : t.original = u.original => t = u
    /\ \A r \in RollbackRequests, b \in BetWinRequests : \A k \in DOMAIN r.transactions :
          r.transactions[k].original \in IdsOf(b) => b.account = r.account

(* Sums are of finitely many rows and issues.                               *)
FiniteBooks == IsFiniteSet(IdProviders) /\ IsFiniteSet(Issues)

(* What a staged row will move.                                             *)
Gain(row) ==
    IF row = None THEN 0 ELSE IF row.type = "bet" THEN -row.amount ELSE row.amount

(* The ids of an account's batches are finitely many.                       *)
LEMMA MineIsFinite ==
    ASSUME FiniteBooks, NEW a
    PROVE  Mine(a) \subseteq IdProviders /\ IsFiniteSet(Mine(a))
<1>1. Mine(a) \subseteq IdProviders
  BY IdsOfTyped DEF Mine, BatchRequests
<1> QED
  BY <1>1, FS_Subset DEF FiniteBooks

(* What rows are worth and issues have paid are integers.                   *)
LEMMA WorthIsInt ==
    ASSUME TypeOK
    PROVE  /\ \A i \in IdProviders : Worth(i) \in Int
           /\ \A i \in IdProviders : Gain(transactions[i]) \in Int
           /\ \A a, i : i \in Issues => Paid(a, i) \in Int
<1>1. ASSUME NEW i \in IdProviders PROVE Worth(i) \in Int /\ Gain(transactions[i]) \in Int
  <2>1. transactions[i] # None => transactions[i].amount \in Nat
    BY DEF TypeOK, StoredTransaction
  <2>2. Worth(i) = 0 \/ (transactions[i] # None /\ Worth(i) = Gain(transactions[i]))
    BY DEF Worth, Reversible, Gain
  <2>3. Gain(transactions[i]) \in Int
    BY <2>1 DEF Gain
  <2> QED
    BY <2>2, <2>3
<1>2. ASSUME NEW a, NEW i \in Issues PROVE Paid(a, i) \in Int
  <2>1. freespinsIssues[i] # None => freespinsIssues[i].amount \in Nat
    BY DEF TypeOK, StoredFreespinsIssue
  <2> QED
    BY <2>1 DEF Paid, Status
<1> QED
  BY <1>1, <1>2

(* How what is due to an account moves with what its rows are worth and     *)
(* what its issues have paid, before and after a step.                      *)
LEMMA DueMoves ==
    ASSUME FiniteBooks, TypeOK, TypeOK', NEW a \in Accounts,
           NEW gain, \A i \in Mine(a) : gain[i] \in Int /\ Worth(i)' = Worth(i) + gain[i],
           NEW pay, \A j \in Issues : pay[j] \in Int /\ Paid(a, j)' = Paid(a, j) + pay[j]
    PROVE  /\ Due(a) \in Int
           /\ Due(a)' = Due(a) + SumFunctionOnSet(gain, Mine(a)) + SumFunctionOnSet(pay, Issues)
<1> DEFINE w == [i \in IdProviders |-> Worth(i)]
           v == [i \in IdProviders |-> Worth(i)']
           p == [i \in Issues |-> Paid(a, i)]
           q == [i \in Issues |-> Paid(a, i)']
<1>1. /\ Due(a) = Opening[a] + SumFunctionOnSet(w, Mine(a)) + SumFunctionOnSet(p, Issues)
      /\ Due(a)' = Opening[a] + SumFunctionOnSet(v, Mine(a)) + SumFunctionOnSet(q, Issues)
  BY DEF Due
<1>2. /\ Mine(a) \subseteq IdProviders /\ IsFiniteSet(Mine(a)) /\ IsFiniteSet(Issues)
      /\ Opening[a] \in Int
  BY MineIsFinite, AccountsAssumption DEF FiniteBooks
<1>3. /\ \A i \in Mine(a) : w[i] \in Int /\ gain[i] \in Int /\ v[i] = w[i] + gain[i]
      /\ \A i \in Issues : p[i] \in Int /\ pay[i] \in Int /\ q[i] = p[i] + pay[i]
  BY <1>2, WorthIsInt
<1> HIDE DEF w, v, p, q
<1>4. /\ SumFunctionOnSet(v, Mine(a)) =
           SumFunctionOnSet(w, Mine(a)) + SumFunctionOnSet(gain, Mine(a))
      /\ SumFunctionOnSet(q, Issues) =
           SumFunctionOnSet(p, Issues) + SumFunctionOnSet(pay, Issues)
  BY <1>2, <1>3, SumOfSums
<1>5. /\ SumFunctionOnSet(w, Mine(a)) \in Int /\ SumFunctionOnSet(gain, Mine(a)) \in Int
      /\ SumFunctionOnSet(p, Issues) \in Int /\ SumFunctionOnSet(pay, Issues) \in Int
  BY <1>2, <1>3, SumIsInt
<1> QED
  BY <1>1, <1>2, <1>4, <1>5

(* How what is due moves, by what changes it: not at all,                   *)
LEMMA DueStays ==
    ASSUME FiniteBooks, TypeOK, TypeOK', NEW a \in Accounts,
           \A i \in Mine(a) : Worth(i)' = Worth(i),
           \A j \in Issues : Paid(a, j)' = Paid(a, j)
    PROVE  Due(a) \in Int /\ Due(a)' = Due(a)
<1> DEFINE gain == [i \in Mine(a) |-> 0]
           pay == [j \in Issues |-> 0]
<1>1. /\ \A i \in Mine(a) : gain[i] \in Int /\ Worth(i)' = Worth(i) + gain[i]
      /\ \A j \in Issues : pay[j] \in Int /\ Paid(a, j)' = Paid(a, j) + pay[j]
  BY MineIsFinite, WorthIsInt
<1>2. SumFunctionOnSet(gain, Mine(a)) = 0 /\ SumFunctionOnSet(pay, Issues) = 0
  BY MineIsFinite, SumOfZeros DEF FiniteBooks
<1> HIDE DEF gain, pay
<1> QED
  BY <1>1, <1>2, DueMoves

(* at one row,                                                              *)
LEMMA DueMovesAtRow ==
    ASSUME FiniteBooks, TypeOK, TypeOK', NEW a \in Accounts, NEW o \in Mine(a),
           NEW d \in Int, Worth(o)' = Worth(o) + d,
           \A i \in Mine(a) \ {o} : Worth(i)' = Worth(i),
           \A j \in Issues : Paid(a, j)' = Paid(a, j)
    PROVE  Due(a) \in Int /\ Due(a)' = Due(a) + d
<1> DEFINE gain == [i \in Mine(a) |-> IF i = o THEN d ELSE 0]
           pay == [j \in Issues |-> 0]
<1>1. /\ \A i \in Mine(a) : gain[i] \in Int /\ Worth(i)' = Worth(i) + gain[i]
      /\ \A j \in Issues : pay[j] \in Int /\ Paid(a, j)' = Paid(a, j) + pay[j]
  BY MineIsFinite, WorthIsInt
<1>2. SumFunctionOnSet(gain, Mine(a)) = d /\ SumFunctionOnSet(pay, Issues) = 0
  BY MineIsFinite, SumOfOne, SumOfZeros DEF FiniteBooks
<1> HIDE DEF gain, pay
<1>3. Due(a) \in Int /\ Due(a)' = Due(a) + d + 0
  BY <1>1, <1>2, DueMoves
<1> QED
  BY <1>3

(* or at one issue.                                                         *)
LEMMA DueMovesAtIssue ==
    ASSUME FiniteBooks, TypeOK, TypeOK', NEW a \in Accounts, NEW o \in Issues,
           NEW d \in Int, Paid(a, o)' = Paid(a, o) + d,
           \A i \in Mine(a) : Worth(i)' = Worth(i),
           \A j \in Issues \ {o} : Paid(a, j)' = Paid(a, j)
    PROVE  Due(a) \in Int /\ Due(a)' = Due(a) + d
<1> DEFINE gain == [i \in Mine(a) |-> 0]
           pay == [j \in Issues |-> IF j = o THEN d ELSE 0]
<1>1. /\ \A i \in Mine(a) : gain[i] \in Int /\ Worth(i)' = Worth(i) + gain[i]
      /\ \A j \in Issues : pay[j] \in Int /\ Paid(a, j)' = Paid(a, j) + pay[j]
  BY MineIsFinite, WorthIsInt
<1>2. SumFunctionOnSet(gain, Mine(a)) = 0 /\ SumFunctionOnSet(pay, Issues) = d
  BY MineIsFinite, SumOfOne, SumOfZeros DEF FiniteBooks
<1> HIDE DEF gain, pay
<1>3. Due(a) \in Int /\ Due(a)' = Due(a) + 0 + d
  BY <1>1, <1>2, DueMoves
<1> QED
  BY <1>3

-----------------------------------------------------------------------------
(* Rows and reversals                                                       *)

(* Only the bets and wins of batches move money, and nothing is reversed    *)
(* that did not.                                                            *)
Origins ==
    /\ \A i \in IdProviders : Reversible(i) => \E r \in BetWinRequests : i \in IdsOf(r)
    /\ \A t \in RollbackTxs : Reverses(t) => Reversible(t.original)

(* The steps of a call, by what they do to the rows.                        *)
LEMMA RowCases ==
    ASSUME NEW g \in Goroutines, Step(g)
    PROVE  BetWinCommit(g) \/ RollbackApply(g) \/ transactions' = transactions
BY DEF Step, Replay, ReplayPanics, BetWinTombstoned, BetWinLimited, BetWinInsufficient,
  BetWinApply, RollbackCommit, ledger

(* A row that moved money stays.                                            *)
LEMMA ReversibleStays ==
    ASSUME RowsKept, NEW i \in IdProviders, Reversible(i)
    PROVE  Reversible(i)' /\ transactions'[i] = transactions[i]
BY DEF RowsKept, Reversible

(* A commit of a BetWin stores bets and wins, and no rollback's row.        *)
LEMMA CommitStores ==
    ASSUME RollbackIdsUnique, TypeOK, StagedIsFresh, Progress,
           NEW g \in Goroutines, BetWinCommit(g)
    PROVE  /\ call[g] # None /\ call[g].request \in BetWinRequests
           /\ \A i \in IdProviders :
                 \/ call[g].applied[i] = None /\ transactions'[i] = transactions[i]
                 \/ /\ call[g].applied[i] # None /\ transactions'[i] = call[g].applied[i]
                    /\ transactions[i] = None /\ i \in IdsOf(call[g].request)
                    /\ call[g].applied[i].type \in {"bet", "win"}
           /\ \A t \in RollbackTxs : transactions'[t.id] = transactions[t.id]
<1>1. call[g] # None /\ call[g].request \in BetWinRequests
  BY CallIsTyped, RequestsAssumption DEF BetWinCommit, AtEnd, BatchRequests
<1>2. transactions' = [i \in IdProviders |-> IF call[g].applied[i] # None
                         THEN call[g].applied[i] ELSE transactions[i]]
  BY DEF BetWinCommit
<1>3. ASSUME NEW i \in IdProviders, call[g].applied[i] # None
      PROVE  /\ transactions[i] = None /\ i \in IdsOf(call[g].request)
             /\ call[g].applied[i].type \in {"bet", "win"}
  BY <1>1, <1>3 DEF StagedIsFresh, Progress, StagedKinds
<1>4. ASSUME NEW t \in RollbackTxs PROVE transactions'[t.id] = transactions[t.id]
  <2>1. t.id \in IdProviders /\ t.id \notin IdsOf(call[g].request)
    BY <1>1, RollbackTxsTyped DEF RollbackIdsUnique, RollbackTx
  <2> QED
    BY <1>2, <1>3, <2>1
<1> QED
  BY <1>1, <1>2, <1>3, <1>4

(* A step of a Rollback stores one row, of the transaction it is at.        *)
LEMMA RollbackStores ==
    ASSUME RollbackIdsUnique, TypeOK, NEW g \in Goroutines, RollbackApply(g)
    PROVE  /\ call[g] # None /\ call[g].request \in RollbackRequests
           /\ Tx(g) \in RollbackTxs /\ Tx(g).id \in IdProviders /\ Tx(g).original \in IdProviders
           /\ transactions[Tx(g).id] = None
           /\ transactions'[Tx(g).id] = RollbackRow(g) /\ RollbackRow(g) # None
           /\ \A i \in IdProviders \ {Tx(g).id} : transactions'[i] = transactions[i]
           /\ \A t \in RollbackTxs \ {Tx(g)} : /\ t.id \in IdProviders \ {Tx(g).id}
                                               /\ transactions'[t.id] = transactions[t.id]
<1>1. /\ call[g] # None /\ call[g].request \in RollbackRequests /\ ~Seen(g)
      /\ Tx(g) \in RollbackTxs /\ Tx(g).id \in IdProviders /\ Tx(g).original \in IdProviders
  BY RollbackTxIsTyped DEF RollbackApply, AtTx, RollbackTx
<1>2. RollbackRow(g) # None
  BY RollbackRowIsTyped, NoneAssumption DEF RollbackApply
<1>3. transactions' = [transactions EXCEPT ![Tx(g).id] = RollbackRow(g)]
  BY DEF RollbackApply
<1>4. ASSUME NEW t \in RollbackTxs \ {Tx(g)} PROVE t.id \in IdProviders \ {Tx(g).id}
  BY <1>1, RollbackTxsTyped DEF RollbackIdsUnique, RollbackTx
<1> QED
  BY <1>1, <1>2, <1>3, <1>4 DEF Seen, TypeOK

(* A step of a call keeps the origins.                                      *)
LEMMA StepKeepsOrigins ==
    ASSUME RollbackIdsUnique, TypeOK, StagedIsFresh, Progress, Origins,
           NEW g \in Goroutines, Step(g)
    PROVE  Origins'
<1>0. RowsKept /\ \A t \in RollbackTxs : t.id \in IdProviders /\ t.original \in IdProviders
  BY StepKeepsRows, RollbackTxsTyped DEF RollbackTx
<1>1. CASE BetWinCommit(g)
  <2>1. ASSUME NEW i \in IdProviders, Reversible(i)'
        PROVE  \E r \in BetWinRequests : i \in IdsOf(r)
    BY <1>1, <2>1, CommitStores DEF Origins, Reversible
  <2>2. ASSUME NEW t \in RollbackTxs, Reverses(t)' PROVE Reversible(t.original)'
    <3>1. Reverses(t)
      BY <1>1, <2>2, CommitStores DEF Reverses
    <3> QED
      BY <1>0, <3>1, ReversibleStays DEF Origins
  <2> QED
    BY <2>1, <2>2 DEF Origins
<1>2. CASE RollbackApply(g)
  <2>1. RollbackRow(g).type = "" /\ (RollbackRow(g).id # 0 => Reversible(Tx(g).original))
    BY DEF RollbackRow
  <2>2. ASSUME NEW i \in IdProviders, Reversible(i)'
        PROVE  \E r \in BetWinRequests : i \in IdsOf(r)
    BY <1>2, <2>1, <2>2, RollbackStores DEF Origins, Reversible
  <2>3. ASSUME NEW t \in RollbackTxs, Reverses(t)' PROVE Reversible(t.original)'
    <3>1. CASE t = Tx(g)
      <4>1. Reversible(t.original)
        BY <1>2, <2>1, <2>3, <3>1, RollbackStores DEF Reverses
      <4> QED
        BY <1>0, <4>1, ReversibleStays
    <3>2. CASE t # Tx(g)
      <4>1. Reverses(t)
        BY <1>2, <2>3, <3>2, RollbackStores DEF Reverses
      <4> QED
        BY <1>0, <4>1, ReversibleStays DEF Origins
    <3> QED
      BY <3>1, <3>2
  <2> QED
    BY <2>2, <2>3 DEF Origins
<1>3. CASE transactions' = transactions
  BY <1>3 DEF Origins, Reversible, Reverses
<1> QED
  BY <1>1, <1>2, <1>3, RowCases

(* The origins of rows and reversals are kept.                              *)
LEMMA OriginsKept ==
    ASSUME RollbackIdsUnique
    PROVE  Spec => []Origins
<1>1. Init => Origins
  BY RollbackTxsTyped DEF Init, Origins, Reversible, Reverses, RollbackTx
<1>2. TypeOK /\ StagedIsFresh /\ Progress /\ Origins /\ [Next]_vars => Origins'
  <2> SUFFICES ASSUME TypeOK, StagedIsFresh, Progress, Origins, [Next]_vars PROVE Origins'
    OBVIOUS
  <2>1. ASSUME NEW g \in Goroutines, Step(g) PROVE Origins'
    BY <2>1, StepKeepsOrigins
  <2>2. CASE transactions' = transactions
    BY <2>2 DEF Origins, Reversible, Reverses
  <2>3. ASSUME NEW g, NEW r, Enter(g, r) PROVE transactions' = transactions
    BY <2>3 DEF Enter, ledger
  <2>4. Restart => transactions' = transactions
    BY DEF Restart, Restored, TypeOK
  <2> QED
    BY <2>1, <2>2, <2>3, <2>4, NextCases DEF Quiet
<1> QED
  BY <1>1, <1>2, TypeCorrect, StagedStaysFresh, ProgressKept, PTL DEF Spec
-----------------------------------------------------------------------------
(* What rows are worth                                                      *)

(* A commit adds what the working copy gained.                              *)
LEMMA WorthAtCommit ==
    ASSUME RollbackIdsUnique, TypeOK, StagedIsFresh, Progress, Origins,
           NEW g \in Goroutines, BetWinCommit(g), NEW i \in IdProviders
    PROVE  Worth(i)' = Worth(i) + Gain(call[g].applied[i])
<1>1. call[g].applied[i] \in StoredTransaction \cup {None} /\ Worth(i) \in Int
  BY CommitStores, WorthIsInt DEF TypeOK, Locals
<1>2. IsReversed(i)' <=> IsReversed(i)
  BY CommitStores DEF IsReversed, Reverses
<1>3. CASE call[g].applied[i] = None
  <2>1. transactions'[i] = transactions[i]
    BY <1>3, CommitStores
  <2>2. Worth(i)' = Worth(i)
    BY <1>2, <2>1 DEF Worth, Reversible
  <2>3. Gain(call[g].applied[i]) = 0
    BY <1>3 DEF Gain
  <2> QED
    BY <1>1, <2>2, <2>3
<1>4. CASE call[g].applied[i] # None
  <2>1. /\ transactions'[i] = call[g].applied[i] /\ transactions[i] = None
        /\ call[g].applied[i].type \in {"bet", "win"} /\ call[g].applied[i].amount \in Nat
    BY <1>1, <1>4, CommitStores DEF StoredTransaction
  <2>2. ~Reversible(i) /\ ~IsReversed(i) /\ Reversible(i)'
    BY <1>4, <2>1 DEF Reversible, Origins, IsReversed
  <2>3. Worth(i) = 0
    BY <2>2 DEF Worth
  <2>4. Worth(i)' = Gain(call[g].applied[i])
    BY <1>2, <1>4, <2>1, <2>2 DEF Worth, Gain
  <2>5. Gain(call[g].applied[i]) \in Int
    BY <1>4, <2>1 DEF Gain
  <2> QED
    BY <2>3, <2>4, <2>5
<1> QED
  BY <1>3, <1>4

(* A rollback takes its original's worth away and touches no other.         *)
LEMMA WorthAtRollback ==
    ASSUME RollbackIdsUnique, UndoneOnce, TypeOK, Origins,
           NEW g \in Goroutines, RollbackApply(g), NEW i \in IdProviders
    PROVE  IF i = Tx(g).original /\ Reversible(i)
           THEN Worth(i) = Gain(transactions[i]) /\ Worth(i)' = 0
           ELSE Worth(i)' = Worth(i)
<1>1. /\ RollbackRow(g).type = ""
      /\ RollbackRow(g).id # 0 <=> Reversible(Tx(g).original)
  BY DEF RollbackRow, TypeOK
<1>0. PICK u \in RollbackTxs : u = Tx(g)
  BY RollbackStores
<1>2. ~Reverses(u) /\ (Reverses(u)' <=> Reversible(u.original))
  BY <1>0, <1>1, RollbackStores DEF Reverses
<1>3. \A t \in RollbackTxs \ {u} : Reverses(t)' <=> Reverses(t)
  BY <1>0, RollbackStores DEF Reverses
<1>4. CASE i = Tx(g).id
  <2>1. ~Reversible(i) /\ ~Reversible(i)'
    BY <1>1, <1>4, RollbackStores DEF Reversible
  <2> QED
    BY <2>1 DEF Worth
<1>5. CASE i # Tx(g).id
  <2>1. transactions'[i] = transactions[i] /\ (Reversible(i)' <=> Reversible(i))
    BY <1>5, RollbackStores DEF Reversible
  <2>2. CASE i = Tx(g).original /\ Reversible(i)
    <3>1. IsReversed(i)'
      BY <1>0, <1>2, <2>2 DEF IsReversed
    <3>2. ~IsReversed(i)
      BY <1>0, <1>2, <2>2 DEF IsReversed, UndoneOnce
    <3> QED
      BY <2>1, <2>2, <3>1, <3>2 DEF Worth, Gain, Reversible
  <2>3. CASE ~Reversible(i)
    BY <2>1, <2>3 DEF Worth
  <2>4. CASE i # Tx(g).original
    <3>1. IsReversed(i)' <=> IsReversed(i)
      BY <1>0, <1>3, <2>4 DEF IsReversed
    <3> QED
      BY <2>1, <2>4, <3>1 DEF Worth
  <2> QED
    BY <2>2, <2>3, <2>4
<1> QED
  BY <1>4, <1>5

(* Other steps leave the worth of rows.                                     *)
LEMMA WorthStays ==
    ASSUME transactions' = transactions, NEW i
    PROVE  Worth(i)' = Worth(i)
BY DEF Worth, Reversible, IsReversed, Reverses

(* A clamped reversal is not forgotten.                                     *)
LEMMA ClampedStays ==
    ASSUME RowsKept, Origins, NEW a, MayHaveClamped(a)
    PROVE  MayHaveClamped(a)'
<1>0. PICK r \in RollbackRequests : \E k \in DOMAIN r.transactions :
         /\ r.account = a /\ Reverses(r.transactions[k])
         /\ transactions[r.transactions[k].original].type = "win"
         /\ transactions[r.transactions[k].id].balanceAfter = 0
  BY DEF MayHaveClamped
<1>1. PICK k \in DOMAIN r.transactions :
         /\ r.account = a /\ Reverses(r.transactions[k])
         /\ transactions[r.transactions[k].original].type = "win"
         /\ transactions[r.transactions[k].id].balanceAfter = 0
  BY <1>0
<1>2. PICK t \in RollbackTxs : t = r.transactions[k]
  BY DEF RollbackTxs
<1>3. t.id \in IdProviders /\ t.original \in IdProviders
  BY RollbackTxsTyped DEF RollbackTx
<1>4. transactions'[t.id] = transactions[t.id] /\ Reverses(t)'
  BY <1>1, <1>2, <1>3 DEF Reverses, RowsKept
<1>5. transactions'[t.original] = transactions[t.original]
  BY <1>1, <1>2, <1>3, ReversibleStays DEF Origins
<1> QED
  BY <1>1, <1>2, <1>4, <1>5 DEF MayHaveClamped

(* The books stay balanced when money and what is due move alike, or when   *)
(* a clamp leaves more.                                                     *)
LEMMA BalancedMoves ==
    ASSUME RowsKept, Origins, NEW a, NEW m \in Int, NEW n \in Int, NEW d \in Int,
           Due(a) \in Int, Due(a)' = Due(a) + d, Balanced(a, m),
           n = m + d \/ (n >= m + d /\ MayHaveClamped(a)')
    PROVE  Balanced(a, n)'
<1>1. CASE MayHaveClamped(a)'
  <2>1. m >= Due(a)
    BY DEF Balanced
  <2>2. n >= Due(a)'
    BY <2>1
  <2> QED
    BY <1>1, <2>2 DEF Balanced
<1>2. CASE ~MayHaveClamped(a)'
  <2>1. m = Due(a) /\ n = Due(a)'
    BY <1>2, ClampedStays DEF Balanced
  <2> QED
    BY <1>2, <2>1 DEF Balanced
<1> QED
  BY <1>1, <1>2

(* Where no worth and no payment changes, neither does the balance.         *)
LEMMA BalancedStays ==
    ASSUME FiniteBooks, TypeOK, TypeOK', RowsKept, Origins, NEW a \in Accounts,
           NEW m \in Int, Balanced(a, m),
           \A i \in Mine(a) : Worth(i)' = Worth(i),
           \A j \in Issues : Paid(a, j)' = Paid(a, j)
    PROVE  Balanced(a, m)'
<1>1. Due(a) \in Int /\ Due(a)' = Due(a)
  BY DueStays
<1>2. \E d \in Int : Due(a)' = Due(a) + d /\ m = m + d
  BY <1>1
<1> QED
  BY <1>1, <1>2, BalancedMoves, Zenon
-----------------------------------------------------------------------------
(* What a call has worked out                                               *)

(* The locals of a call: what it staged it has walked past, its running     *)
(* balance is the one it began with until something changes, and in a       *)
(* BetWin ahead of that by what it staged.                                  *)
Working(c) ==
    /\ \A i \in IdProviders : c.applied[i] # None =>
          \E k \in DOMAIN c.request.transactions :
             k < c.next /\ c.request.transactions[k].id = i
    /\ ~c.changed => c.running = c.before
    /\ c.request \in BetWinRequests =>
          c.running = c.before + SumFunctionOnSet([i \in IdProviders |-> Gain(c.applied[i])],
                                                  Mine(c.request.account))

AllWorking == \A g \in Goroutines : call[g] # None => Working(call[g])

(* What a call staged gains it integers.                                    *)
LEMMA GainIsInt == \A row \in StoredTransaction \cup {None} : Gain(row) \in Int
<1> SUFFICES ASSUME NEW row \in StoredTransaction \cup {None} PROVE Gain(row) \in Int
  OBVIOUS
<1>1. row # None => row.amount \in Nat
  BY DEF StoredTransaction
<1> QED
  BY <1>1 DEF Gain

(* A call begins with nothing worked out.                                   *)
LEMMA StartWorks ==
    ASSUME FiniteBooks, TypeOK, NEW r \in BatchRequests, r.account \in Accounts
    PROVE  Working(Start(r))
<1> DEFINE gains == [i \in IdProviders |-> Gain(Start(r).applied[i])]
<1>1. \A i \in IdProviders : gains[i] = 0
  BY DEF Start, Gain
<1> HIDE DEF gains
<1>2. SumFunctionOnSet(gains, Mine(r.account)) = 0
  BY <1>1, MineIsFinite, SumOfZeros
<1>3. balance[r.account] \in Int
  BY DEF TypeOK
<1>4. Start(r).request = r /\ Start(r).running = Start(r).before /\ Start(r).running \in Int
  BY <1>3 DEF Start
<1>5. \A i \in IdProviders : Start(r).applied[i] = None
  BY DEF Start
<1> QED
  BY <1>2, <1>4, <1>5 DEF Working, gains

(* Walking on keeps that, past a repeat or past a transaction undone.       *)
LEMMA WalkingWorks ==
    ASSUME NEW c \in Locals, NEW d, Working(c), d.request = c.request,
           d.applied = c.applied, d.next = c.next + 1, d.before = c.before,
           \/ d.running = c.running /\ d.changed = c.changed
           \/ d.changed = TRUE /\ c.request \notin BetWinRequests
    PROVE  Working(d)
<1>1. ASSUME NEW i \in IdProviders, d.applied[i] # None
      PROVE  \E k \in DOMAIN d.request.transactions :
                k < d.next /\ d.request.transactions[k].id = i
  <2>1. PICK k \in DOMAIN c.request.transactions :
               k < c.next /\ c.request.transactions[k].id = i
    BY <1>1 DEF Working
  <2>2. c.next \in Nat
    BY DEF Locals
  <2>3. c.request.transactions \in Seq(BetWinTx) \cup Seq(RollbackTx)
    BY RequestsAssumption DEF Locals, BatchRequests
  <2>4. k \in Nat
    BY <2>1, <2>3
  <2> QED
    BY <2>1, <2>2, <2>4
<1> QED
  BY <1>1 DEF Working

(* What a BetWin stages next was not staged, and its gain is what the       *)
(* running balance moves by.                                                *)
LEMMA ApplyWorks ==
    ASSUME BatchesApart, FiniteBooks, TypeOK, NEW g \in Goroutines, BetWinApply(g),
           NEW c, c = call[g], Working(c), NEW d, d = call'[g]
    PROVE  Working(d)
<1>0. BetWinRow(g) \in StoredTransaction /\ BetWinRow(g) # None
      /\ AtTx(g, "betwin") /\ c # None /\ c \in Locals /\ c.request \in BetWinRequests
  BY BetWinRowIsTyped, BetWinTxIsTyped, CallIsTyped, NoneAssumption
  DEF BetWinApply, Fresh, AtTx
<1>1. PICK id \in IdProviders : id = Tx(g).id
  BY <1>0, AtOwnTx
<1>2. PICK row \in StoredTransaction : row = BetWinRow(g) /\ row # None
  BY <1>0
<1>3. /\ d.request = c.request /\ d.running = Moved(g) /\ d.before = c.before
      /\ d.next = c.next + 1 /\ d.changed = TRUE
      /\ \A i \in IdProviders : d.applied[i] = IF i = id THEN row ELSE c.applied[i]
  <2>1. d.request = c.request /\ d.running = Moved(g)
        /\ d.applied = [c.applied EXCEPT ![id] = row]
        /\ c.applied \in [IdProviders -> StoredTransaction \cup {None}]
    BY <1>1, <1>2, BetWinApplyStages
  <2>2. d = [Applied(c, row) EXCEPT !.applied = [c.applied EXCEPT ![id] = row]]
    BY <1>1, <1>2 DEF BetWinApply, TypeOK
  <2>3. Applied(c, row) \in Locals
    BY <1>0, AppliedIsTyped
  <2>4. /\ d.before = Applied(c, row).before /\ d.next = Applied(c, row).next
        /\ d.changed = Applied(c, row).changed
    BY <2>2, <2>3 DEF Locals
  <2>5. /\ Applied(c, row).before = c.before /\ Applied(c, row).next = c.next + 1
        /\ Applied(c, row).changed = TRUE
    BY <1>0 DEF Applied, Locals
  <2> QED
    BY <2>1, <2>4, <2>5
<1>4. PICK b : b = c.request.transactions
  OBVIOUS
<1>5. /\ DOMAIN b \subseteq Nat /\ c.next \in DOMAIN b /\ b[c.next].id = id
      /\ c.next \in Nat
      /\ id \in IdsOf(c.request)
      /\ \A j, k \in DOMAIN b : b[j].id = b[k].id => j = k
  <2>1. c.next \in DOMAIN Batch(g) /\ Tx(g).id \in IdsOf(call[g].request)
    BY <1>0, AtOwnTx
  <2>2. DOMAIN Batch(g) = 1..Len(Batch(g)) /\ call[g].request \in BatchRequests
    BY <1>0, PlaceInBatch
  <2>3. \A j, k \in DOMAIN b : b[j].id = b[k].id => j = k
    BY <1>4, <2>2 DEF BatchesApart
  <2> QED
    BY <1>1, <1>4, <2>1, <2>2, <2>3 DEF Batch, Tx
<1>6. c.applied[id] = None
  <2>1. ASSUME NEW k \in DOMAIN b, k < c.next, b[k].id = id PROVE FALSE
    BY <1>5, <2>1
  <2> QED
    BY <1>4, <2>1 DEF Working
<1>7. ASSUME NEW i \in IdProviders, d.applied[i] # None
      PROVE  \E k \in DOMAIN b : k < d.next /\ b[k].id = i
  <2>1. CASE i = id
    BY <1>3, <1>5, <2>1
  <2>2. CASE i # id
    <3>1. PICK k \in DOMAIN b : k < c.next /\ b[k].id = i
      BY <1>3, <1>4, <1>7, <2>2 DEF Working
    <3> QED
      BY <1>3, <1>5, <3>1
  <2> QED
    BY <2>1, <2>2
<1> DEFINE S == Mine(c.request.account)
           f == [i \in IdProviders |-> Gain(c.applied[i])]
           one == [i \in S |-> IF i = id THEN Gain(row) ELSE 0]
           sum == [i \in IdProviders |-> Gain(d.applied[i])]
<1>8. S \subseteq IdProviders /\ IsFiniteSet(S) /\ id \in S
  BY <1>0, <1>5, MineIsFinite DEF Mine
<1>9. Gain(row) \in Int /\ Gain(None) = 0
  BY GainIsInt DEF Gain
<1>10. \A i \in S : f[i] \in Int /\ one[i] \in Int /\ sum[i] = f[i] + one[i]
  <2>1. ASSUME NEW i \in S PROVE f[i] \in Int /\ one[i] \in Int /\ sum[i] = f[i] + one[i]
    <3>1. c.applied[i] \in StoredTransaction \cup {None} /\ i \in IdProviders
      BY <1>0, <1>8 DEF Locals
    <3>2. f[i] = Gain(c.applied[i]) /\ f[i] \in Int
      BY <3>1, GainIsInt
    <3>3. CASE i = id
      <4>1. f[i] = 0 /\ one[i] = Gain(row) /\ sum[i] = Gain(row)
        BY <1>3, <1>6, <1>9, <3>2, <3>3
      <4> QED
        BY <1>9, <4>1
    <3>4. CASE i # id
      <4>1. one[i] = 0 /\ sum[i] = f[i]
        BY <1>3, <3>1, <3>2, <3>4
      <4> QED
        BY <3>2, <4>1
    <3> QED
      BY <3>3, <3>4
  <2> QED
    BY <2>1
<1>11. SumFunctionOnSet(one, S) = Gain(row)
  BY <1>8, <1>9, SumOfOne
<1>12. c.running = c.before + SumFunctionOnSet(f, S)
  BY <1>0 DEF Working
<1>13. Moved(g) = c.running + Gain(row)
  <2>1. row.type = Tx(g).type /\ row.amount = Tx(g).amount
    BY <1>2 DEF BetWinRow
  <2>2. Tx(g).amount \in Int /\ c.running \in Int
    BY <1>0, BetWinTxIsTyped, AccountsAssumption DEF BetWinTx, Locals
  <2> QED
    BY <1>2, <2>1, <2>2 DEF Moved, IsBet, Gain
<1> HIDE DEF S, f, one, sum
<1>14. SumFunctionOnSet(sum, S) = SumFunctionOnSet(f, S) + SumFunctionOnSet(one, S)
       /\ SumFunctionOnSet(f, S) \in Int
  BY <1>8, <1>10, SumOfSums, SumIsInt
<1>15. c.before \in Int
  BY <1>0 DEF Locals
<1>16. d.running = d.before + SumFunctionOnSet(sum, S)
  BY <1>3, <1>9, <1>11, <1>12, <1>13, <1>14, <1>15
<1> QED
  BY <1>3, <1>4, <1>7, <1>16 DEF Working, S, sum

(* A step of a call keeps what the calls have worked out.                   *)
LEMMA StepKeepsWorking ==
    ASSUME BatchesApart, FiniteBooks, TypeOK, MutualExclusion, AllWorking,
           NEW g \in Goroutines, Step(g)
    PROVE  AllWorking'
<1>0. \A h \in Goroutines \ {g} : call'[h] = None
  BY OthersOutside
<1>1. PICK c \in Locals : c = call[g] /\ c # None /\ Working(c)
  BY StepMovesItsCall, CallIsTyped DEF StepShape, AllWorking
<1>2. PICK d : d = call'[g]
  OBVIOUS
<1> SUFFICES ASSUME d # None PROVE Working(d)
  BY <1>0, <1>2 DEF AllWorking
<1>3. d.request = c.request /\ d.before = c.before
  BY <1>1, <1>2, StepKeepsBefore
<1>4. ASSUME NEW route, Replay(g, route) PROVE Working(d)
  <2>1. d = Replayed(c, transactions[Tx(g).id])
    BY <1>1, <1>2, <1>4 DEF Replay, TypeOK
  <2>2. d.applied = c.applied /\ d.running = c.running
    BY <2>1, LocalsKept
  <2>3. d.next = c.next + 1 /\ d.changed = c.changed
    BY <2>1 DEF Replayed, Locals
  <2> QED
    BY <1>1, <1>3, <2>2, <2>3, WalkingWorks
<1>5. CASE BetWinApply(g)
  BY <1>1, <1>2, <1>5, ApplyWorks
<1>6. CASE RollbackApply(g)
  <2>1. d = Applied(c, RollbackRow(g))
    BY <1>1, <1>2, <1>6 DEF RollbackApply, TypeOK
  <2>2. d.applied = c.applied
    BY <2>1, LocalsKept
  <2>3. d.next = c.next + 1 /\ d.changed = TRUE
    BY <2>1 DEF Applied, Locals
  <2>4. c.request \notin BetWinRequests
    BY <1>1, <1>6, RequestsAssumption DEF RollbackApply, AtTx
  <2> QED
    BY <1>1, <1>3, <2>2, <2>3, <2>4, WalkingWorks
<1>7. (\E route : Replay(g, route)) \/ BetWinApply(g) \/ RollbackApply(g)
  BY <1>2 DEF Step, ReplayPanics, BetWinTombstoned, BetWinLimited, BetWinInsufficient,
    BetWinCommit, RollbackCommit, Return, TypeOK
<1> QED
  BY <1>4, <1>5, <1>6, <1>7

(* What calls have worked out is kept.                                      *)
LEMMA WorkingKept ==
    ASSUME BatchesApart, FiniteBooks
    PROVE  Spec => []AllWorking
<1>1. Init => AllWorking
  BY DEF Init, AllWorking
<1>2. TypeOK /\ MutualExclusion /\ AllWorking /\ [Next]_vars => AllWorking'
  <2> SUFFICES ASSUME TypeOK, MutualExclusion, AllWorking, [Next]_vars PROVE AllWorking'
    OBVIOUS
  <2>1. ASSUME NEW g \in Goroutines, Step(g) PROVE AllWorking'
    BY <2>1, StepKeepsWorking
  <2>2. ASSUME NEW g \in Goroutines, NEW r \in BatchRequests, Enter(g, r)
        PROVE  AllWorking'
    <3>1. /\ r.account \in Accounts /\ call'[g] = Start(r)
          /\ \A h \in Goroutines \ {g} : call'[h] = call[h]
      BY <2>2 DEF Enter, TypeOK
    <3>2. PICK d : d = Start(r) /\ Working(d)
      BY <3>1, StartWorks
    <3>3. ASSUME NEW h \in Goroutines, call'[h] # None PROVE Working(call'[h])
      <4>1. PICK e : e = call'[h]
        OBVIOUS
      <4>2. Working(e)
        BY <3>1, <3>2, <3>3, <4>1 DEF AllWorking
      <4> QED
        BY <4>1, <4>2
    <3> QED
      BY <3>3 DEF AllWorking
  <2>3. CASE Restart
    BY <2>3 DEF Restart, Restored, AllWorking
  <2>4. CASE call' = call
    BY <2>4 DEF AllWorking
  <2> QED
    BY <2>1, <2>2, <2>3, <2>4, NextCases DEF Quiet
<1> QED
  BY <1>1, <1>2, TypeCorrect, MutexExcludes, PTL DEF Spec
-----------------------------------------------------------------------------
(* The books                                                                *)

Undoing(c, a) == c # None /\ c.request \in RollbackRequests /\ c.request.account = a

(* The money of account a: the committed balance, or what a rollback under  *)
(* way will commit, as its rows are stored before.                          *)
Holding(c, a) == IF Undoing(c, a) THEN c.running ELSE balance[a]

(* Books says nothing while a call holds the mutex.  Then the account of a  *)
(* rollback is off by what it has undone so far, and its running balance is *)
(* not; every other account is balanced all along.                          *)
Sound ==
    \A a \in Accounts :
       /\ \/ Balanced(a, balance[a])
          \/ \E g \in Goroutines : Undoing(call[g], a)
       /\ \A g \in Goroutines : Undoing(call[g], a) => Balanced(a, call[g].running)

(* With one call under way that is one number for each account,             *)
LEMMA SoundBefore ==
    ASSUME Sound, NEW g \in Goroutines, \A h \in Goroutines \ {g} : call[h] = None,
           NEW c, c = call[g], NEW a \in Accounts, NEW m, m = Holding(c, a)
    PROVE  Balanced(a, m)
<1>1. \A h \in Goroutines \ {g} : ~Undoing(call[h], a)
  BY DEF Undoing
<1> QED
  BY <1>1 DEF Sound, Holding

(* before a step and after it.                                              *)
LEMMA SoundAfter ==
    ASSUME NEW g \in Goroutines, \A h \in Goroutines \ {g} : call'[h] = None,
           NEW c, c = call'[g],
           \A a \in Accounts : \A m : m = Holding(c, a)' => Balanced(a, m)'
    PROVE  Sound'
<1> SUFFICES ASSUME NEW a \in Accounts
             PROVE  /\ \/ Balanced(a, balance[a])'
                       \/ \E h \in Goroutines : Undoing(call'[h], a)
                    /\ \A h \in Goroutines : Undoing(call'[h], a) => Balanced(a, call[h].running)'
  BY DEF Sound
<1>1. \A h \in Goroutines \ {g} : ~Undoing(call'[h], a)
  BY DEF Undoing
<1>2. PICK m : m = Holding(c, a)'
  OBVIOUS
<1>3. Balanced(a, m)'
  BY <1>2
<1>4. CASE Undoing(c, a)
  <2>1. m = call'[g].running
    BY <1>2, <1>4 DEF Holding
  <2>2. Balanced(a, call[g].running)'
    BY <1>3, <2>1 DEF Balanced
  <2> QED
    BY <1>1, <1>4, <2>2
<1>5. CASE ~Undoing(c, a)
  <2>1. m = balance'[a]
    BY <1>2, <1>5 DEF Holding
  <2>2. Balanced(a, balance[a])'
    BY <1>3, <2>1 DEF Balanced
  <2> QED
    BY <1>1, <1>5, <2>2
<1> QED
  BY <1>4, <1>5

(* What has been paid for issues changes with their rows only.              *)
LEMMA PaidStays ==
    ASSUME freespinsIssues' = freespinsIssues, NEW a, NEW j
    PROVE  Paid(a, j)' = Paid(a, j)
BY DEF Paid, Status

(* A BetWin's commit moves the balance by what it stores.                   *)
LEMMA CommitIsSound ==
    ASSUME BatchesApart, FiniteBooks, TypeOK, TypeOK', StagedIsFresh, Progress,
           MutualExclusion, BeforeIsCommitted, AllWorking, Origins, Sound,
           NEW g \in Goroutines, BetWinCommit(g)
    PROVE  Sound'
<1>0. RollbackIdsUnique /\ Step(g) /\ RowsKept
  BY ApartRollbacks, StepKeepsRows DEF Step
<1>1. PICK c \in Locals : c = call[g] /\ c # None /\ Working(c)
  BY CallIsTyped DEF BetWinCommit, AtEnd, AllWorking
<1>2. /\ c.request \in BetWinRequests /\ c.request \in BatchRequests
      /\ \A a : ~Undoing(c, a)
  BY <1>0, <1>1, CommitStores, RequestsAssumption DEF Undoing, BatchRequests
<1>3. /\ \A h \in Goroutines \ {g} : call[h] = None /\ call'[h] = None
      /\ call'[g] = None /\ \A a : ~Undoing(None, a)
  BY <1>0, OthersOutside DEF BetWinCommit, Return, TypeOK, Undoing
<1>4. /\ c.request.account \in Accounts /\ c.before = balance[c.request.account]
      /\ c.before \in Int /\ c.running \in Int
      /\ \A a \in Accounts : balance'[a] =
            IF c.changed /\ a = c.request.account THEN c.running ELSE balance[a]
  BY <1>1 DEF BetWinCommit, CommitBalance, BeforeIsCommitted, Locals, TypeOK
<1> SUFFICES ASSUME NEW a \in Accounts, NEW n, n = Holding(None, a)'
             PROVE  Balanced(a, n)'
  BY <1>3, SoundAfter
<1>5. PICK m \in Int : m = balance[a]
  BY DEF TypeOK
<1>6. n = balance'[a] /\ Balanced(a, m)
  BY <1>1, <1>2, <1>3, <1>5, SoundBefore DEF Holding
<1>7. \A j \in Issues : Paid(a, j)' = Paid(a, j)
  BY PaidStays DEF BetWinCommit
<1> DEFINE gain == [i \in IdProviders |-> Gain(c.applied[i])]
           pay == [j \in Issues |-> 0]
<1>8. /\ Mine(a) \subseteq IdProviders
      /\ \A i \in Mine(a) : gain[i] \in Int /\ Worth(i)' = Worth(i) + gain[i]
  BY <1>0, <1>1, MineIsFinite, GainIsInt, WorthAtCommit DEF Locals
<1>9. CASE a = c.request.account
  <2>1. /\ \A j \in Issues : pay[j] \in Int /\ Paid(a, j)' = Paid(a, j) + pay[j]
        /\ SumFunctionOnSet(pay, Issues) = 0
    BY <1>7, WorthIsInt, SumOfZeros DEF FiniteBooks
  <2>2. c.running = c.before + SumFunctionOnSet(gain, Mine(a))
        /\ (~c.changed => c.running = c.before)
    BY <1>1, <1>2, <1>9 DEF Working
  <2> HIDE DEF gain, pay
  <2>3. PICK d \in Int : d = SumFunctionOnSet(gain, Mine(a))
    BY <1>8, MineIsFinite, SumIsInt
  <2>4. Due(a) \in Int /\ Due(a)' = Due(a) + d
    BY <1>8, <2>1, <2>3, DueMoves
  <2>5. n = m + d /\ n \in Int
    BY <1>4, <1>5, <1>6, <1>9, <2>2, <2>3
  <2> QED
    BY <1>0, <1>6, <2>4, <2>5, BalancedMoves
<1>10. CASE a # c.request.account
  <2>1. ASSUME NEW i \in Mine(a) PROVE Worth(i)' = Worth(i)
    <3>1. PICK r \in BetWinRequests : r.account = a /\ i \in IdsOf(r)
      BY DEF Mine
    <3>2. c.applied[i] = None
      BY <1>0, <1>1, <1>2, <1>8, <1>10, <3>1, CommitStores DEF BatchesApart, BatchRequests
    <3>3. gain[i] = 0 /\ Worth(i) \in Int
      BY <1>8, <3>2, WorthIsInt DEF Gain
    <3> HIDE DEF gain
    <3> QED
      BY <1>8, <3>3
  <2>2. n = m
    BY <1>4, <1>5, <1>6, <1>10
  <2> QED
    BY <1>0, <1>6, <1>7, <2>1, <2>2, BalancedStays
<1> QED
  BY <1>9, <1>10

(* Undoing a transaction takes back what it was worth, or all there was     *)
(* left of it.                                                              *)
LEMMA UndoneTakesBack ==
    ASSUME NEW row \in StoredTransaction, row.type \in {"bet", "win"}, NEW running \in Int
    PROVE  /\ Undone(running, row) \in Int /\ Gain(row) \in Int
           /\ \/ Undone(running, row) = running - Gain(row)
              \/ /\ row.type = "win" /\ Undone(running, row) = 0
                 /\ Undone(running, row) >= running - Gain(row)
<1>1. row.amount \in Nat /\ row # None
  BY NoneAssumption DEF StoredTransaction
<1>2. CASE row.type = "bet"
  BY <1>1, <1>2 DEF Undone, Gain
<1>3. CASE row.type = "win"
  BY <1>1, <1>3 DEF Undone, Gain
<1> QED
  BY <1>2, <1>3

(* A rollback's step takes the original's worth off what is due to its      *)
(* account and off its running balance.                                     *)
LEMMA UndoingIsSound ==
    ASSUME BatchesApart, UndoneOnce, FiniteBooks, TypeOK, TypeOK', StagedIsFresh,
           MutualExclusion, Origins, Sound,
           NEW g \in Goroutines, RollbackApply(g)
    PROVE  Sound'
<1>0. RollbackIdsUnique /\ Step(g) /\ RowsKept
  BY ApartRollbacks, StepKeepsRows DEF Step
<1>1. PICK c \in Locals : c = call[g] /\ c # None
  BY CallIsTyped DEF RollbackApply, AtTx
<1>2. PICK d : d = call'[g]
  OBVIOUS
<1>3. /\ \A h \in Goroutines \ {g} : call[h] = None /\ call'[h] = None
      /\ d = Applied(c, RollbackRow(g)) /\ d # None
      /\ balance' = balance /\ freespinsIssues' = freespinsIssues
  <2>1. RollbackRow(g) \in StoredTransaction
    BY RollbackRowIsTyped DEF RollbackApply
  <2>2. Applied(c, RollbackRow(g)) \in Locals
    BY <2>1, AppliedIsTyped
  <2> QED
    BY <1>0, <1>1, <1>2, <2>2, OthersOutside, NoneAssumption DEF RollbackApply, TypeOK
<1>4. PICK u \in RollbackTxs : u = Tx(g)
  BY <1>0, RollbackStores
<1>5. /\ c.request \in RollbackRequests
      /\ c.next \in DOMAIN c.request.transactions /\ u = c.request.transactions[c.next]
      /\ u.id \in IdProviders /\ u.original \in IdProviders
      /\ transactions'[u.id] = RollbackRow(g) /\ RollbackRow(g) # None
  BY <1>0, <1>1, <1>4, RollbackStores, AtOwnTx DEF RollbackApply, Tx, Batch
<1>6. d.request = c.request /\ d.running = RollbackRow(g).balanceAfter
  BY <1>3, LocalsKept
<1>7. \A i \in IdProviders : ~(i = u.original /\ Reversible(i)) => Worth(i)' = Worth(i)
  BY <1>0, <1>4, WorthAtRollback
<1>8. ASSUME NEW b \in BetWinRequests, u.original \in IdsOf(b)
      PROVE  b.account = c.request.account
  BY <1>5, <1>8 DEF UndoneOnce
<1> SUFFICES ASSUME NEW a \in Accounts, NEW n, n = Holding(d, a)'
             PROVE  Balanced(a, n)'
  BY <1>2, <1>3, SoundAfter
<1>9. PICK m : m = Holding(c, a) /\ Balanced(a, m)
  BY <1>1, <1>3, SoundBefore
<1>10. \A j \in Issues : Paid(a, j)' = Paid(a, j)
  BY <1>3, PaidStays
<1>11. Mine(a) \subseteq IdProviders
  BY MineIsFinite
<1>12. CASE a # c.request.account
  <2>1. ~Undoing(c, a) /\ ~Undoing(d, a)
    BY <1>6, <1>12 DEF Undoing
  <2>2. n = m /\ m \in Int
    BY <1>3, <1>9, <2>1 DEF Holding, TypeOK
  <2>3. u.original \notin Mine(a)
    BY <1>8, <1>12 DEF Mine
  <2>4. \A i \in Mine(a) : Worth(i)' = Worth(i)
    BY <1>7, <1>11, <2>3
  <2> QED
    BY <1>0, <1>9, <1>10, <2>2, <2>4, BalancedStays
<1>13. CASE a = c.request.account
  <2>1. m = c.running /\ n = RollbackRow(g).balanceAfter /\ m \in Int
    BY <1>1, <1>3, <1>5, <1>6, <1>9, <1>13 DEF Holding, Undoing, Locals
  <2>2. CASE ~Reversible(u.original)
    <3>1. n = m
      BY <1>1, <1>4, <2>1, <2>2 DEF RollbackRow
    <3>2. \A i \in Mine(a) : Worth(i)' = Worth(i)
      BY <1>7, <1>11, <2>2
    <3> QED
      BY <1>0, <1>9, <1>10, <2>1, <3>1, <3>2, BalancedStays
  <2>3. CASE Reversible(u.original)
    <3>1. PICK o \in Mine(a) : o = u.original
      BY <1>5, <1>8, <1>13, <2>3 DEF Origins, Mine
    <3>2. PICK row \in StoredTransaction :
                 row = transactions[o] /\ row.type \in {"bet", "win"}
      BY <1>5, <2>3, <3>1 DEF Reversible, TypeOK, StoredTransaction
    <3>3. n = Undone(m, row)
      BY <1>1, <1>4, <2>1, <2>3, <3>1, <3>2 DEF RollbackRow
    <3>4. Worth(o) = Gain(row) /\ Worth(o)' = 0
      BY <1>0, <1>4, <1>5, <2>3, <3>1, <3>2, WorthAtRollback
    <3>5. /\ n \in Int /\ Gain(row) \in Int
          /\ \/ n = m - Gain(row)
             \/ row.type = "win" /\ n = 0 /\ n >= m - Gain(row)
      BY <2>1, <3>2, <3>3, UndoneTakesBack
    <3>6. PICK e \in Int : e = -Gain(row)
      BY <3>5
    <3>7. Worth(o)' = Worth(o) + e
      BY <3>4, <3>5, <3>6
    <3>8. Due(a) \in Int /\ Due(a)' = Due(a) + e
      BY <1>7, <1>10, <1>11, <3>1, <3>7, DueMovesAtRow
    <3>9. CASE n = m - Gain(row)
      <4>1. n = m + e
        BY <2>1, <3>5, <3>6, <3>9
      <4> QED
        BY <1>0, <1>9, <2>1, <3>5, <3>8, <4>1, BalancedMoves
    <3>10. CASE row.type = "win" /\ n = 0 /\ n >= m - Gain(row)
      <4>1. n >= m + e
        BY <2>1, <3>5, <3>6, <3>10
      <4>2. Reverses(u)' /\ transactions'[u.id].balanceAfter = 0
        <5>1. RollbackRow(g).id = nextTx /\ nextTx # 0
          BY <1>4, <2>3 DEF RollbackRow, TypeOK
        <5>2. Reverses(u)'
          BY <1>5, <5>1 DEF Reverses
        <5> QED
          BY <1>5, <2>1, <3>10, <5>2
      <4>3. transactions'[u.original].type = "win"
        BY <1>0, <1>5, <2>3, <3>1, <3>2, <3>10, ReversibleStays
      <4>4. MayHaveClamped(a)'
        BY <1>5, <1>13, <4>2, <4>3 DEF MayHaveClamped
      <4> QED
        BY <1>0, <1>9, <2>1, <3>5, <3>8, <4>1, <4>4, BalancedMoves
    <3> QED
      BY <3>5, <3>9, <3>10
  <2> QED
    BY <2>2, <2>3
<1> QED
  BY <1>12, <1>13

(* The other steps of a call store no row: they leave what each account     *)
(* holds.                                                                   *)
LEMMA StepHolds ==
    ASSUME TypeOK, OneKind, BeforeIsCommitted, AllWorking,
           NEW g \in Goroutines, Step(g), ~BetWinCommit(g), ~RollbackApply(g),
           NEW a \in Accounts, NEW c, c = call[g], NEW d, d = call'[g]
    PROVE  Holding(d, a)' = Holding(c, a)
<1>1. c # None /\ c \in Locals /\ Working(c)
  BY StepMovesItsCall, CallIsTyped DEF StepShape, AllWorking
<1>2. ~c.changed => c.running = c.before
  BY <1>1 DEF Working
<1>3. c.request.account \in Accounts /\ c.before = balance[c.request.account]
  BY <1>1 DEF BeforeIsCommitted
<1>4. ASSUME NEW route, Replay(g, route) PROVE Holding(d, a)' = Holding(c, a)
  <2>1. d = Replayed(c, transactions[Tx(g).id]) /\ d # None /\ balance' = balance
    <3>1. Replayed(c, transactions[Tx(g).id]) = call'[g]
      BY <1>4 DEF Replay, TypeOK
    <3>2. Replayed(c, transactions[Tx(g).id]) # None
      <4>1. transactions[Tx(g).id] \in StoredTransaction
        BY <1>4, AtOwnTx DEF Replay, Seen, TypeOK
      <4> QED
        BY <1>1, <4>1, ReplayedIsTyped, NoneAssumption
    <3> QED
      BY <1>4, <3>1, <3>2 DEF Replay, ledger
  <2>2. d.request = c.request /\ d.running = c.running
    <3>1. \A row : /\ Replayed(c, row).request = c.request
                  /\ Replayed(c, row).running = c.running
      BY <1>1, LocalsKept
    <3> QED
      BY <2>1, <3>1
  <2> QED
    BY <1>1, <2>1, <2>2 DEF Holding, Undoing
<1>5. ASSUME NEW route, ReplayPanics(g, route) PROVE Holding(d, a)' = Holding(c, a)
  <2>1. ~c.changed
    BY <1>5, RepeatsAreWhole DEF ReplayPanics, Again
  <2>2. d = None /\ balance' = balance
    BY <1>5 DEF ReplayPanics, Return, TypeOK, ledger
  <2> QED
    BY <1>2, <1>3, <2>1, <2>2 DEF Holding, Undoing
<1>6. CASE BetWinTombstoned(g) \/ BetWinLimited(g) \/ BetWinInsufficient(g)
  <2>1. c.request \notin RollbackRequests
    BY <1>6, RequestsAssumption
    DEF BetWinTombstoned, BetWinLimited, BetWinInsufficient, Fresh, AtTx
  <2>2. d = None /\ balance' = balance
    BY <1>6 DEF BetWinTombstoned, BetWinLimited, BetWinInsufficient, Return, TypeOK, ledger
  <2> QED
    BY <2>1, <2>2 DEF Holding, Undoing
<1>7. CASE BetWinApply(g)
  <2>1. c.request \notin RollbackRequests
    BY <1>7, RequestsAssumption DEF BetWinApply, Fresh, AtTx
  <2>2. d.request = c.request /\ balance' = balance
    BY <1>7, BetWinApplyStages DEF BetWinApply
  <2> QED
    BY <2>1, <2>2 DEF Holding, Undoing
<1>8. CASE RollbackCommit(g)
  <2>1. c.request \in RollbackRequests
    BY <1>1, <1>8, RequestsAssumption DEF RollbackCommit, AtEnd, Locals, BatchRequests
  <2>2. d = None /\ balance' = IF c.changed
                               THEN [balance EXCEPT ![c.request.account] = c.running]
                               ELSE balance
    BY <1>8 DEF RollbackCommit, CommitBalance, Return, TypeOK
  <2>3. balance'[a] = IF a = c.request.account THEN c.running ELSE balance[a]
    BY <1>2, <1>3, <2>2 DEF TypeOK
  <2> QED
    BY <1>1, <2>1, <2>2, <2>3 DEF Holding, Undoing
<1> QED
  BY <1>4, <1>5, <1>6, <1>7, <1>8 DEF Step

(* Every step of a call is sound.                                           *)
LEMMA StepIsSound ==
    ASSUME BatchesApart, UndoneOnce, FiniteBooks, TypeOK, TypeOK', StagedIsFresh, Progress,
           MutualExclusion, OneKind, BeforeIsCommitted, AllWorking, Origins, Sound,
           NEW g \in Goroutines, Step(g)
    PROVE  Sound'
<1>1. CASE BetWinCommit(g)
  BY <1>1, CommitIsSound
<1>2. CASE RollbackApply(g)
  BY <1>2, UndoingIsSound
<1>3. CASE ~BetWinCommit(g) /\ ~RollbackApply(g)
  <2>1. transactions' = transactions /\ RowsKept
    BY <1>3, RowCases, StepKeepsRows
  <2>2. freespinsIssues' = freespinsIssues
    BY StepAnswersBatch
  <2>3. \A h \in Goroutines \ {g} : call[h] = None /\ call'[h] = None
    BY OthersOutside
  <2>4. PICK c, d : c = call[g] /\ d = call'[g]
    OBVIOUS
  <2>5. ASSUME NEW a \in Accounts, NEW n, n = Holding(d, a)' PROVE Balanced(a, n)'
    <3>1. n = Holding(c, a)
      BY <1>3, <2>4, <2>5, StepHolds
    <3>2. Balanced(a, n)
      BY <2>3, <2>4, <3>1, SoundBefore
    <3>3. n \in Int
      BY <2>4, <3>1 DEF Holding, Undoing, TypeOK, Locals
    <3>4. (\A i \in Mine(a) : Worth(i)' = Worth(i)) /\ \A j \in Issues : Paid(a, j)' = Paid(a, j)
      BY <2>1, <2>2, WorthStays, PaidStays
    <3> QED
      BY <2>1, <3>2, <3>3, <3>4, BalancedStays
  <2> QED
    BY <2>3, <2>4, <2>5, SoundAfter
<1> QED
  BY <1>1, <1>2, <1>3

(* Outside calls nothing but a credit moves money, and a call that begins   *)
(* finds every account balanced.                                            *)
LEMMA QuietIsSound ==
    ASSUME FiniteBooks, TypeOK, TypeOK', Origins, Sound,
           transactions' = transactions, balance' = balance,
           \A a \in Accounts, j \in Issues : Paid(a, j)' = Paid(a, j),
           \/ call' = call
           \/ \A g \in Goroutines : call[g] = None /\ call'[g] = None
           \/ \E g \in Goroutines, r \in BatchRequests : Enter(g, r) /\ MutualExclusion
    PROVE  Sound'
<1>1. RowsKept
  BY DEF RowsKept
<1>2. ASSUME NEW a \in Accounts, NEW m \in Int, Balanced(a, m) PROVE Balanced(a, m)'
  BY <1>1, <1>2, WorthStays, BalancedStays
<1>3. ASSUME NEW a \in Accounts PROVE balance[a] \in Int
  BY DEF TypeOK
<1>4. ASSUME NEW g \in Goroutines, call[g] # None PROVE call[g].running \in Int
  BY <1>4 DEF TypeOK, Locals
<1> SUFFICES ASSUME NEW a \in Accounts
             PROVE  /\ \/ Balanced(a, balance[a])'
                       \/ \E g \in Goroutines : Undoing(call'[g], a)
                    /\ \A g \in Goroutines : Undoing(call'[g], a) => Balanced(a, call[g].running)'
  BY DEF Sound
<1>5. PICK m \in Int : m = balance[a]
  BY <1>3
<1>6. Balanced(a, m)' => Balanced(a, balance[a])'
  BY <1>5 DEF Balanced
<1>7. CASE call' = call
  <2>1. ASSUME NEW g \in Goroutines, Undoing(call[g], a) PROVE Balanced(a, call[g].running)'
    <3>1. PICK n \in Int : n = call[g].running
      BY <1>4, <2>1 DEF Undoing
    <3>2. Balanced(a, n)'
      BY <1>2, <2>1, <3>1 DEF Sound
    <3> QED
      BY <1>7, <3>1, <3>2 DEF Balanced
  <2> QED
    BY <1>2, <1>5, <1>6, <1>7, <2>1 DEF Sound
<1>8. CASE \A g \in Goroutines : call[g] = None
  <2>1. Balanced(a, m)' /\ Balanced(a, balance[a])'
    BY <1>2, <1>5, <1>6, <1>8 DEF Sound, Undoing
  <2>2. CASE \A g \in Goroutines : call'[g] = None
    BY <2>1, <2>2 DEF Undoing
  <2>3. CASE \E g \in Goroutines, r \in BatchRequests : Enter(g, r)
    <3>1. PICK g \in Goroutines, r \in BatchRequests : Enter(g, r)
      BY <2>3
    <3>2. \A h \in Goroutines : call'[h] = IF h = g THEN Start(r) ELSE None
      BY <1>8, <3>1 DEF Enter, TypeOK
    <3>3. Start(r).request = r /\ Start(r).running = balance[r.account]
      BY DEF Start
    <3>4. ASSUME NEW h \in Goroutines, Undoing(call'[h], a)
          PROVE  Balanced(a, call[h].running)'
      <4>1. call'[h].running = m
        BY <1>5, <3>2, <3>3, <3>4 DEF Undoing
      <4> QED
        BY <2>1, <4>1 DEF Balanced
    <3> QED
      BY <2>1, <3>4
  <2>4. CASE call' = call
    BY <1>7, <2>4
  <2> QED
    BY <2>2, <2>3, <2>4
<1>9. call' = call \/ \A g \in Goroutines : call[g] = None
  BY NobodyInside DEF Enter, MutexFree
<1> QED
  BY <1>7, <1>8, <1>9

(* A credited issue moves what is due and what is held by its amount.       *)
LEMMA CreditIsSound ==
    ASSUME FiniteBooks, TypeOK, TypeOK', MutualExclusion, Origins, Sound,
           NEW r \in FinishRequests, FreespinsFinishCredit(r)
    PROVE  Sound'
<1>1. \A g \in Goroutines : call[g] = None /\ call'[g] = None
  BY NobodyInside DEF FreespinsFinishCredit, MutexFree
<1>2. PICK o \in Issues : o = r.issue
  BY RequestsAssumption
<1>3. PICK b \in Accounts : b = freespinsIssues[o].account
  BY <1>2 DEF FreespinsFinishCredit
<1>4. PICK w \in Nat : w = r.amount
  BY RequestsAssumption, AccountsAssumption
<1>5. /\ Status(o) = "issued" /\ transactions' = transactions
      /\ freespinsIssues'[o] # None /\ freespinsIssues'[o].status = "finished"
      /\ freespinsIssues'[o].account = b /\ freespinsIssues'[o].amount = w
      /\ \A j \in Issues \ {o} : freespinsIssues'[j] = freespinsIssues[j]
      /\ \A a \in Accounts : balance'[a] = IF a = b THEN balance[a] + w ELSE balance[a]
  <2>1. PICK row : row = [account |-> b, status |-> "finished", amount |-> w,
                          balanceAfter |-> balance[b] + w]
    OBVIOUS
  <2>2. /\ freespinsIssues' = [freespinsIssues EXCEPT ![o] = row]
        /\ balance' = [balance EXCEPT ![b] = balance[b] + w]
        /\ Status(o) = "issued" /\ transactions' = transactions
    BY <1>2, <1>3, <1>4, <2>1 DEF FreespinsFinishCredit, Payable, SetIssue
  <2>3. row # None
    <3>1. freespinsIssues[o] \in StoredFreespinsIssue
      BY <2>2 DEF Status, TypeOK
    <3>2. balance[b] + w \in Int /\ b \in {IssueAccount[i] : i \in Issues}
      BY <1>3, <1>4, <3>1 DEF StoredFreespinsIssue, TypeOK
    <3>3. row \in StoredFreespinsIssue
      BY <1>4, <2>1, <3>2 DEF StoredFreespinsIssue
    <3> QED
      BY <3>3, NoneAssumption
  <2> QED
    BY <2>1, <2>2, <2>3 DEF TypeOK
<1>6. RowsKept
  BY <1>5 DEF RowsKept
<1> SUFFICES ASSUME NEW a \in Accounts PROVE Balanced(a, balance[a])'
  BY <1>1 DEF Sound, Undoing
<1>7. PICK m \in Int : m = balance[a] /\ Balanced(a, m)
  BY <1>1 DEF Sound, Undoing, TypeOK
<1>8. \A i \in Mine(a) : Worth(i)' = Worth(i)
  BY <1>5, WorthStays
<1>9. \A j \in Issues \ {o} : Paid(a, j)' = Paid(a, j)
  BY <1>5 DEF Paid, Status
<1>10. Paid(a, o) = 0 /\ Paid(a, o)' = IF a = b THEN w ELSE 0
  BY <1>5 DEF Paid, Status
<1>11. CASE a = b
  <2>1. Paid(a, o)' = Paid(a, o) + w
    BY <1>4, <1>10, <1>11
  <2>2. w \in Int
    BY <1>4
  <2>3. Due(a) \in Int /\ Due(a)' = Due(a) + w
    BY <1>8, <1>9, <2>1, <2>2, DueMovesAtIssue
  <2>4. PICK n \in Int : n = m + w
    BY <1>7, <2>2
  <2>5. Balanced(a, n)'
    BY <1>6, <1>7, <2>2, <2>3, <2>4, BalancedMoves
  <2> QED
    BY <1>5, <1>7, <1>11, <2>4, <2>5 DEF Balanced
<1>12. CASE a # b
  <2>1. Balanced(a, m)'
    BY <1>6, <1>7, <1>8, <1>9, <1>10, <1>12, BalancedStays
  <2> QED
    BY <1>5, <1>7, <1>12, <2>1 DEF Balanced
<1> QED
  BY <1>11, <1>12

(* The books balance between calls, for any number of accounts, batches and *)
(* goroutines: whatever is repeated, refused, undone or delivered out of    *)
(* order, and over restarts, an account holds its opening balance, plus the *)
(* wins and minus the bets stored for it and not undone, plus what its      *)
(* freespins paid.  Only a clamped reversal leaves it more.                 *)
THEOREM BooksBalance ==
    ASSUME BatchesApart, UndoneOnce, FiniteBooks
    PROVE  Spec => []Books
<1>0. RollbackIdsUnique
  BY ApartRollbacks
<1>1. Init => Sound
  <2> SUFFICES ASSUME Init, NEW a \in Accounts PROVE Balanced(a, balance[a])
    BY DEF Init, Sound, Undoing
  <2>1. Opening[a] \in Nat /\ balance[a] = Opening[a]
    BY AccountsAssumption DEF Init
  <2> DEFINE w == [i \in IdProviders |-> Worth(i)]
             p == [i \in Issues |-> Paid(a, i)]
  <2>2. \A i \in Mine(a) : w[i] = 0
    BY MineIsFinite DEF Init, Worth, Reversible
  <2>3. \A i \in Issues : p[i] = 0
    BY DEF Init, Paid, Status
  <2>4. Due(a) = Opening[a] + SumFunctionOnSet(w, Mine(a)) + SumFunctionOnSet(p, Issues)
    BY DEF Due
  <2> HIDE DEF w, p
  <2>5. SumFunctionOnSet(w, Mine(a)) = 0 /\ SumFunctionOnSet(p, Issues) = 0
    BY <2>2, <2>3, MineIsFinite, SumOfZeros DEF FiniteBooks
  <2>6. Due(a) = balance[a] /\ balance[a] \in Nat
    BY <2>1, <2>4, <2>5
  <2> QED
    BY <2>6 DEF Balanced
<1>2. TypeOK /\ TypeOK' /\ StagedIsFresh /\ Progress /\ Orderly /\ MutualExclusion
      /\ BeforeIsCommitted /\ AllWorking /\ Origins /\ Sound /\ [Next]_vars => Sound'
  <2> SUFFICES ASSUME TypeOK, TypeOK', StagedIsFresh, Progress, Orderly, MutualExclusion,
                      BeforeIsCommitted, AllWorking, Origins, Sound, [Next]_vars
               PROVE  Sound'
    OBVIOUS
  <2>1. ASSUME NEW g \in Goroutines, Step(g) PROVE Sound'
    BY <2>1, StepIsSound DEF Orderly
  <2>2. ASSUME NEW g \in Goroutines, NEW r \in BatchRequests, Enter(g, r) PROVE Sound'
    <3>1. transactions' = transactions /\ balance' = balance
          /\ freespinsIssues' = freespinsIssues
      BY <2>2 DEF Enter, ledger
    <3> QED
      BY <2>2, <3>1, PaidStays, QuietIsSound
  <2>3. CASE Restart
    <3>1. /\ transactions' = transactions /\ balance' = balance
          /\ freespinsIssues' = freespinsIssues
          /\ \A g \in Goroutines : call[g] = None /\ call'[g] = None
      BY <2>3, NobodyInside DEF Restart, Restored, MutexFree, TypeOK
    <3> QED
      BY <3>1, PaidStays, QuietIsSound
  <2>4. ASSUME NEW r \in FinishRequests, FreespinsFinishCredit(r) PROVE Sound'
    BY <2>4, CreditIsSound
  <2>5. CASE UNCHANGED <<balance, transactions, freespinsIssues, call>>
    BY <2>5, PaidStays, QuietIsSound
  <2>6. ASSUME NEW r, UnknownAccount(r) \/ Balance(r) \/ Finish(r)
        PROVE  UNCHANGED <<balance, transactions, freespinsIssues, call>>
    BY <2>6 DEF UnknownAccount, Balance, Finish, ReadAccount, ledger
  <2>7. ASSUME NEW r, FreespinsFinish(r)
        PROVE  \/ FreespinsFinishCredit(r)
               \/ UNCHANGED <<balance, transactions, freespinsIssues, call>>
    BY <2>7 DEF FreespinsFinish, FreespinsFinishUnknown, FreespinsFinishCanceled,
      FreespinsFinishNoAccount, FreespinsFinishUnreadable, FreespinsFinishReplay,
      FinishRefused, ledger
  <2>8. ASSUME NEW i \in Issues, RecordFreespinsIssue(i) \/ CancelFreespinsIssue(i)
        PROVE  Sound'
    <3>1. transactions' = transactions /\ balance' = balance /\ call' = call
      BY <2>8 DEF RecordFreespinsIssue, CancelFreespinsIssue
    <3>2. PICK row : /\ freespinsIssues' = [freespinsIssues EXCEPT ![i] = row]
                     /\ row.status # "finished"
      <4>1. CASE RecordFreespinsIssue(i)
        <5>1. PICK row : row = [account |-> IssueAccount[i], status |-> "issued",
                                amount |-> 0, balanceAfter |-> 0]
          OBVIOUS
        <5>2. row.status # "finished"
          BY <5>1
        <5>3. freespinsIssues' = [freespinsIssues EXCEPT ![i] = row]
          BY <4>1, <5>1 DEF RecordFreespinsIssue, SetIssue
        <5> QED
          BY <5>2, <5>3
      <4>2. CASE CancelFreespinsIssue(i)
        <5>1. freespinsIssues[i] \in StoredFreespinsIssue
          BY <4>2 DEF CancelFreespinsIssue, Cancelable, Status, TypeOK
        <5>2. PICK row : row = [freespinsIssues[i] EXCEPT !.status = "canceled"]
          OBVIOUS
        <5>3. row.status # "finished"
          BY <5>1, <5>2 DEF StoredFreespinsIssue
        <5> QED
          BY <4>2, <5>2, <5>3 DEF CancelFreespinsIssue, SetIssue
      <4> QED
        BY <2>8, <4>1, <4>2
    <3>3. Status(i) # "finished"
      BY <2>8 DEF RecordFreespinsIssue, CancelFreespinsIssue, Cancelable
    <3>4. ASSUME NEW a \in Accounts, NEW j \in Issues PROVE Paid(a, j)' = Paid(a, j)
      <4>1. CASE j = i
        BY <3>2, <3>3, <4>1 DEF Paid, Status, TypeOK
      <4>2. CASE j # i
        BY <3>2, <4>2 DEF Paid, Status, TypeOK
      <4> QED
        BY <4>1, <4>2
    <3> QED
      BY <3>1, <3>4, QuietIsSound
  <2>9. UNCHANGED vars => UNCHANGED <<balance, transactions, freespinsIssues, call>>
    BY DEF vars, ledger
  <2> QED
    BY <2>1, <2>2, <2>3, <2>4, <2>5, <2>6, <2>7, <2>8, <2>9 DEF Next
<1>3. MutualExclusion /\ Sound => Books
  <2> SUFFICES ASSUME MutualExclusion, Sound, mu = None, NEW a \in Accounts
               PROVE  Balanced(a, balance[a])
    BY DEF Books
  <2> QED
    BY NobodyInside DEF Sound, Undoing
<1> QED
  BY <1>0, <1>1, <1>2, <1>3, TypeCorrect, StagedStaysFresh, ProgressKept, OrderKept,
    MutexExcludes, BeforeStaysCommitted, WorkingKept, OriginsKept, PTL DEF Spec
=============================================================================
