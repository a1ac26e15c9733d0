--------------------------- MODULE MCInMemoryWallet ---------------------------
(* Small instances of InMemoryWallet for TLC: the requests each run may     *)
(* deliver.  Every request may be delivered any number of times and in any  *)
(* order, which is how retries, duplicates and reordering reach a wallet.   *)
EXTENDS InMemoryWallet, TLC

CONSTANTS alice, bob, eve,          \* eve is no account of the wallet
          x1, x2, x3, x4, x5, x6, y1, y2, y3, y4,
          p, q, i1, i2, g1, g2

BetWin(a, round, txs) ==
    [route |-> "betwin", account |-> a, round |-> round, transactions |-> txs]
Rollback(a, round, txs) ==
    [route |-> "rollback", account |-> a, round |-> round, transactions |-> txs]
Bet(i, n) == [id |-> i, type |-> "bet", amount |-> n]
Win(i, n) == [id |-> i, type |-> "win", amount |-> n]
Undo(i, o) == [id |-> i, original |-> o]
BalanceOf(a) == [route |-> "balance", account |-> a]
FinishRound(a) == [route |-> "finish", account |-> a]
FinishIssue(i, n) == [route |-> "freespins_finish", issue |-> i, amount |-> n]

MCOpening == alice :> 3 @@ bob :> 2
MCIssueAccount == i1 :> alice @@ i2 :> eve

(* The platform's own discipline: an id_provider names one transaction of  *)
(* one request, and a transaction is rolled back by one rollback, of the   *)
(* account it was sent for.                                                *)
Disciplined(requests) ==
    LET Places == {<<r, k>> \in requests \X (1..3) : k \in DOMAIN r.transactions}
        At(pl) == pl[1].transactions[pl[2]]
        Undos == {pl \in Places : pl[1].route = "rollback"}
    IN /\ \A v, w \in Places : At(v).id = At(w).id => v = w
       /\ \A v, w \in Undos : At(v).original = At(w).original => v = w
       /\ \A v \in Undos, w \in Places \ Undos :
             At(v).original = At(w).id => v[1].account = w[1].account

-----------------------------------------------------------------------------
(* wallet_batches: bets and wins of two transactions, their rollbacks in   *)
(* one and two steps, a bet limit and an unknown account.                  *)
BatchBets ==
    {BetWin(alice, p, <<Bet(x1, 2), Win(x2, 3)>>),
     BetWin(alice, q, <<Win(x3, 1), Bet(x4, 3)>>),
     BetWin(bob, p, <<Win(x5, 1), Bet(y4, 1)>>),
     BetWin(eve, p, <<Bet(x6, 1)>>)}
BatchRollbacks ==
    {Rollback(alice, p, <<Undo(y1, x1)>>),
     Rollback(alice, q, <<Undo(y2, x2), Undo(y3, x4)>>)}
BatchReads == {BalanceOf(alice)}
OtherReads == {BalanceOf(eve), FinishRound(bob)}

(* wallet_restart: restarts between the deliveries; an issue for alice,    *)
(* finished with two amounts, one for an account the wallet does not know, *)
(* and two batches and a rollback meanwhile.  MaxMoney is small enough for *)
(* balances to outgrow it.                                                 *)
RestartBets ==
    {BetWin(alice, p, <<Win(x1, 1), Bet(x2, 2)>>),
     BetWin(alice, q, <<Bet(x3, 3)>>)}
RestartRollbacks == {Rollback(alice, p, <<Undo(y1, x2)>>)}
RestartFinishes == {FinishIssue(i1, 0), FinishIssue(i1, 2), FinishIssue(i2, 1)}

ASSUME PlatformDiscipline ==
    /\ Disciplined(BatchBets \cup BatchRollbacks)
    /\ Disciplined(RestartBets \cup RestartRollbacks)

(* wallet_duplicate: one batch that carries the same transaction twice,    *)
(* which Disciplined excludes everywhere else.                             *)
DuplicateBets ==
    {BetWin(alice, p, <<Bet(x1, 1), Bet(x1, 1)>>), BetWin(alice, q, <<Win(x2, 1)>>)}

(* wallet_mixed: a batch that carries, beside a new transaction, one that   *)
(* was sent before.                                                        *)
MixedBets ==
    {BetWin(alice, p, <<Bet(x1, 1)>>), BetWin(alice, p, <<Win(x2, 1), Bet(x1, 1)>>)}
=============================================================================
