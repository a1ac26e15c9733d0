--------------------------- MODULE MCSeamlessWallet ---------------------------
(* A small instance of SeamlessWallet: a bet, and a bet with its win in one *)
(* batch, each with the rollback that reverts it.                           *)
EXTENDS SeamlessWallet, TLC

CONSTANTS x1, x2, x3, y1, y2, y3

Tx(i, t) == [id |-> i, type |-> t, amount |-> 1]
Undoing(i, o) == [id |-> i, original |-> o]

Single == [route |-> "betwin", transactions |-> <<Tx(x1, "bet")>>]
Double == [route |-> "betwin", transactions |-> <<Tx(x2, "bet"), Tx(x3, "win")>>]
UndoSingle == [route |-> "rollback", transactions |-> <<Undoing(y1, x1)>>]
UndoDouble ==
    [route |-> "rollback", transactions |-> <<Undoing(y2, x2), Undoing(y3, x3)>>]

MCBetWinRequests == {Single, Double}
MCRollbackRequests == {UndoSingle, UndoDouble}
MCRevert == Single :> UndoSingle @@ Double :> UndoDouble
=============================================================================
