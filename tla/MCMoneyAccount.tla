---------------------------- MODULE MCMoneyAccount ----------------------------
(* A small instance of MoneyAccount: three transactions, amounts of the     *)
(* scales 0 to 3, among them ones that differ beyond a coarser scale, ones  *)
(* with zeros behind the point, one value in two scales, and nothing.       *)
EXTENDS MoneyAccount

Plain(whole, fraction, places) ==
    [negative |-> FALSE, whole |-> whole, fraction |-> fraction, places |-> places]

(* 1.00; 1, 0.9, 0.90, 0.05, 1.005, 0.000 *)
MCOpening == Plain(1, 0, 2)
MCTexts ==
    {Plain(1, 0, 0), Plain(0, 9, 1), Plain(0, 90, 2), Plain(0, 5, 2), Plain(1, 5, 3),
     Plain(0, 0, 3)}

(* 0.00, 0.5 and 0.899 *)
MCBonuses ==
    {MoneyFromMinorUnits(0, 2), MoneyFromMinorUnits(5, 1), MoneyFromMinorUnits(899, 3)}
=============================================================================
