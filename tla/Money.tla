--------------------------------- MODULE Money ---------------------------------
(***************************************************************************)
(* The amounts of money.go.  An amount is a whole number of units and a    *)
(* scale, the number of fractional digits the units count.  Its text is    *)
(* the number before the point, the number after it, and how many places   *)
(* that one is written with; digits are not modelled one by one.           *)
(*                                                                         *)
(* Beside some definitions stands the same one with a plausible mistake    *)
(* (QuoUp, WrittenUnpadded, CommonScaleFirst, ClampToZeroNot), to which    *)
(* nothing refers.                                                         *)
(***************************************************************************)
EXTENDS Integers

CONSTANTS
    MaxScale,       \* the most fractional digits (16)
    BonusScale,     \* the most of them in a bonus_amount (12)
    MaxLength       \* the longest text that is read (MaxClientDecimalLen, 40)

(* Ten to the power n. *)
Pow10[n \in 0..MaxScale] == IF n = 0 THEN 1 ELSE 10 * Pow10[n - 1]

(* Texts have room for an amount of every scale. *)
ASSUME ScalesAssumption ==
    /\ MaxScale \in Nat /\ BonusScale \in 0..MaxScale
    /\ MaxLength \in Nat /\ MaxLength > MaxScale + 1

Amount == [units : Int, scale : 0..MaxScale]

Text == [negative : BOOLEAN, whole : Nat, fraction : Nat, places : 0..MaxScale]

(* The exact value of an amount, and of a text, in the smallest unit.      *)
Value(m) == m.units * Pow10[MaxScale - m.scale]

ValueOf(text) ==
    (text.whole * Pow10[text.places] + text.fraction) * Pow10[MaxScale - text.places]

-----------------------------------------------------------------------------
(* From text and back *)

(* The digits before the point, when `places' and the point take theirs.   *)
Room(places) == IF places = 0 THEN MaxLength ELSE MaxLength - places - 1

(* The shape the contract accepts, in no more than MaxLength characters.   *)
Readable(text) == ~text.negative /\ text.whole < 10 ^ Room(text.places)

(* Of a readable text. *)
ParseMoney(text) ==
    [units |-> text.whole * Pow10[text.places] + text.fraction, scale |-> text.places]

MoneyFromMinorUnits(units, scale) == [units |-> units, scale |-> scale]

Abs(n) == IF n < 0 THEN -n ELSE n

QuoUp(n, d) == IF n < 0 THEN -((Abs(n) + d - 1) \div d) ELSE (n + d - 1) \div d

(* big.Int.Quo truncates toward zero. *)
Quo(n, d) == IF n < 0 THEN -(Abs(n) \div d) ELSE n \div d

Rescale(m, target) ==
    IF target >= m.scale THEN m.units * Pow10[target - m.scale]
                         ELSE Quo(m.units, Pow10[m.scale - target])

(* Without the zeros between the point and the first digit: 0.05 is 0.5.   *)
WrittenUnpadded(units, scale) ==
    LET fraction == Abs(units) % Pow10[scale]
    IN [negative |-> units < 0, whole |-> Abs(units) \div Pow10[scale],
        fraction |-> fraction,
        places |-> CHOOSE n \in 0..scale :
                      fraction < Pow10[n] /\ \A k \in 0..(n - 1) : fraction >= Pow10[k]]

(* The last `scale' digits go behind the point, zeros in front if there    *)
(* are not as many. *)
Written(units, scale) ==
    [negative |-> units < 0, whole |-> Abs(units) \div Pow10[scale],
     fraction |-> Abs(units) % Pow10[scale], places |-> scale]

Format(m, scale) == Written(Rescale(m, scale), scale)

String(m) == Format(m, m.scale)

FormatBonus(m) == Format(m, IF m.scale > BonusScale THEN BonusScale ELSE m.scale)

-----------------------------------------------------------------------------
(* Arithmetic *)

CommonScaleFirst(a, b) == a.scale

(* The finer of the two scales: nothing is cut by aligning. *)
CommonScale(a, b) == IF b.scale > a.scale THEN b.scale ELSE a.scale

Add(a, b) ==
    LET s == CommonScale(a, b)
    IN [units |-> Rescale(a, s) + Rescale(b, s), scale |-> s]

Sub(a, b) ==
    LET s == CommonScale(a, b)
    IN [units |-> Rescale(a, s) - Rescale(b, s), scale |-> s]

Cmp(a, b) ==
    LET x == Rescale(a, CommonScale(a, b))
        y == Rescale(b, CommonScale(a, b))
    IN IF x < y THEN -1 ELSE IF x = y THEN 0 ELSE 1

IsNegative(m) == m.units < 0

IsPositive(m) == m.units > 0

ClampToZeroNot(m) == m

ClampToZero(m) == IF IsNegative(m) THEN [units |-> 0, scale |-> m.scale] ELSE m
=============================================================================
