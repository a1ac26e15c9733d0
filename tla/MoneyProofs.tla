------------------------------ MODULE MoneyProofs ------------------------------
(* Proofs about Money and MoneyAccount for every value of their constants.  *)
EXTENDS MoneyAccount, TLAPS, FiniteSetTheorems

-----------------------------------------------------------------------------
(* Powers of ten *)

(* Induction up to N: what holds of 0, and of n + 1 whenever it holds of n. *)
(* Q is the set of numbers of which it holds.                               *)
LEMMA Upwards ==
    ASSUME NEW N \in Nat, NEW Q, 0 \in Q, \A n \in 0..(N - 1) : n \in Q => n + 1 \in Q
    PROVE  \A n \in 0..N : n \in Q
<1> DEFINE Left == {T \in SUBSET (0..N) : \E n \in 0..N : n \notin Q /\ T = 0..n}
<1>1. IsWellFoundedOn(StrictSubsetOrdering(0..N), SUBSET (0..N))
  <2>1. IsFiniteSet(0..N)
    BY FS_Interval
  <2> QED
    BY <2>1, FS_StrictSubsetOrderingWellFounded, FS_FiniteSubsetsOfFinite
<1>2. SUFFICES ASSUME NEW m \in 0..N, m \notin Q PROVE FALSE
  OBVIOUS
<1>3. Left \subseteq SUBSET (0..N) /\ 0..m \in Left
  BY <1>2
<1>4. PICK T \in Left : \A U \in Left : <<U, T>> \notin StrictSubsetOrdering(0..N)
  <2> HIDE DEF Left
  <2> QED
    BY <1>1, <1>3, WFMin
<1>5. PICK n \in 0..N : n \notin Q /\ T = 0..n
  BY <1>4
<1>6. n # 0 /\ n - 1 \in 0..(N - 1) /\ n - 1 \in 0..N /\ (n - 1) + 1 = n
  BY <1>5
<1>7. n - 1 \notin Q
  BY <1>5, <1>6
<1>8. 0..(n - 1) \in Left
  BY <1>6, <1>7
<1>9. 0..(n - 1) \subseteq 0..n /\ n \in 0..n /\ n \notin 0..(n - 1)
  BY <1>5
<1>10. <<0..(n - 1), T>> \in StrictSubsetOrdering(0..N)
  BY <1>4, <1>5, <1>6, <1>8, <1>9 DEF StrictSubsetOrdering
<1> QED
  BY <1>4, <1>8, <1>10

(* There is such a function, and it gives positive numbers.                 *)
LEMMA PowersAreThere ==
    /\ Pow10 \in [0..MaxScale -> Nat \ {0}] /\ Pow10[0] = 1
    /\ \A n \in 1..MaxScale : Pow10[n] = 10 * Pow10[n - 1]
<1> DEFINE Is(f, N) == /\ f \in [0..N -> Nat \ {0}] /\ f[0] = 1
                       /\ \A n \in 1..N : f[n] = 10 * f[n - 1]
           Q == {N \in Nat : \E f : Is(f, N)}
           Body(f) == f = [n \in 0..MaxScale |-> IF n = 0 THEN 1 ELSE 10 * f[n - 1]]
<1>1. 0 \in Q
  <2>1. Is([n \in 0..0 |-> 1], 0)
    OBVIOUS
  <2> QED
    BY <2>1
<1>2. ASSUME NEW N \in Nat, N \in Q PROVE N + 1 \in Q
  <2>1. PICK f : Is(f, N)
    BY <1>2
  <2> DEFINE k == [n \in 0..(N + 1) |-> IF n = N + 1 THEN 10 * f[N] ELSE f[n]]
  <2>2. f[N] \in Nat \ {0} /\ 10 * f[N] \in Nat \ {0}
    BY <2>1
  <2>3. k \in [0..(N + 1) -> Nat \ {0}] /\ k[0] = 1
    BY <2>1, <2>2
  <2>4. ASSUME NEW n \in 1..(N + 1) PROVE k[n] = 10 * k[n - 1]
    <3>1. CASE n = N + 1
      BY <3>1
    <3>2. CASE n \in 1..N
      BY <2>1, <3>2
    <3> QED
      BY <3>1, <3>2
  <2> HIDE DEF k
  <2>5. Is(k, N + 1)
    BY <2>3, <2>4
  <2> HIDE DEF Is
  <2>6. \E g : Is(g, N + 1)
    BY <2>5
  <2> QED
    BY <2>6
<1>3. PICK f : Is(f, MaxScale)
  <2> HIDE DEF Q
  <2>1. MaxScale \in Q
    BY <1>1, <1>2, ScalesAssumption, Upwards
  <2> QED
    BY <2>1 DEF Q
<1>4. Body(f)
  BY <1>3, ScalesAssumption
<1>5. Body(Pow10)
  <2> HIDE DEF Body
  <2>1. Body(CHOOSE g : Body(g))
    BY <1>4
  <2>2. Pow10 = CHOOSE g : Body(g)
    BY DEF Pow10, Body
  <2> QED
    BY <2>1, <2>2
<1>6. Pow10[0] = 1 /\ \A n \in 1..MaxScale : Pow10[n] = 10 * Pow10[n - 1]
  <2>1. \A n \in 0..MaxScale : Pow10[n] = IF n = 0 THEN 1 ELSE 10 * Pow10[n - 1]
    BY <1>5
  <2> HIDE DEF Body
  <2>2. 0 \in 0..MaxScale /\ \A n \in 1..MaxScale : n \in 0..MaxScale /\ n # 0
    BY ScalesAssumption
  <2> QED
    BY <2>1, <2>2
<1>7. Pow10 = [n \in 0..MaxScale |-> Pow10[n]]
  BY <1>5
<1> DEFINE P == {n \in Nat : n <= MaxScale => Pow10[n] \in Nat \ {0}}
<1>8. ASSUME NEW n \in 0..MaxScale PROVE Pow10[n] \in Nat \ {0}
  <2>1. 0 \in P
    BY <1>6
  <2>2. \A m \in 0..(MaxScale - 1) : m \in P => m + 1 \in P
    <3> TAKE m \in 0..(MaxScale - 1)
    <3> HAVE m \in P
    <3>1. m + 1 \in 1..MaxScale /\ (m + 1) - 1 = m
      BY ScalesAssumption
    <3>2. Pow10[m + 1] = 10 * Pow10[(m + 1) - 1]
      BY <1>6, <3>1
    <3>3. Pow10[m] \in Nat \ {0} /\ m + 1 \in Nat
      BY ScalesAssumption
    <3> HIDE DEF P
    <3>4. Pow10[m + 1] = 10 * Pow10[m]
      BY <3>1, <3>2
    <3>5. Pow10[m + 1] \in Nat \ {0}
      BY <3>3, <3>4
    <3> QED
      BY <3>3, <3>5 DEF P
  <2> HIDE DEF P
  <2>3. n \in P
    BY <2>1, <2>2, ScalesAssumption, Upwards
  <2> QED
    BY <2>3, ScalesAssumption DEF P
<1> QED
  BY <1>6, <1>7, <1>8

(* Adding exponents multiplies powers. *)
LEMMA PowersMultiply ==
    ASSUME NEW m \in 0..MaxScale, NEW n \in 0..MaxScale, m + n <= MaxScale
    PROVE  Pow10[m + n] = Pow10[m] * Pow10[n]
<1> DEFINE Q == {k \in Nat : m + k <= MaxScale => Pow10[m + k] = Pow10[m] * Pow10[k]}
<1>1. Pow10[m] \in Nat
  BY PowersAreThere
<1>2. 0 \in Q
  BY <1>1, PowersAreThere
<1>3. ASSUME NEW k \in 0..(n - 1), k \in Q PROVE k + 1 \in Q
  <2>1. /\ k + 1 \in 1..MaxScale /\ (k + 1) - 1 = k /\ k \in 0..MaxScale
        /\ m + (k + 1) \in 1..MaxScale /\ (m + (k + 1)) - 1 = m + k /\ m + k <= MaxScale
    BY ScalesAssumption
  <2>2. Pow10[k + 1] = 10 * Pow10[k] /\ Pow10[m + (k + 1)] = 10 * Pow10[m + k]
    BY <2>1, PowersAreThere
  <2>3. Pow10[m + k] = Pow10[m] * Pow10[k] /\ Pow10[k] \in Nat
    BY <1>3, <2>1, PowersAreThere
  <2>4. 10 * (Pow10[m] * Pow10[k]) = Pow10[m] * (10 * Pow10[k])
    BY <1>1, <2>3
  <2> QED
    BY <2>1, <2>2, <2>3, <2>4
<1> HIDE DEF Q
<1>4. n \in Q
  BY <1>2, <1>3, Upwards
<1> QED
  BY <1>4 DEF Q

-----------------------------------------------------------------------------
(* Numbers *)

(* Multiplying by a positive number keeps the order. *)
LEMMA Scaling ==
    ASSUME NEW x \in Int, NEW y \in Int, NEW d \in Nat \ {0}
    PROVE  /\ x * d \in Int
           /\ x < y <=> x * d < y * d
           /\ x = y <=> x * d = y * d
OBVIOUS

(* A number is its quotient and its remainder. *)
LEMMA Quotient ==
    ASSUME NEW n \in Nat, NEW d \in Nat \ {0}
    PROVE  /\ n \div d \in Nat /\ n % d \in 0..(d - 1)
           /\ n = (n \div d) * d + (n % d)
OBVIOUS

(* A scale is reached in two steps as in one. *)
LEMMA Powers ==
    ASSUME NEW a \in 0..MaxScale, NEW b \in 0..MaxScale, a <= b
    PROVE  /\ Pow10[a] \in Nat \ {0} /\ Pow10[b - a] \in Nat \ {0}
           /\ b - a \in 0..MaxScale
           /\ Pow10[b] = Pow10[a] * Pow10[b - a]
<1>1. b - a \in 0..MaxScale /\ a + (b - a) = b
  BY ScalesAssumption
<1>2. Pow10[a + (b - a)] = Pow10[a] * Pow10[b - a]
  BY <1>1, PowersMultiply
<1> QED
  BY <1>1, <1>2, PowersAreThere

-----------------------------------------------------------------------------
(* Amounts *)

(* Rescaling to a finer scale cuts nothing. *)
LEMMA RescaleUp ==
    ASSUME NEW m \in Amount, NEW s \in 0..MaxScale, m.scale <= s
    PROVE  /\ Rescale(m, s) \in Int
           /\ Rescale(m, s) * Pow10[MaxScale - s] = Value(m)
           /\ Pow10[MaxScale - s] \in Nat \ {0}
<1> DEFINE p == Pow10[s - m.scale]
           q == Pow10[MaxScale - s]
<1>1. m.units \in Int /\ m.scale \in 0..MaxScale
  BY DEF Amount
<1>2. Rescale(m, s) = m.units * p
  BY <1>1 DEF Rescale
<1>3. /\ MaxScale - s \in 0..MaxScale /\ MaxScale - m.scale \in 0..MaxScale
      /\ MaxScale - s <= MaxScale - m.scale
      /\ (MaxScale - m.scale) - (MaxScale - s) = s - m.scale
  BY <1>1, ScalesAssumption
<1>4. Pow10[MaxScale - m.scale] = q * p /\ q \in Nat \ {0} /\ p \in Nat \ {0}
  BY <1>3, Powers
<1>5. Value(m) = m.units * (q * p)
  BY <1>4 DEF Value
<1> HIDE DEF p, q
<1>6. (m.units * p) * q = m.units * (q * p) /\ m.units * p \in Int
  BY <1>1, <1>4
<1> QED
  BY <1>2, <1>4, <1>5, <1>6 DEF q

(* Aligning two amounts gives both their values at one scale. *)
LEMMA Align ==
    ASSUME NEW a \in Amount, NEW b \in Amount
    PROVE  LET s == CommonScale(a, b)
               x == Rescale(a, s)
               y == Rescale(b, s)
           IN /\ s \in 0..MaxScale /\ x \in Int /\ y \in Int
              /\ Pow10[MaxScale - s] \in Nat \ {0}
              /\ x * Pow10[MaxScale - s] = Value(a) /\ y * Pow10[MaxScale - s] = Value(b)
<1>1. LET s == CommonScale(a, b) IN s \in 0..MaxScale /\ a.scale <= s /\ b.scale <= s
  BY DEF CommonScale, Amount
<1> QED
  BY <1>1, RescaleUp

(* Adding and subtracting are exact, whatever scales meet. *)
LEMMA AddExact ==
    ASSUME NEW a \in Amount, NEW b \in Amount
    PROVE  Add(a, b) \in Amount /\ Value(Add(a, b)) = Value(a) + Value(b)
<1> DEFINE s == CommonScale(a, b)
           x == Rescale(a, s)
           y == Rescale(b, s)
           p == Pow10[MaxScale - s]
<1>1. /\ s \in 0..MaxScale /\ x \in Int /\ y \in Int /\ p \in Nat \ {0}
      /\ x * p = Value(a) /\ y * p = Value(b)
  BY Align
<1>2. Add(a, b) = [units |-> x + y, scale |-> s]
  BY DEF Add
<1>3. Value(Add(a, b)) = (x + y) * p
  BY <1>2 DEF Value
<1> HIDE DEF s, x, y, p
<1>4. (x + y) * p = x * p + y * p
  BY <1>1
<1> QED
  BY <1>1, <1>2, <1>3, <1>4 DEF Amount

(* So is the difference.                                                   *)
LEMMA SubExact ==
    ASSUME NEW a \in Amount, NEW b \in Amount
    PROVE  Sub(a, b) \in Amount /\ Value(Sub(a, b)) = Value(a) - Value(b)
<1> DEFINE s == CommonScale(a, b)
           x == Rescale(a, s)
           y == Rescale(b, s)
           p == Pow10[MaxScale - s]
<1>1. /\ s \in 0..MaxScale /\ x \in Int /\ y \in Int /\ p \in Nat \ {0}
      /\ x * p = Value(a) /\ y * p = Value(b)
  BY Align
<1>2. Sub(a, b) = [units |-> x - y, scale |-> s]
  BY DEF Sub
<1>3. Value(Sub(a, b)) = (x - y) * p
  BY <1>2 DEF Value
<1> HIDE DEF s, x, y, p
<1>4. (x - y) * p = x * p - y * p
  BY <1>1
<1> QED
  BY <1>1, <1>2, <1>3, <1>4 DEF Amount

(* Comparing compares the values. *)
LEMMA CmpExact ==
    ASSUME NEW a \in Amount, NEW b \in Amount
    PROVE  Cmp(a, b) <= 0 <=> Value(a) <= Value(b)
<1> DEFINE s == CommonScale(a, b)
           x == Rescale(a, s)
           y == Rescale(b, s)
           p == Pow10[MaxScale - s]
<1>1. /\ x \in Int /\ y \in Int /\ p \in Nat \ {0}
      /\ x * p = Value(a) /\ y * p = Value(b)
  BY Align
<1>2. Cmp(a, b) <= 0 <=> x <= y
  BY <1>1 DEF Cmp
<1> HIDE DEF s, x, y, p
<1>3. y < x <=> y * p < x * p
  BY <1>1, Scaling
<1>4. x * p \in Int /\ y * p \in Int
  BY <1>1
<1> QED
  BY <1>1, <1>2, <1>3, <1>4

(* The sign of an amount is the sign of its value. *)
LEMMA Signs ==
    ASSUME NEW m \in Amount
    PROVE  /\ Value(m) \in Int
           /\ m.units < 0 <=> Value(m) < 0
<1>1. m.units \in Int /\ MaxScale - m.scale \in 0..MaxScale
  BY ScalesAssumption DEF Amount
<1>2. Pow10[MaxScale - m.scale] \in Nat \ {0}
  BY <1>1, PowersAreThere
<1>3. m.units < 0 <=> m.units * Pow10[MaxScale - m.scale] < 0 * Pow10[MaxScale - m.scale]
  BY <1>1, <1>2, Scaling
<1> QED
  BY <1>1, <1>2, <1>3 DEF Value

(* Clamping leaves what is not negative and makes the rest zero. *)
LEMMA ClampExact ==
    ASSUME NEW m \in Amount
    PROVE  /\ ClampToZero(m) \in Amount /\ ClampToZero(m).units >= 0
           /\ Value(ClampToZero(m)) = IF Value(m) < 0 THEN 0 ELSE Value(m)
<1>1. CASE m.units < 0
  <2>1. ClampToZero(m) = [units |-> 0, scale |-> m.scale]
    BY <1>1 DEF ClampToZero, IsNegative
  <2>2. MaxScale - m.scale \in 0..MaxScale
    BY ScalesAssumption DEF Amount
  <2>3. Pow10[MaxScale - m.scale] \in Nat
    BY <2>2, PowersAreThere
  <2>4. Value(ClampToZero(m)) = 0
    BY <2>1, <2>3 DEF Value
  <2> QED
    BY <1>1, <2>1, <2>4, Signs DEF Amount
<1>2. CASE m.units >= 0
  BY <1>2, Signs DEF ClampToZero, IsNegative, Amount
<1> QED
  BY <1>1, <1>2 DEF Amount

-----------------------------------------------------------------------------
(* Texts *)

Plainly(text) ==
    text \in Text /\ ~text.negative /\ text.fraction < Pow10[text.places]

(* A text is written with the places asked for, and has the value of the   *)
(* units it was written from. *)
LEMMA WrittenExact ==
    ASSUME NEW u \in Nat, NEW s \in 0..MaxScale
    PROVE  /\ Plainly(Written(u, s)) /\ Written(u, s).places = s
           /\ ParseMoney(Written(u, s)) = [units |-> u, scale |-> s]
           /\ ValueOf(Written(u, s)) = u * Pow10[MaxScale - s]
<1> DEFINE p == Pow10[s]
           t == Written(u, s)
<1>1. p \in Nat \ {0}
  BY PowersAreThere
<1>2. t = [negative |-> FALSE, whole |-> u \div p, fraction |-> u % p, places |-> s]
  <2>1. Abs(u) = u /\ (u < 0) = FALSE
    BY DEF Abs
  <2> QED
    BY <2>1 DEF Written
<1> HIDE DEF p
<1>3. u \div p \in Nat /\ u % p \in 0..(p - 1) /\ u = (u \div p) * p + (u % p)
  BY <1>1, Quotient
<1>4. t \in Text /\ t.fraction < p
  BY <1>1, <1>2, <1>3 DEF Text
<1>5. t.whole * Pow10[t.places] + t.fraction = u
  BY <1>2, <1>3 DEF p
<1> QED
  BY <1>2, <1>4, <1>5 DEF Plainly, ParseMoney, ValueOf, p

(* The text of an amount at its own scale reads back as the amount.        *)
LEMMA StringReadsBack ==
    ASSUME NEW m \in Amount, m.units >= 0
    PROVE  /\ Plainly(String(m)) /\ ParseMoney(String(m)) = m
           /\ ValueOf(String(m)) = Value(m)
<1>1. m.units \in Nat /\ m.scale \in 0..MaxScale
      /\ m = [units |-> m.units, scale |-> m.scale]
  BY DEF Amount
<1>2. Rescale(m, m.scale) = m.units
  BY <1>1, PowersAreThere DEF Rescale
<1>3. String(m) = Written(m.units, m.scale)
  BY <1>2 DEF String, Format
<1> QED
  BY <1>1, <1>3, WrittenExact DEF Value

(* A text is parsed to an amount of its value. *)
LEMMA ParseExact ==
    ASSUME NEW t, Plainly(t)
    PROVE  /\ ParseMoney(t) \in Amount /\ ParseMoney(t).units \in Nat
           /\ Value(ParseMoney(t)) = ValueOf(t) /\ ValueOf(t) \in Nat
<1>1. /\ t.whole \in Nat /\ t.fraction \in Nat /\ t.places \in 0..MaxScale
  BY DEF Plainly, Text
<1>2. Pow10[t.places] \in Nat
  BY <1>1, PowersAreThere
<1>3. t.whole * Pow10[t.places] + t.fraction \in Nat
  BY <1>1, <1>2
<1>4. ParseMoney(t) \in Amount /\ ParseMoney(t).units \in Nat
  BY <1>1, <1>3 DEF ParseMoney, Amount
<1>5. MaxScale - t.places \in 0..MaxScale
  BY <1>1, ScalesAssumption
<1>6. Pow10[MaxScale - t.places] \in Nat
  BY <1>5, PowersAreThere
<1>7. ValueOf(t) \in Nat
  BY <1>3, <1>6 DEF ValueOf
<1>8. Value(ParseMoney(t)) = ValueOf(t)
  BY DEF Value, ValueOf, ParseMoney
<1> QED
  BY <1>4, <1>7, <1>8

(* A bonus amount is cut to the places the contract allows: less than one  *)
(* last place is lost and nothing is added. *)
LEMMA BonusCut ==
    ASSUME NEW m \in Amount, m.units >= 0
    PROVE  LET told == ValueOf(FormatBonus(m))
               last == Pow10[MaxScale - FormatBonus(m).places]
           IN /\ FormatBonus(m).places <= BonusScale
              /\ told \in Nat /\ told <= Value(m) /\ Value(m) < told + last
<1>1. m.units \in Nat /\ m.scale \in 0..MaxScale /\ BonusScale \in 0..MaxScale
  BY ScalesAssumption DEF Amount
<1>2. CASE m.scale <= BonusScale
  <2>1. FormatBonus(m) = String(m)
    BY <1>1, <1>2 DEF FormatBonus, String
  <2>2. ValueOf(String(m)) = Value(m) /\ Plainly(String(m))
    BY StringReadsBack
  <2>3. ValueOf(String(m)) \in Nat
    BY <2>2, ParseExact
  <2>4. String(m).places = m.scale
    BY DEF String, Format, Written
  <2>5. Pow10[MaxScale - m.scale] \in Nat \ {0}
    <3>1. MaxScale - m.scale \in 0..MaxScale
      BY <1>1, ScalesAssumption
    <3> QED
      BY <3>1, PowersAreThere
  <2> QED
    BY <1>1, <1>2, <2>1, <2>2, <2>3, <2>4, <2>5
<1>3. CASE m.scale > BonusScale
  <2> DEFINE u == m.units
             d == Pow10[m.scale - BonusScale]
             p == Pow10[MaxScale - m.scale]
             l == Pow10[MaxScale - BonusScale]
             q == u \div d
  <2>1. /\ m.scale - BonusScale \in 0..MaxScale /\ MaxScale - m.scale \in 0..MaxScale
        /\ MaxScale - BonusScale \in 0..MaxScale /\ MaxScale - m.scale <= MaxScale - BonusScale
        /\ (MaxScale - BonusScale) - (MaxScale - m.scale) = m.scale - BonusScale
    BY <1>1, <1>3, ScalesAssumption
  <2>2. d \in Nat \ {0} /\ p \in Nat \ {0} /\ l = p * d
    BY <2>1, Powers
  <2>3. Rescale(m, BonusScale) = q
    BY <1>1, <1>3 DEF Rescale, Quo
  <2>4. FormatBonus(m) = Written(q, BonusScale)
    BY <1>3, <2>3 DEF FormatBonus, Format
  <2> HIDE DEF d, p, l
  <2>5. q \in Nat /\ u % d \in 0..(d - 1) /\ u = q * d + (u % d)
    BY <1>1, <2>2, Quotient
  <2>6. /\ FormatBonus(m).places = BonusScale
        /\ ValueOf(FormatBonus(m)) = q * l
    BY <1>1, <2>4, <2>5, WrittenExact DEF l
  <2>7. Value(m) = u * p
    BY DEF Value, p
  <2> HIDE DEF q, u
  <2>8. q * d <= u /\ u < (q + 1) * d /\ u \in Nat
    BY <1>1, <2>2, <2>5 DEF u
  <2>9. (q * d) * p <= u * p /\ u * p < ((q + 1) * d) * p
    BY <2>2, <2>5, <2>8
  <2>10. (q * d) * p = q * l /\ ((q + 1) * d) * p = q * l + l /\ q * l \in Nat
    BY <2>2, <2>5
  <2> QED
    BY <1>1, <2>6, <2>7, <2>9, <2>10 DEF l
<1> QED
  BY <1>1, <1>2, <1>3

-----------------------------------------------------------------------------
(* The account *)

(* Beside the properties: what came can be parsed, and a row is there when *)
(* its text came. *)
CameReadable ==
    \A i \in Ids :
       /\ rows[i] # None => Plainly(came[i])
       /\ rows[i] # None => Plainly(rows[i].amount)

Answered ==
    answer # None =>
       /\ answer.taken \in BOOLEAN
       /\ answer.taken => /\ ValueOf(answer.text) \in Nat
                          /\ answer.bonusText = FormatBonus(answer.bonus)
                          /\ answer.bonus \in Bonuses
                          /\ Value(answer.bonus) <= ValueOf(answer.text)

Inv == TypeOK /\ Exact /\ RowsReadBack /\ CameReadable /\ Answered

(* The texts of requests can be parsed. *)
LEMMA TextsPlain ==
    /\ Plainly(Opening)
    /\ \A t \in Texts : Plainly(t)
BY AccountAssumption DEF Plainly, Readable

(* What storing a row does: amount and balance are written, and read back  *)
(* as what they were. *)
LEMMA StoreFacts ==
    ASSUME Inv, NEW i \in Ids, NEW type \in {"bet", "win", "freespins"}, NEW t \in Texts,
           NEW after \in Amount, after.units >= 0, Store(i, type, t, after)
    PROVE  /\ balance' = after
           /\ rows' \in [Ids -> Row \cup {None}] /\ came' \in [Ids -> Text \cup {None}]
           /\ \A j \in Ids : rows'[j] # None =>
                 /\ Plainly(rows'[j].amount) /\ Plainly(rows'[j].balanceAfter)
                 /\ Plainly(came'[j])
                 /\ ValueOf(rows'[j].amount) = ValueOf(came'[j])
           /\ undone' = undone
<1> DEFINE m == ParseMoney(t)
           row == [type |-> type, amount |-> String(m), balanceAfter |-> String(after)]
<1>1. Plainly(t) /\ t \in Text
  BY TextsPlain DEF Plainly
<1>2. m \in Amount /\ m.units >= 0 /\ Value(m) = ValueOf(t)
  BY <1>1, ParseExact
<1>3. /\ Plainly(String(m)) /\ ValueOf(String(m)) = ValueOf(t)
      /\ Plainly(String(after))
  BY <1>2, StringReadsBack
<1>4. row \in Row
  BY <1>3 DEF Row, Plainly
<1>5. /\ balance' = after /\ undone' = undone
      /\ rows' = [rows EXCEPT ![i] = row] /\ came' = [came EXCEPT ![i] = t]
  BY DEF Store
<1> HIDE DEF m
<1>6. /\ rows \in [Ids -> Row \cup {None}] /\ came \in [Ids -> Text \cup {None}]
      /\ \A j \in Ids : rows[j] # None =>
            /\ Plainly(rows[j].amount) /\ Plainly(rows[j].balanceAfter) /\ Plainly(came[j])
            /\ ValueOf(rows[j].amount) = ValueOf(came[j])
  BY DEF Inv, TypeOK, RowsReadBack, CameReadable, Plainly, Row
<1>7. rows' \in [Ids -> Row \cup {None}] /\ came' \in [Ids -> Text \cup {None}]
  BY <1>1, <1>4, <1>5, <1>6
<1>8. ASSUME NEW j \in Ids, rows'[j] # None
      PROVE  /\ Plainly(rows'[j].amount) /\ Plainly(rows'[j].balanceAfter)
             /\ Plainly(came'[j])
             /\ ValueOf(rows'[j].amount) = ValueOf(came'[j])
  <2>1. CASE j = i
    <3>1. rows'[j] = row /\ came'[j] = t
      BY <1>5, <1>6, <2>1
    <3> QED
      BY <1>1, <1>3, <3>1
  <2>2. CASE j # i
    BY <1>5, <1>6, <1>8, <2>2
  <2> QED
    BY <2>1, <2>2
<1> QED
  BY <1>5, <1>7, <1>8

(* The conjuncts of the invariant, from the facts of a step. *)
LEMMA RowsKept ==
    ASSUME balance' \in Amount, balance'.units >= 0, undone' \subseteq Ids, due' \in Nat,
           rows' \in [Ids -> Row \cup {None}], came' \in [Ids -> Text \cup {None}],
           \A j \in Ids : rows'[j] # None =>
              /\ Plainly(rows'[j].amount) /\ Plainly(rows'[j].balanceAfter)
              /\ Plainly(came'[j])
              /\ ValueOf(rows'[j].amount) = ValueOf(came'[j])
    PROVE  TypeOK' /\ RowsReadBack' /\ CameReadable'
BY DEF TypeOK, RowsReadBack, CameReadable, Plainly

(* The invariant holds at the start. *)
LEMMA InvInit == Init => Inv
<1> SUFFICES ASSUME Init PROVE Inv
  OBVIOUS
<1>1. /\ ParseMoney(Opening) \in Amount /\ ParseMoney(Opening).units \in Nat
      /\ Value(ParseMoney(Opening)) = ValueOf(Opening) /\ ValueOf(Opening) \in Nat
  BY TextsPlain, ParseExact
<1> QED
  BY <1>1 DEF Init, Inv, TypeOK, Exact, RowsReadBack, CameReadable, Answered

(* Every step keeps the invariant: its arithmetic is that of the values.   *)
LEMMA InvStep == Inv /\ [Next]_vars => Inv'
<1> SUFFICES ASSUME Inv, [Next]_vars PROVE Inv'
  OBVIOUS
<1>0. /\ balance \in Amount /\ balance.units >= 0 /\ due \in Nat /\ Value(balance) = due
      /\ undone \subseteq Ids
      /\ rows \in [Ids -> Row \cup {None}] /\ came \in [Ids -> Text \cup {None}]
      /\ \A j \in Ids : rows[j] # None =>
            /\ Plainly(rows[j].amount) /\ Plainly(rows[j].balanceAfter) /\ Plainly(came[j])
            /\ ValueOf(rows[j].amount) = ValueOf(came[j])
  BY DEF Inv, TypeOK, Exact, RowsReadBack, CameReadable, Plainly, Row
<1>1. ASSUME NEW t \in Texts
      PROVE  /\ ParseMoney(t) \in Amount /\ ValueOf(t) \in Nat
             /\ Value(ParseMoney(t)) = ValueOf(t) /\ ParseMoney(t).units \in Nat
  BY TextsPlain, ParseExact
<1>2. ASSUME NEW i \in Ids, NEW t \in Texts, NEW bonus \in Bonuses, Bet(i, t, bonus)
      PROVE  Inv'
  <2> DEFINE after == Sub(balance, ParseMoney(t))
  <2>1. after \in Amount /\ Value(after) = due - ValueOf(t)
    BY <1>0, <1>1, SubExact
  <2>2. /\ Cmp(bonus, ParseMoney(t)) <= 0 /\ ~IsNegative(after) /\ Store(i, "bet", t, after)
        /\ due' = due - ValueOf(t) /\ answer' = Taken(t, bonus)
    BY <1>2 DEF Bet
  <2> HIDE DEF after
  <2>3. after.units >= 0 /\ due' \in Nat
    BY <1>0, <1>1, <2>1, <2>2, Signs DEF IsNegative, Amount
  <2>4. TypeOK' /\ RowsReadBack' /\ CameReadable'
    BY <1>0, <2>1, <2>2, <2>3, StoreFacts, RowsKept
  <2>5. balance' = after
    BY <2>1, <2>2, <2>3, StoreFacts
  <2>6. ValueOf(String(balance')) = due'
    BY <2>1, <2>2, <2>3, <2>5, StringReadsBack
  <2>7. bonus \in Amount
    BY AccountAssumption DEF Amount
  <2>8. Value(bonus) <= ValueOf(t)
    BY <1>1, <2>2, <2>7, CmpExact
  <2>9. Exact' /\ Answered'
    BY <1>1, <2>1, <2>2, <2>5, <2>6, <2>8 DEF Exact, Answered, Taken
  <2> QED
    BY <2>4, <2>9 DEF Inv
<1>3. ASSUME NEW t \in Texts, BetInsufficient(t) PROVE Inv'
  <2>1. /\ IsNegative(Sub(balance, ParseMoney(t))) /\ answer' = Refused(t)
        /\ UNCHANGED <<balance, rows, came, undone, due>>
    BY <1>3 DEF BetInsufficient
  <2>2. due < ValueOf(t)
    <3>1. Value(Sub(balance, ParseMoney(t))) = due - ValueOf(t)
          /\ Sub(balance, ParseMoney(t)) \in Amount
      BY <1>0, <1>1, SubExact
    <3> QED
      BY <1>0, <1>1, <2>1, <3>1, Signs DEF IsNegative
  <2>3. ValueOf(String(balance)) = due
    BY <1>0, StringReadsBack
  <2>4. Exact' /\ Answered'
    BY <1>0, <2>1, <2>2, <2>3 DEF Exact, Answered, Refused
  <2> QED
    BY <1>0, <2>1, <2>4, RowsKept DEF Inv
<1>4. ASSUME NEW i \in Ids, NEW t \in Texts, NEW type \in {"win", "freespins"},
             Store(i, type, t, Add(balance, ParseMoney(t))),
             due' = due + ValueOf(t), answer' = None
      PROVE  Inv'
  <2> DEFINE after == Add(balance, ParseMoney(t))
  <2>1. after \in Amount /\ Value(after) = due + ValueOf(t)
    BY <1>0, <1>1, AddExact
  <2>2. Store(i, type, t, after)
    BY <1>4
  <2> HIDE DEF after
  <2>3. after.units >= 0 /\ due' \in Nat
    BY <1>0, <1>1, <1>4, <2>1, Signs DEF Amount
  <2>4. TypeOK' /\ RowsReadBack' /\ CameReadable'
    BY <1>0, <1>4, <2>1, <2>2, <2>3, StoreFacts, RowsKept
  <2>5. balance' = after
    BY <2>1, <2>2, <2>3, StoreFacts
  <2> QED
    BY <1>4, <2>1, <2>4, <2>5 DEF Inv, Exact, Answered
<1>5. ASSUME NEW i \in Ids, Undo(i) PROVE Inv'
  <2> DEFINE amount == ParseMoney(rows[i].amount)
             was == ValueOf(came[i])
  <2>1. /\ rows[i] # None /\ answer' = None /\ undone' = undone \cup {i}
        /\ UNCHANGED <<rows, came>>
    BY <1>5 DEF Undo
  <2>2. /\ Plainly(rows[i].amount) /\ Plainly(came[i])
        /\ ValueOf(rows[i].amount) = was
    BY <1>0, <2>1
  <2>3. amount \in Amount /\ Value(amount) = was /\ was \in Nat
    BY <2>2, ParseExact
  <2>4. balance' \in Amount /\ balance'.units >= 0 /\ due' \in Nat /\ Value(balance') = due'
    <3>1. CASE balance' = Add(balance, amount) /\ due' = due + was
      <4>1. Add(balance, amount) \in Amount /\ Value(Add(balance, amount)) = due + was
        BY <1>0, <2>3, AddExact
      <4> QED
        BY <1>0, <2>3, <3>1, <4>1, Signs DEF Amount
    <3>2. CASE /\ balance' = ClampToZero(Sub(balance, amount))
               /\ due' = IF due < was THEN 0 ELSE due - was
      <4>1. Sub(balance, amount) \in Amount /\ Value(Sub(balance, amount)) = due - was
        BY <1>0, <2>3, SubExact
      <4> QED
        BY <1>0, <2>3, <3>2, <4>1, ClampExact
    <3> QED
      BY <1>5, <3>1, <3>2 DEF Undo
  <2>5. TypeOK' /\ RowsReadBack' /\ CameReadable'
    BY <1>0, <2>1, <2>4, RowsKept
  <2> QED
    BY <2>1, <2>4, <2>5 DEF Inv, Exact, Answered
<1>6. CASE Restart
  <2>1. /\ balance' = ParseMoney(String(balance)) /\ answer' = None
        /\ UNCHANGED <<rows, came, undone, due>>
    BY <1>6 DEF Restart
  <2>2. balance' = balance
    BY <1>0, <2>1, StringReadsBack
  <2>3. TypeOK' /\ RowsReadBack' /\ CameReadable'
    BY <1>0, <2>1, <2>2, RowsKept
  <2> QED
    BY <1>0, <2>1, <2>2, <2>3 DEF Inv, Exact, Answered
<1>7. CASE UNCHANGED vars
  BY <1>7 DEF vars, Inv, TypeOK, Exact, RowsReadBack, CameReadable, Answered
<1>8. ASSUME NEW i \in Ids, NEW t \in Texts, Win(i, t) \/ Credit(i, t) PROVE Inv'
  BY <1>4, <1>8 DEF Win, Credit
<1> QED
  BY <1>2, <1>3, <1>5, <1>6, <1>7, <1>8 DEF Next

(* The invariant holds in every state.                                     *)
THEOREM MoneyInvariant == Spec => []Inv
BY InvInit, InvStep, PTL DEF Spec

(* Amounts keep their type, and every stored text can be read.             *)
THEOREM MoneyTypes == Spec => []TypeOK
<1>1. Inv => TypeOK
  BY DEF Inv
<1> QED
  BY <1>1, MoneyInvariant, PTL

(* No digit is ever lost, whatever scales meet and however often the       *)
(* balance is stored and read. *)
THEOREM NothingLost == Spec => []Exact
<1>1. Inv => Exact
  BY DEF Inv
<1> QED
  BY <1>1, MoneyInvariant, PTL

(* A row reads back as what came. *)
THEOREM RowsAreWhatCame == Spec => []RowsReadBack
<1>1. Inv => RowsReadBack
  BY DEF Inv
<1> QED
  BY <1>1, MoneyInvariant, PTL

(* A bonus amount is cut and never rounded up. *)
THEOREM BonusNeverInflated == Spec => []BonusRoundsDown
<1>1. Inv => BonusRoundsDown
  <2> SUFFICES ASSUME Inv, answer # None, answer.taken
               PROVE  LET told == ValueOf(answer.bonusText)
                          last == Pow10[MaxScale - answer.bonusText.places]
                      IN /\ answer.bonusText.places <= BonusScale
                         /\ told <= Value(answer.bonus) /\ Value(answer.bonus) < told + last
                         /\ told <= ValueOf(answer.text)
    BY DEF BonusRoundsDown
  <2> DEFINE bonus == answer.bonus
  <2>1. /\ answer.bonusText = FormatBonus(bonus) /\ bonus \in Bonuses
        /\ Value(bonus) <= ValueOf(answer.text)
    BY DEF Inv, Answered
  <2>2. bonus \in Amount /\ bonus.units >= 0
    BY <2>1, AccountAssumption DEF Amount
  <2>3. /\ FormatBonus(bonus).places <= BonusScale /\ ValueOf(FormatBonus(bonus)) \in Nat
        /\ ValueOf(FormatBonus(bonus)) <= Value(bonus)
        /\ Value(bonus) < ValueOf(FormatBonus(bonus))
                          + Pow10[MaxScale - FormatBonus(bonus).places]
    BY <2>2, BonusCut
  <2>4. Value(bonus) \in Int
    BY <2>2, Signs
  <2>5. ValueOf(answer.text) \in Int
    BY DEF Inv, Answered
  <2> QED
    BY <2>1, <2>3, <2>4, <2>5
<1> QED
  BY <1>1, MoneyInvariant, PTL
=============================================================================
