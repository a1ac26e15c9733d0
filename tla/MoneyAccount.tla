----------------------------- MODULE MoneyAccount -----------------------------
(***************************************************************************)
(* One account of the wallet seen as amounts: texts of different scales    *)
(* come in with bets, wins and freespins, texts of rows and balances are   *)
(* stored and read again by rollbacks and restarts, texts go out.  Beside  *)
(* the account stands what it would hold if all arithmetic were exact, in  *)
(* the smallest unit there is.                                             *)
(***************************************************************************)
EXTENDS Money

CONSTANTS
    Ids,            \* transactions and freespins issues
    Opening,        \* the text of the opening balance
    Texts,          \* the amounts in requests
    Bonuses,        \* what a handler may name as the bonus part of a bet
    None

VARIABLES
    balance,        \* account.balance
    rows,           \* the stored texts of each transaction or issue
    came,           \* the text each of them came with
    undone,         \* those rolled back
    due,            \* the exact balance
    answer          \* the last answer to a bet

vars == <<balance, rows, came, undone, due, answer>>

Row == [type : {"bet", "win", "freespins"}, amount : Text, balanceAfter : Text]

ASSUME AccountAssumption ==
    /\ Opening \in Text /\ Readable(Opening) /\ Opening.fraction < Pow10[Opening.places]
    /\ \A t \in Texts : t \in Text /\ Readable(t) /\ t.fraction < Pow10[t.places]
    /\ Bonuses \subseteq [units : Nat, scale : 0..MaxScale]
    /\ None \notin Row

Store(i, type, text, after) ==
    /\ rows[i] = None
    /\ balance' = after
    /\ rows' = [rows EXCEPT ![i] =
                  [type |-> type, amount |-> String(ParseMoney(text)),
                   balanceAfter |-> String(after)]]
    /\ came' = [came EXCEPT ![i] = text]
    /\ UNCHANGED undone

(* What a bet is answered: the balance, and the bonus part of what was     *)
(* taken. *)
Taken(text, bonus) ==
    [taken |-> TRUE, text |-> text, bonus |-> bonus, bonusText |-> FormatBonus(bonus),
     balance |-> String(balance')]

Refused(text) ==
    [taken |-> FALSE, text |-> text, balance |-> String(balance)]

Bet(i, text, bonus) ==
    LET amount == ParseMoney(text)
        after == Sub(balance, amount)
    IN /\ IsPositive(amount) /\ Cmp(bonus, amount) <= 0
       /\ ~IsNegative(after)
       /\ Store(i, "bet", text, after)
       /\ due' = due - ValueOf(text)
       /\ answer' = Taken(text, bonus)

BetInsufficient(text) ==
    /\ IsPositive(ParseMoney(text))
    /\ IsNegative(Sub(balance, ParseMoney(text)))
    /\ answer' = Refused(text)
    /\ UNCHANGED <<balance, rows, came, undone, due>>

Win(i, text) ==
    /\ IsPositive(ParseMoney(text))
    /\ Store(i, "win", text, Add(balance, ParseMoney(text)))
    /\ due' = due + ValueOf(text)
    /\ answer' = None

(* Freespins may have won nothing. *)
Credit(i, text) ==
    /\ Store(i, "freespins", text, Add(balance, ParseMoney(text)))
    /\ due' = due + ValueOf(text)
    /\ answer' = None

(* A rollback of i: the amount is read from the row. *)
Undo(i) ==
    LET amount == ParseMoney(rows[i].amount) IN
    /\ rows[i] # None /\ i \notin undone
    /\ \/ /\ rows[i].type = "bet"
          /\ balance' = Add(balance, amount)
          /\ due' = due + ValueOf(came[i])
       \/ /\ rows[i].type = "win"
          /\ balance' = ClampToZero(Sub(balance, amount))
          /\ due' = IF due < ValueOf(came[i]) THEN 0 ELSE due - ValueOf(came[i])
    /\ undone' = undone \cup {i}
    /\ answer' = None
    /\ UNCHANGED <<rows, came>>

(* New(w.Snapshot()), which panics if the balance cannot be read. *)
Restart ==
    /\ Readable(String(balance))
    /\ balance' = ParseMoney(String(balance))
    /\ answer' = None
    /\ UNCHANGED <<rows, came, undone, due>>

Init ==
    /\ balance = ParseMoney(Opening)
    /\ rows = [i \in Ids |-> None]
    /\ came = [i \in Ids |-> None]
    /\ undone = {}
    /\ due = ValueOf(Opening)
    /\ answer = None

Next ==
    \/ \E i \in Ids, text \in Texts :
          \/ \E bonus \in Bonuses : Bet(i, text, bonus)
          \/ Win(i, text) \/ Credit(i, text)
    \/ \E text \in Texts : BetInsufficient(text)
    \/ \E i \in Ids : Undo(i)
    \/ Restart

Spec == Init /\ [][Next]_vars

-----------------------------------------------------------------------------
(* Properties *)

(* Amounts keep their type: no balance is negative, no scale is beyond     *)
(* MaxScale, and every stored text has the shape that can be read.         *)
TypeOK ==
    /\ balance \in Amount /\ balance.units >= 0
    /\ rows \in [Ids -> Row \cup {None}]
    /\ \A i \in Ids : rows[i] # None =>
          \A text \in {rows[i].amount, rows[i].balanceAfter} :
             ~text.negative /\ text.fraction < Pow10[text.places]
    /\ came \in [Ids -> Text \cup {None}]
    /\ undone \subseteq Ids /\ due \in Nat

(* Whatever scales meet, the account holds to the last digit what exact    *)
(* arithmetic leaves: adding, subtracting, clamping, storing a balance and *)
(* reading it again never round, and a bet is refused only if the exact    *)
(* balance is short of it. *)
Exact ==
    /\ Value(balance) = due
    /\ answer # None => /\ ValueOf(answer.balance) = due
                        /\ ~answer.taken => due < ValueOf(answer.text)

(* A row says what came: an amount is stored, and read again by its        *)
(* rollback, with the value it had on the wire. *)
RowsReadBack ==
    \A i \in Ids : rows[i] # None => ValueOf(rows[i].amount) = ValueOf(came[i])

(* A bonus amount is cut and never rounded up: what goes out has no more   *)
(* places than the contract allows, is no more than the bonus, and so no   *)
(* more than the bet, and is less than one last place short. *)
BonusRoundsDown ==
    answer # None /\ answer.taken =>
       LET told == ValueOf(answer.bonusText)
           last == Pow10[MaxScale - answer.bonusText.places]
       IN /\ answer.bonusText.places <= BonusScale
          /\ told <= Value(answer.bonus) /\ Value(answer.bonus) < told + last
          /\ told <= ValueOf(answer.text)
=============================================================================
