---------------------------- MODULE WalletContract ----------------------------
(***************************************************************************)
(* What a wallet promises the platform about transactions, apart from the  *)
(* money: a batch takes effect whole or not at all and once, a rollback    *)
(* undoes its original or bars it for good, and what was answered with 200 *)
(* or 409 stays true.  This is the rule the comments of BetWin and         *)
(* Rollback (examples/inmemory/wallet.go) state for every wallet, whatever *)
(* it is built on.  InMemoryWallet is shown to implement it, and           *)
(* SeamlessWallet puts it behind an unreliable network.                    *)
(*                                                                         *)
(* ApplyUnbarred, UndoneFateForgetful and RefuseWhileAnyBarred are         *)
(* plausible mistakes, put in the place of the definitions below them to   *)
(* see that the properties tell the two apart; nothing refers to them.     *)
(***************************************************************************)
EXTENDS Naturals, Sequences

CONSTANTS
    IdProviders,        \* the platform's transaction ids
    BetWinRequests,     \* records with a sequence of transactions, each with an id
    RollbackRequests    \* each of whose transactions has an id and an original

BetOrWin == [id : IdProviders, type : {"bet", "win"}, amount : Nat]
Reversal == [id : IdProviders, original : IdProviders]

ASSUME ContractAssumption ==
    /\ \A r \in BetWinRequests : r.transactions \in Seq(BetOrWin)
    /\ \A r \in RollbackRequests : r.transactions \in Seq(Reversal)
    /\ BetWinRequests \cap RollbackRequests = {}

VARIABLES
    fate,       \* what became of each id_provider
    undone,     \* the rollback transactions performed, by id_provider
    told        \* the final answers given: pairs of a request and 200 or 409

contract == <<fate, undone, told>>

(* A transaction nobody heard of, one that took effect, one that took      *)
(* effect and was reversed, and one that was rolled back before it came.   *)
Fates == {"unseen", "applied", "reversed", "barred"}

IdsOf(r) == {r.transactions[k].id : k \in DOMAIN r.transactions}
TxsOf(r) == {r.transactions[k] : k \in DOMAIN r.transactions}

ContractInit ==
    /\ fate = [i \in IdProviders |-> "unseen"]
    /\ undone = {}
    /\ told = {}

ApplyUnbarred(r) ==
    /\ fate' = [i \in IdProviders |->
                  IF i \in IdsOf(r) /\ fate[i] = "unseen" THEN "applied" ELSE fate[i]]
    /\ undone' = undone

(* The whole batch takes effect, unless a part of it is barred; what took  *)
(* effect before is left as it is.                                         *)
Apply(r) ==
    /\ \A i \in IdsOf(r) : fate[i] # "barred"
    /\ fate' = [i \in IdProviders |->
                  IF i \in IdsOf(r) /\ fate[i] = "unseen" THEN "applied" ELSE fate[i]]
    /\ undone' = undone

Accept(r) == Apply(r) /\ told' = told \cup {<<r, "200">>}

(* A batch took effect and its answer was lost. *)
ApplyUnanswered(r) == Apply(r) /\ told' = told

RefuseWhileAnyBarred(r) ==
    /\ \E i \in IdProviders : fate[i] = "barred"
    /\ told' = told \cup {<<r, "409">>}
    /\ UNCHANGED <<fate, undone>>

RefuseBarred(r) ==
    /\ \E i \in IdsOf(r) : fate[i] = "barred"
    /\ told' = told \cup {<<r, "409">>}
    /\ UNCHANGED <<fate, undone>>

UndoneFateForgetful(before) == IF before = "applied" THEN "reversed" ELSE before

UndoneFate(before) ==
    CASE before = "unseen" -> "barred"
      [] before = "applied" -> "reversed"
      [] OTHER -> before

(* One transaction of a rollback; a rollback may stop half way. *)
Undo(t) ==
    /\ t.id \notin undone
    /\ fate' = [fate EXCEPT ![t.original] = UndoneFate(fate[t.original])]
    /\ undone' = undone \cup {t.id}
    /\ told' = told

AcceptRollback(r) ==
    /\ IdsOf(r) \subseteq undone
    /\ told' = told \cup {<<r, "200">>}
    /\ UNCHANGED <<fate, undone>>

ContractNext ==
    \/ \E r \in BetWinRequests : Accept(r) \/ ApplyUnanswered(r) \/ RefuseBarred(r)
    \/ \E r \in RollbackRequests : AcceptRollback(r) \/ \E t \in TxsOf(r) : Undo(t)

ContractSpec == ContractInit /\ [][ContractNext]_contract

-----------------------------------------------------------------------------
ContractTypeOK ==
    /\ fate \in [IdProviders -> Fates]
    /\ undone \subseteq IdProviders
    /\ told \subseteq (BetWinRequests \cup RollbackRequests) \X {"200", "409"}

(* A 200 means the batch took effect, a 409 that a part of it never will.  *)
(* It stays so whatever comes later, so the two exclude each other.        *)
ToldTrue ==
    \A r \in BetWinRequests :
       /\ <<r, "200">> \in told => \A i \in IdsOf(r) : fate[i] \in {"applied", "reversed"}
       /\ <<r, "409">> \in told => \E i \in IdsOf(r) : fate[i] = "barred"

(* The rollback transactions, and the rule that an id_provider names one   *)
(* of them and no bet or win.                                              *)
UndoTxs == UNION {TxsOf(r) : r \in RollbackRequests}
UndoIdsUnique == \A t, u \in UndoTxs : t.id = u.id => t = u

(* A rollback that was performed leaves its original without effect. *)
UndoneHasNoEffect ==
    \A t \in UndoTxs : t.id \in undone => fate[t.original] \in {"reversed", "barred"}

(* The order of fates: nothing comes back to life. *)
FatesFinal ==
    [][\A i \in IdProviders :
          /\ fate[i] = "barred" => fate'[i] = "barred"
          /\ fate[i] = "reversed" => fate'[i] = "reversed"
          /\ fate[i] = "applied" => fate'[i] \in {"applied", "reversed"}]_contract
=============================================================================
