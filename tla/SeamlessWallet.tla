---------------------------- MODULE SeamlessWallet ----------------------------
(***************************************************************************)
(* A wallet that keeps WalletContract, behind WalletServer.Dispatch and a  *)
(* network, and the platform that calls it.  The platform retries timeouts *)
(* and 500s with the same id_provider for a while, and rolls back what did *)
(* not end with a 200.  The two must agree in the end, although neither    *)
(* knows whether the other's last message arrived.                         *)
(*                                                                         *)
(* A request that was sent once may be delivered at any later time and any *)
(* number of times: each attempt is a copy of it, and a copy that is late  *)
(* or stuck arrives after the platform gave up.  An answer travels on the  *)
(* connection of its attempt and is lost with it.                          *)
(***************************************************************************)
EXTENDS WalletContract

CONSTANTS
    Revert,         \* the rollback request that reverts each betwin request
    MaxAttempts,    \* how often a request is sent within the 30 seconds
    Nothing         \* no answer on its way

ASSUME SeamlessAssumption ==
    /\ Revert \in [BetWinRequests -> RollbackRequests]
    /\ MaxAttempts \in Nat \ {0}
    /\ Nothing \notin {"200", "400", "409", "500"}

(* The platform's discipline: an id_provider names one transaction of one  *)
(* request, and a batch is reverted by a request of its own that names all *)
(* of its transactions.                                                    *)
ASSUME PlatformAssumption ==
    /\ UndoIdsUnique
    /\ \A b \in BetWinRequests : IdsOf(b) = {t.original : t \in TxsOf(Revert[b])}
    /\ \A b, c \in BetWinRequests : b # c => /\ IdsOf(b) \cap IdsOf(c) = {}
                                             /\ Revert[b] # Revert[c]
    /\ \A r \in RollbackRequests : \E b \in BetWinRequests : r = Revert[b]

VARIABLES
    phase,      \* how far the platform is with each betwin request
    attempt,    \* which attempt of its current request it waits for
    sent,       \* the requests sent so far: copies of them may still arrive
    answer      \* the answer on its way to the current attempt

platform == <<phase, attempt, sent>>
vars == <<contract, platform, answer>>

Phases == {"idle", "betting", "accepted", "reverting", "reverted", "unresolved"}
Codes == {"200", "400", "409", "500"}
Waiting == {"betting", "reverting"}

Current(b) == IF phase[b] = "betting" THEN b ELSE Revert[b]

-----------------------------------------------------------------------------
(* The platform *)

Send(b, r, p) ==
    /\ phase' = [phase EXCEPT ![b] = p]
    /\ attempt' = [attempt EXCEPT ![b] = 1]
    /\ sent' = sent \cup {r}
    /\ answer' = [answer EXCEPT ![b] = Nothing]
    /\ UNCHANGED contract

Settle(b, p) ==
    /\ phase' = [phase EXCEPT ![b] = p]
    /\ UNCHANGED <<contract, attempt, sent, answer>>

Bet(b) == phase[b] = "idle" /\ Send(b, b, "betting")

RetryOnceMore(b) ==
    /\ phase[b] \in Waiting
    /\ attempt[b] <= MaxAttempts
    /\ attempt' = [attempt EXCEPT ![b] = attempt[b] + 1]
    /\ answer' = [answer EXCEPT ![b] = Nothing]
    /\ UNCHANGED <<contract, phase, sent>>

(* A 500, or a timeout although an answer may be on its way. *)
Retry(b) ==
    /\ phase[b] \in Waiting
    /\ attempt[b] < MaxAttempts
    /\ attempt' = [attempt EXCEPT ![b] = attempt[b] + 1]
    /\ answer' = [answer EXCEPT ![b] = Nothing]
    /\ UNCHANGED <<contract, phase, sent>>

(* The last attempt timed out too, with its answer perhaps under way. *)
GiveUp(b) ==
    /\ phase[b] = "betting"
    /\ attempt[b] = MaxAttempts
    /\ Send(b, Revert[b], "reverting")

(* A refusal is not retried.  An earlier attempt may still be on its way,  *)
(* so it is rolled back like a timeout.                                    *)
LearnRefused(b) ==
    /\ phase[b] = "betting"
    /\ answer[b] \in {"400", "409"}
    /\ Send(b, Revert[b], "reverting")

LearnAccepted(b) == phase[b] = "betting" /\ answer[b] = "200" /\ Settle(b, "accepted")

LearnReverted(b) == phase[b] = "reverting" /\ answer[b] = "200" /\ Settle(b, "reverted")

(* The rollback itself was refused or never answered: somebody has to look *)
(* into it.                                                                *)
Abandon(b) ==
    /\ phase[b] = "reverting"
    /\ answer[b] = "400" \/ attempt[b] = MaxAttempts
    /\ Settle(b, "unresolved")

Platform(b) ==
    \/ Retry(b) \/ GiveUp(b) \/ LearnRefused(b)
    \/ LearnAccepted(b) \/ LearnReverted(b) \/ Abandon(b)

-----------------------------------------------------------------------------
(* The wallet, reached by a copy of a request of b *)

(* The answer goes to the attempt the platform waits for, if this is it.   *)
Answer(b, r, code) ==
    /\ UNCHANGED platform
    /\ \/ /\ phase[b] \in Waiting /\ r = Current(b) /\ answer[b] = Nothing
          /\ answer' = [answer EXCEPT ![b] = code]
       \/ answer' = answer

(* 200 and 409 are answered from the same transaction that keeps the       *)
(* books, a refusal for the moment (no funds, a limit) keeps them as they  *)
(* were, and a handler that fails or is too late may have done its work.   *)
HandleBetWin(b) ==
    /\ b \in sent
    /\ \/ Accept(b) /\ Answer(b, b, "200")
       \/ RefuseBarred(b) /\ Answer(b, b, "409")
       \/ UNCHANGED contract /\ Answer(b, b, "400")
       \/ UNCHANGED contract /\ Answer(b, b, "500")
       \/ ApplyUnanswered(b) /\ Answer(b, b, "500")

(* A rollback transaction by transaction; it may fail half way. *)
HandleRollback(b) ==
    LET r == Revert[b] IN
    /\ r \in sent
    /\ \/ /\ \E t \in TxsOf(r) : Undo(t)
          /\ UNCHANGED platform /\ answer' = answer
       \/ AcceptRollback(r) /\ Answer(b, r, "200")
       \/ UNCHANGED contract /\ Answer(b, r, "400")
       \/ UNCHANGED contract /\ Answer(b, r, "500")

-----------------------------------------------------------------------------
Init ==
    /\ ContractInit
    /\ phase = [b \in BetWinRequests |-> "idle"]
    /\ attempt = [b \in BetWinRequests |-> 1]
    /\ sent = {}
    /\ answer = [b \in BetWinRequests |-> Nothing]

Next ==
    \E b \in BetWinRequests :
       Bet(b) \/ Platform(b) \/ HandleBetWin(b) \/ HandleRollback(b)

(* Nothing is assumed to happen: platform, network and wallet may each be  *)
(* silent for ever.                                                        *)
Spec == Init /\ [][Next]_vars

-----------------------------------------------------------------------------
(* Properties *)

(* Platform and wallet keep their types. *)
TypeOK ==
    /\ ContractTypeOK
    /\ phase \in [BetWinRequests -> Phases]
    /\ attempt \in [BetWinRequests -> 1..MaxAttempts]
    /\ sent \subseteq BetWinRequests \cup RollbackRequests
    /\ answer \in [BetWinRequests -> Codes \cup {Nothing}]

(* Both sides agree on what is settled: what the platform takes for        *)
(* accepted counts in the wallet, all of it, and what it takes for         *)
(* reverted does not count and never will, whatever late copies arrive and *)
(* wherever a handler failed.  Only what the platform calls unresolved may *)
(* be either.                                                              *)
Agreement ==
    \A b \in BetWinRequests :
       /\ phase[b] = "accepted" => \A i \in IdsOf(b) : fate[i] = "applied"
       /\ phase[b] = "reverted" => \A i \in IdsOf(b) : fate[i] \in {"reversed", "barred"}

(* A wallet refuses a batch as rolled back only after the platform gave it *)
(* up: the tombstones of one batch never hit another, nor the same one     *)
(* while it is still being tried.                                          *)
OnlyRevertedRefused ==
    \A b \in BetWinRequests :
       <<b, "409">> \in told => phase[b] \in {"reverting", "reverted", "unresolved"}

(* A batch takes effect whole or not at all, also when its rollback failed *)
(* half way and late copies of the batch arrive in between: a part that is *)
(* barred keeps the rest out, and what is reversed was applied with the    *)
(* rest.  This holds of batches the platform calls unresolved, too, of     *)
(* which Agreement says nothing.                                           *)
TakesEffectWhole ==
    \A b \in BetWinRequests :
       \/ \A i \in IdsOf(b) : fate[i] \in {"unseen", "barred"}
       \/ \A i \in IdsOf(b) : fate[i] \in {"applied", "reversed"}
=============================================================================
