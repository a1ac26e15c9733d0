-------------------------- MODULE FreespinsLifecycle --------------------------
(***************************************************************************)
(* Freespins from the record to the credit: the operator's procedure, the  *)
(* Client it calls, the gateway, and the issue table of InMemoryWallet.    *)
(*                                                                         *)
(* The procedure is the one launcher.go, the wallet and the repository's   *)
(* README ask for: read the catalogue and the bet levels; record the       *)
(* issue, then issue it; repeat a call that timed out or got a 5xx with    *)
(* the same request; launch the player's session once it is issued; mark   *)
(* the issue canceled once a cancel was accepted.  Issuing and canceling   *)
(* one issue may go on side by side.  A request that was sent may reach    *)
(* the gateway late and more than once; an answer is lost, cut off, or     *)
(* returned to the call that waits.  The gateway is external: it does what *)
(* gateway.yaml says.                                                      *)
(***************************************************************************)
EXTENDS GatewayClient, FiniteSetsExt

CONSTANTS
    Issues, IssueAccount, Accounts, Opening, MaxMoney,   \* as in InMemoryWallet
    Terms,          \* the terms each issue is recorded and issued with
    Amounts,        \* what freespins can win
    Sizes,          \* how large the gateway's answer to a query may be
    None

VARIABLES
    mu, balance, transactions, tombstones, freespinsIssues, rounds, nextTx,
    nextRound, call, reply, answered,           \* the wallet
    grant,      \* the gateway's row of each issue, None before it heard of it
    settled,    \* the issues whose result the gateway knows to be accepted
    sent,       \* the requests sent so far
    waiting,    \* the calls that wait for an answer
    outcome,    \* how the last call of each procedure ended
    size,       \* how large the gateway's answer to a query is
    learned     \* how the last call of each query ended

wallet == <<mu, balance, transactions, tombstones, freespinsIssues, rounds, nextTx,
            nextRound, call, reply, answered>>
gateway == <<grant, settled, size>>
vars == <<wallet, gateway, sent, waiting, outcome, learned>>

(* What has become of an issue at the gateway. *)
States == {"issued", "canceled", "finished", "expired"}

Procedures == Acknowledged \X Issues

(* The outcome of a procedure none of whose calls has returned yet. *)
Unasked == [kind |-> "none"]

FinishRequest(i, amount) == [route |-> "freespins_finish", issue |-> i, amount |-> amount]

Wallet == INSTANCE InMemoryWallet
          WITH BetLimited <- {}, IdProviders <- {}, ProviderRounds <- {}, Goroutines <- {},
               BetWinRequests <- {}, RollbackRequests <- {}, ReadRequests <- {},
               FinishRequests <- {FinishRequest(i, n) : i \in Issues, n \in Amounts \cup {0}},
               MaxTx <- 0, Restarts <- FALSE

(* What the gateway keeps of an issue, whose terms are None if all it has  *)
(* heard of the issue is a cancel. *)
Rows ==
    [state : States, terms : {Terms[i] : i \in Issues} \cup {None}, amount : Amounts \cup {0}]

ASSUME LifecycleAssumption ==
    /\ Opening \in [Accounts -> Nat]
    /\ Amounts \subseteq Nat /\ Sizes \subseteq Nat
    /\ None \notin {Terms[i] : i \in Issues}
    /\ None \notin Rows
    /\ Wallet!AccountsAssumption /\ Wallet!RequestsAssumption /\ Wallet!NoneAssumption

Recorded(i) == Wallet!Status(i) # "unknown"

Got(op) == learned[op].kind = "ok"

-----------------------------------------------------------------------------
(* The operator *)

(* Once it knows which games and bet levels there are. *)
Record(i) ==
    /\ Got("games") /\ Got("levels")
    /\ Wallet!RecordFreespinsIssue(i)
    /\ UNCHANGED <<gateway, sent, waiting, outcome, learned>>

RequestOf(p) ==
    IF p[1] = "issue" THEN Posted("issue", [issue_id |-> p[2], terms |-> Terms[p[2]]])
                      ELSE Posted("cancel", [issue_id |-> p[2]])

(* The first call, or the same request again. *)
Ask(p) ==
    /\ Recorded(p[2])
    /\ p \notin waiting
    /\ outcome[p] = Unasked \/ Retryable(outcome[p])
    /\ sent' = sent \cup {RequestOf(p)}
    /\ waiting' = waiting \cup {p}
    /\ UNCHANGED <<wallet, gateway, outcome, learned>>

Accepted(p) == outcome[p].kind = "ok"

MarkCanceled(i) ==
    /\ Accepted(<<"cancel", i>>)
    /\ Wallet!CancelFreespinsIssue(i)
    /\ UNCHANGED <<gateway, sent, waiting, outcome, learned>>

-----------------------------------------------------------------------------
(* The gateway *)

State(i) == IF grant[i] = None THEN "unheard" ELSE grant[i].state

Grant(i, state, terms, amount) ==
    grant' = [grant EXCEPT ![i] = [state |-> state, terms |-> terms, amount |-> amount]]

Become(i, state) == Grant(i, state, grant[i].terms, grant[i].amount)

Authentic(m) ==
    /\ m.signature = <<ApiSecret, m.body>>
    /\ m.body.casino_id = CasinoID

Ok == Response(200, 0, 0)

(* 403 is the one refusal with a status of its own. *)
Refusal(code) == Response(IF code = 403 THEN 403 ELSE 400, code, 0)

(* What the gateway does with a request and means to answer. *)
HandleIssue(m, response) ==
    LET i == m.body.issue_id IN
    \/ /\ State(i) = "unheard"
       /\ Grant(i, "issued", m.body.terms, 0) /\ response = Ok
    \/ /\ State(i) # "unheard" /\ grant[i].terms = m.body.terms
       /\ response = Ok /\ UNCHANGED grant
    \/ /\ State(i) = "canceled" /\ grant[i].terms = None
       /\ response = Refusal(605) /\ UNCHANGED grant
    \/ /\ State(i) # "unheard" /\ grant[i].terms \notin {None, m.body.terms}
       /\ response = Refusal(610) /\ UNCHANGED grant

HandleCancel(m, response) ==
    LET i == m.body.issue_id IN
    \/ /\ State(i) = "unheard"
       /\ Grant(i, "canceled", None, 0) /\ response = Ok
    \/ /\ State(i) \in {"issued", "canceled"}
       /\ Become(i, "canceled") /\ response = Ok
    \/ State(i) = "finished" /\ response = Refusal(620) /\ UNCHANGED grant
    \/ State(i) = "expired" /\ response = Refusal(611) /\ UNCHANGED grant

Handle(m, response) ==
    \/ ~Authentic(m) /\ response = Refusal(403) /\ UNCHANGED grant
    \/ Authentic(m) /\ m.op = "issue" /\ HandleIssue(m, response)
    \/ Authentic(m) /\ m.op = "cancel" /\ HandleCancel(m, response)

(* The call that waits gets the answer, or it gets lost.                   *)
Return(p, response) ==
    \/ /\ p \in waiting
       /\ waiting' = waiting \ {p}
       /\ outcome' = [outcome EXCEPT ![p] = Outcome(p[1], response)]
    \/ UNCHANGED <<waiting, outcome>>

Replies == {Ok} \cup {Refusal(c) : c \in {403, 605, 610, 611, 620}}

(* A copy of a request of p reaches the gateway.  What comes back is its   *)
(* answer, the same with the connection broken, or the 502 of a proxy in   *)
(* between. *)
Arrive(p) ==
    /\ RequestOf(p) \in sent
    /\ \E response \in Replies :
          /\ Handle(RequestOf(p), response)
          /\ \/ Return(p, response)
             \/ Return(p, Broken(response))
             \/ Return(p, Response(502, 0, 0))
    /\ UNCHANGED <<wallet, settled, size, sent, learned>>

(* The gateway fails before it does anything, or the client times out      *)
(* while the request is on its way.                                        *)
Fail(p) ==
    /\ p \in waiting
    /\ \/ Return(p, Response(500, 500, 0))
       \/ Return(p, Broken(Ok))
    /\ UNCHANGED <<wallet, gateway, sent, learned>>

(* The player plays the freespins out in a session that was launched, or   *)
(* lets them expire. *)
Play(i) ==
    /\ State(i) = "issued"
    /\ \/ Got("launch_real") /\ \E n \in Amounts : Grant(i, "finished", grant[i].terms, n)
       \/ Become(i, "expired")
    /\ UNCHANGED <<wallet, settled, size, sent, waiting, outcome, learned>>

(* The result is sent until a 200 is heard; copies may still arrive later. *)
DeliverFinish(i, heard) ==
    /\ State(i) = "finished"
    /\ Wallet!FreespinsFinish(FinishRequest(i, grant[i].amount))
    /\ settled' = IF heard /\ reply'.code = "200" THEN settled \cup {i} ELSE settled
    /\ UNCHANGED <<grant, size, sent, waiting, outcome, learned>>

-----------------------------------------------------------------------------
(* A query changes nothing at the gateway.                                 *)

QueryRequest(op) == IF op = "games" THEN Listed("") ELSE Posted(op, [query |-> op])

Answered(m) ==
    IF IF m.op = "games" THEN m.body.operator = CasinoID ELSE Authentic(m)
    THEN Response(200, 0, size) ELSE Refusal(403)

(* A session on freespins is launched once they are issued. *)
Due(op) == op = "launch_real" => \E i \in Issues : Accepted(<<"issue", i>>)

Query(op) ==
    /\ Due(op)
    /\ learned[op] = Unasked \/ Retryable(learned[op])
    /\ \E response \in {Answered(QueryRequest(op)), Response(502, 0, 0)} :
         \E r \in {response, Broken(response)} :
            learned' = [learned EXCEPT ![op] = Outcome(op, r)]
    /\ UNCHANGED <<wallet, gateway, sent, waiting, outcome>>

Init ==
    /\ Wallet!Init
    /\ grant = [i \in Issues |-> None]
    /\ settled = {} /\ sent = {} /\ waiting = {}
    /\ outcome = [p \in Procedures |-> Unasked]
    /\ size \in Sizes
    /\ learned = [op \in Queries |-> Unasked]

Next ==
    \/ \E i \in Issues : Record(i) \/ MarkCanceled(i) \/ Play(i)
    \/ \E i \in Issues, heard \in BOOLEAN : DeliverFinish(i, heard)
    \/ \E p \in Procedures : Ask(p) \/ Arrive(p) \/ Fail(p)
    \/ \E op \in Queries : Query(op)

(* The gateway retries a result every few minutes until a 200 reaches it.  *)
Spec == Init /\ [][Next]_vars /\ \A i \in Issues : WF_vars(DeliverFinish(i, TRUE))

-----------------------------------------------------------------------------
(* Properties *)

(* The wallet's table, the gateway's rows and the outcomes keep their types. *)
TypeOK ==
    /\ balance \in [Accounts -> Int]
    /\ freespinsIssues \in [Issues -> Wallet!StoredFreespinsIssue \cup {None}]
    /\ grant \in [Issues -> Rows \cup {None}]
    /\ \A i \in Issues : grant[i] # None => grant[i].terms \in {Terms[i], None}
    /\ settled \subseteq Issues
    /\ sent \subseteq {RequestOf(p) : p \in Procedures}
    /\ waiting \subseteq Procedures
    /\ outcome \in [Procedures -> Outcomes \cup {Unasked}]
    /\ learned \in [Queries -> Outcomes \cup {Unasked}]
    /\ size \in Sizes

(* A result the gateway sends is never refused as unknown (610) or as      *)
(* canceled (605), whatever was lost, late or repeated on the way, and     *)
(* however issuing, canceling and playing overlap: refused, it would be    *)
(* sent for ever and the player never paid.                                *)
FinishNeverRefused ==
    reply # None => reply.code \notin {"605", "610"}

(* The two tables agree: what the wallet calls canceled the gateway has    *)
(* canceled and will never report, what the wallet paid is what was won,   *)
(* what the gateway takes for settled was paid; and a call that returned   *)
(* without an error did what it says.                                      *)
SidesAgree ==
    \A i \in Issues :
       /\ Wallet!Status(i) = "canceled" => State(i) = "canceled"
       /\ Wallet!Status(i) = "finished" =>
             State(i) = "finished" /\ freespinsIssues[i].amount = grant[i].amount
       /\ i \in settled => Wallet!Status(i) = "finished"
       /\ Accepted(<<"issue", i>>) => State(i) # "unheard" /\ grant[i].terms = Terms[i]
       /\ Accepted(<<"cancel", i>>) => State(i) = "canceled"

(* Every account holds its opening balance and what its own issues won, as *)
(* the gateway knows it, each paid once: no repeat of a result pays again, *)
(* and no answer that was lost keeps a payment away that the gateway takes *)
(* for settled.                                                            *)
WinningsPaidOnce ==
    \A a \in Accounts :
       balance[a] = Opening[a] + SumFunctionOnSet(
          [i \in Issues |-> IF IssueAccount[i] = a /\ Wallet!Status(i) = "finished"
                            THEN grant[i].amount ELSE 0], Issues)

(* Who follows the procedure is turned away for what happened and not for  *)
(* how the calls were made: an issue only because its own cancel overtook  *)
(* it, a cancel only because the issue was over; and no call is taken for  *)
(* a forgery (403).  That a repeat is never refused for other terms (610)  *)
(* is due to the operator, who repeats the same request.                   *)
RefusedForCause ==
    /\ \A op \in Queries : ~SignatureError(learned[op])
    /\ \A p \in Procedures :
       outcome[p].kind = "api" /\ ~Retryable(outcome[p]) =>
          IF p[1] = "issue"
          THEN outcome[p].code = 605 /\ RequestOf(<<"cancel", p[2]>>) \in sent
          ELSE \/ outcome[p].code = 620 /\ State(p[2]) = "finished"
               \/ outcome[p].code = 611 /\ State(p[2]) = "expired"

(* What the operator goes by is the gateway's whole answer, also when the  *)
(* answer is longer than what is read of it: one that was cut is an error  *)
(* and never a shorter catalogue or list of levels.                        *)
ResultsWhole ==
    \A op \in Queries : Got(op) => learned[op].got = size

(* What was played is paid and known to be paid, if the wallet knows the   *)
(* account. *)
PlayedIsSettled ==
    \A i \in Issues : IssueAccount[i] \in Accounts =>
       (State(i) = "finished" ~> i \in settled /\ Wallet!Status(i) = "finished")
=============================================================================
