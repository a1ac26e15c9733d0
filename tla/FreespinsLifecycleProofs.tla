----------------------- MODULE FreespinsLifecycleProofs -----------------------
(* Proofs about FreespinsLifecycle for every value of its constants.        *)
EXTENDS FreespinsLifecycle, TLAPS, FiniteSetTheorems

Sent(op, i) == RequestOf(<<op, i>>) \in sent

(* Nothing is sent before the issue is recorded, and the gateway hears of  *)
(* nothing that was not sent.                                              *)
Precedence ==
    /\ \A p \in Procedures : RequestOf(p) \in sent => Recorded(p[2])
    /\ \A p \in waiting : RequestOf(p) \in sent
    /\ \A i \in Issues : grant[i] # None => Recorded(i)
    /\ \A i \in Issues : grant[i] # None /\ grant[i].terms = None => Sent("cancel", i)

(* What the gateway's rows, the wallet's rows and the outcomes of the      *)
(* calls say about one issue.                                              *)
IssueAgrees(i) ==
    /\ Wallet!Status(i) = "canceled" => State(i) = "canceled"
    /\ Wallet!Status(i) = "finished" =>
          State(i) = "finished" /\ freespinsIssues[i].amount = grant[i].amount
    /\ i \in settled => Wallet!Status(i) = "finished"

IssueCallAgrees(i) ==
    LET o == outcome[<<"issue", i>>] IN
    /\ o.kind = "ok" => State(i) # "unheard" /\ grant[i].terms = Terms[i]
    /\ o.kind = "api" /\ ~Retryable(o) => o.code = 605 /\ Sent("cancel", i)

CancelCallAgrees(i) ==
    LET o == outcome[<<"cancel", i>>] IN
    /\ o.kind = "ok" => State(i) = "canceled"
    /\ o.kind = "api" /\ ~Retryable(o) =>
          \/ o.code = 620 /\ State(i) = "finished"
          \/ o.code = 611 /\ State(i) = "expired"

Agrees == \A i \in Issues : IssueAgrees(i) /\ IssueCallAgrees(i) /\ CancelCallAgrees(i)

QueriesWhole ==
    \A op \in Queries :
       /\ learned[op].kind = "ok" => learned[op].got = size
       /\ ~SignatureError(learned[op])

-----------------------------------------------------------------------------
(* The requests *)

(* A request the client posts carries what the caller put in, is signed    *)
(* over the bytes that are sent, and names the operator.                   *)
LEMMA IssueRequest ==
    ASSUME NEW i \in Issues
    PROVE  LET m == RequestOf(<<"issue", i>>) IN
           /\ m.op = "issue" /\ m.body.issue_id = i /\ m.body.terms = Terms[i]
           /\ Authentic(m)
BY DEF RequestOf, Posted, WithCasinoID, Sign, Authentic

(* The same of a cancel. *)
LEMMA CancelRequest ==
    ASSUME NEW i \in Issues
    PROVE  LET m == RequestOf(<<"cancel", i>>) IN
           /\ m.op = "cancel" /\ m.body.issue_id = i
           /\ Authentic(m)
BY DEF RequestOf, Posted, WithCasinoID, Sign, Authentic

(* A procedure is that of an issue or that of a cancel. *)
LEMMA ProcedureCases ==
    ASSUME NEW p \in Procedures
    PROVE  \E i \in Issues : p[2] = i /\ (p = <<"issue", i>> \/ p = <<"cancel", i>>)
BY DEF Procedures, Acknowledged

(* Two procedures with the same request are about the same issue, and are  *)
(* the same.                                                               *)
LEMMA RequestTells ==
    ASSUME NEW p \in Procedures, NEW q \in Procedures, RequestOf(p) = RequestOf(q)
    PROVE  p = q
<1>1. PICK i \in Issues : p = <<"issue", i>> \/ p = <<"cancel", i>>
  BY ProcedureCases
<1>2. PICK j \in Issues : q = <<"issue", j>> \/ q = <<"cancel", j>>
  BY ProcedureCases
<1>3. RequestOf(p).body.issue_id = i /\ RequestOf(q).body.issue_id = j
  BY <1>1, <1>2, IssueRequest, CancelRequest
<1>4. i = j
  BY <1>3
<1>5. /\ p = <<"issue", i>> => RequestOf(p).op = "issue"
      /\ p = <<"cancel", i>> => RequestOf(p).op = "cancel"
      /\ q = <<"issue", j>> => RequestOf(q).op = "issue"
      /\ q = <<"cancel", j>> => RequestOf(q).op = "cancel"
  BY IssueRequest, CancelRequest
<1> QED
  BY <1>1, <1>2, <1>4, <1>5

(* The client never sends a query that the gateway takes for a forgery. *)
LEMMA QueryAnswered ==
    ASSUME NEW op \in Queries
    PROVE  Answered(QueryRequest(op)) = Response(200, 0, size)
BY DEF Answered, QueryRequest, Listed, Posted, WithCasinoID, Sign, Authentic, Queries

-----------------------------------------------------------------------------
(* The client *)

Responses ==
    [status : {200} \cup 400..599, code : {0} \cup 400..699, content : Nat, broken : BOOLEAN]

(* Whatever comes back, a call ends with one of the outcomes.              *)
LEMMA OutcomeTypes ==
    ASSUME NEW op, NEW r \in Responses
    PROVE  Outcome(op, r) \in Outcomes
<1>1. CASE r.broken \/ r.status = 200
  BY <1>1, ClientAssumption DEF Outcome, Outcomes, Failed, Success, Decodes, Responses
<1>2. CASE ~r.broken /\ r.status # 200
  <2>1. APIError(r) \in [kind : {"api"}, status : 400..599, code : 400..699]
    BY <1>2 DEF APIError, Responses
  <2> QED
    BY <1>2, <2>1 DEF Outcome, Outcomes
<1> QED
  BY <1>1, <1>2

(* The responses of the model are responses.                               *)
LEMMA ResponsesTyped ==
    /\ Ok \in Responses
    /\ \A c \in {403, 605, 610, 611, 620} : Refusal(c) \in Responses
    /\ Response(502, 0, 0) \in Responses /\ Response(500, 500, 0) \in Responses
    /\ \A r \in Responses : Broken(r) \in Responses
<1>1. ASSUME NEW r \in Responses PROVE Broken(r) \in Responses
  BY DEF Broken, Responses
<1>2. /\ Ok \in Responses
      /\ Response(502, 0, 0) \in Responses /\ Response(500, 500, 0) \in Responses
  BY DEF Ok, Response, Responses
<1>3. \A c \in {403, 605, 610, 611, 620} : Refusal(c) \in Responses
  BY DEF Refusal, Response, Responses
<1> QED
  BY <1>1, <1>2, <1>3

(* A broken connection and a 5xx leave the call to be repeated, whatever   *)
(* the gateway did.                                                        *)
LEMMA Inconclusive ==
    ASSUME NEW op, NEW r,
           r \in {Response(502, 0, 0), Response(500, 500, 0)} \/ \E s \in Responses : r = Broken(s)
    PROVE  Outcome(op, r).kind # "ok" /\ Retryable(Outcome(op, r))
<1>1. CASE \E s \in Responses : r = Broken(s)
  <2>1. r.broken
    BY <1>1 DEF Broken, Responses
  <2> QED
    BY <2>1 DEF Outcome, Failed, Retryable
<1>2. CASE r \in {Response(502, 0, 0), Response(500, 500, 0)}
  BY <1>2 DEF Response, Outcome, APIError, Retryable
<1> QED
  BY <1>1, <1>2

(* An acknowledged call succeeds on a 200 only, and its refusals are told  *)
(* with the api_code the gateway named.                                    *)
LEMMA Conclusive ==
    ASSUME NEW op \in Acknowledged
    PROVE  /\ Outcome(op, Ok) = Success(0)
           /\ \A c \in {403, 605, 610, 611, 620} :
                 /\ Outcome(op, Refusal(c)).kind = "api"
                 /\ Outcome(op, Refusal(c)).code = c
BY ClientAssumption DEF Outcome, Ok, Refusal, Response, APIError, Decodes, Success

-----------------------------------------------------------------------------
(* The gateway's rows *)

(* What handling a request does to the row of its issue, and answers.      *)
LEMMA HandleFacts ==
    ASSUME TypeOK, NEW i \in Issues, NEW op \in Acknowledged,
           NEW response \in Replies, Handle(RequestOf(<<op, i>>), response)
    PROVE  /\ grant' \in [Issues -> Rows \cup {None}]
           /\ \A j \in Issues \ {i} : grant'[j] = grant[j]
           /\ grant'[i] # None
           /\ grant'[i].terms \in {Terms[i], None}
           /\ grant[i] # None => grant'[i].terms = grant[i].terms
           /\ grant[i] # None /\ grant[i].state # "issued" => grant'[i] = grant[i]
           /\ grant[i] = None => op = "cancel" \/ grant'[i].terms = Terms[i]
           /\ op = "issue" =>
                 \/ response = Ok /\ grant'[i].terms = Terms[i]
                 \/ response = Refusal(605) /\ grant[i] # None /\ grant[i].terms = None
           /\ op = "cancel" =>
                 \/ response = Ok /\ grant'[i].state = "canceled"
                 \/ response = Refusal(620) /\ State(i) = "finished"
                 \/ response = Refusal(611) /\ State(i) = "expired"
<1> DEFINE m == RequestOf(<<op, i>>)
<1>0. /\ grant \in [Issues -> Rows \cup {None}] /\ None \notin Rows
      /\ grant[i] # None => grant[i] \in Rows /\ grant[i].terms \in {Terms[i], None}
      /\ Terms[i] # None
  BY LifecycleAssumption DEF TypeOK
<1>00. \A s \in States, t \in {Terms[i], None}, n \in Amounts \cup {0} :
          [state |-> s, terms |-> t, amount |-> n] \in Rows
  BY DEF Rows
<1>1. CASE op = "issue"
  <2>1. m.op = "issue" /\ m.body.issue_id = i /\ m.body.terms = Terms[i] /\ Authentic(m)
    BY <1>1, IssueRequest
  <2>2. HandleIssue(m, response)
    BY <2>1 DEF Handle
  <2>3. CASE State(i) = "unheard"
    <3>1. grant[i] = None
      BY <1>0, <2>3 DEF State, Rows, States
    <3>2. /\ grant' = [grant EXCEPT ![i] = [state |-> "issued", terms |-> Terms[i], amount |-> 0]]
          /\ response = Ok
      BY <2>1, <2>2, <2>3 DEF HandleIssue, Grant
    <3>3. [state |-> "issued", terms |-> Terms[i], amount |-> 0] \in Rows
      BY <1>00 DEF States
    <3> QED
      BY <1>0, <1>1, <3>1, <3>2, <3>3
  <2>4. CASE State(i) # "unheard"
    <3>1. grant[i] # None
      BY <2>4 DEF State
    <3>2. /\ grant' = grant
          /\ \/ response = Ok /\ grant[i].terms = Terms[i]
             \/ response = Refusal(605) /\ grant[i].terms = None
      BY <1>0, <2>1, <2>2, <2>4, <3>1 DEF HandleIssue
    <3> QED
      BY <1>0, <1>1, <3>1, <3>2
  <2> QED
    BY <2>3, <2>4
<1>2. CASE op = "cancel"
  <2>1. m.op = "cancel" /\ m.body.issue_id = i /\ Authentic(m)
    BY <1>2, CancelRequest
  <2>2. HandleCancel(m, response)
    BY <2>1 DEF Handle
  <2>3. CASE State(i) = "unheard"
    <3>1. grant[i] = None
      BY <1>0, <2>3 DEF State, Rows, States
    <3>2. /\ grant' = [grant EXCEPT ![i] = [state |-> "canceled", terms |-> None, amount |-> 0]]
          /\ response = Ok
      BY <2>1, <2>2, <2>3 DEF HandleCancel, Grant
    <3>3. [state |-> "canceled", terms |-> None, amount |-> 0] \in Rows
      BY <1>00 DEF States
    <3> QED
      BY <1>0, <1>2, <3>1, <3>2, <3>3
  <2>4. CASE State(i) \in {"issued", "canceled"}
    <3>1. grant[i] # None /\ grant[i].state \in {"issued", "canceled"}
      BY <2>4 DEF State
    <3>2. /\ grant' = [grant EXCEPT ![i] = [state |-> "canceled", terms |-> grant[i].terms,
                                            amount |-> grant[i].amount]]
          /\ response = Ok
      BY <2>1, <2>2, <2>4 DEF HandleCancel, Become, Grant
    <3>3. /\ [state |-> "canceled", terms |-> grant[i].terms, amount |-> grant[i].amount] \in Rows
          /\ grant[i].state = "canceled" =>
                grant[i] = [state |-> "canceled", terms |-> grant[i].terms,
                            amount |-> grant[i].amount]
      BY <1>0, <3>1 DEF Rows, States
    <3> QED
      BY <1>0, <1>2, <3>1, <3>2, <3>3
  <2>5. CASE State(i) \notin {"unheard", "issued", "canceled"}
    <3>1. grant[i] # None
      BY <2>5 DEF State
    <3>2. /\ grant' = grant
          /\ \/ response = Refusal(620) /\ State(i) = "finished"
             \/ response = Refusal(611) /\ State(i) = "expired"
      BY <2>1, <2>2, <2>5 DEF HandleCancel
    <3> QED
      BY <1>0, <1>2, <3>1, <3>2
  <2> QED
    BY <2>3, <2>4, <2>5
<1> QED
  BY <1>1, <1>2 DEF Acknowledged

-----------------------------------------------------------------------------
(* The wallet's rows *)

(* The status of a row is one of three, and unknown where there is none.   *)
LEMMA StatusCases ==
    ASSUME TypeOK, NEW i \in Issues
    PROVE  /\ Wallet!Status(i) = "unknown" <=> freespinsIssues[i] = None
           /\ Wallet!Status(i) \in {"unknown", "issued", "canceled", "finished"}
           /\ freespinsIssues[i] # None =>
                 /\ freespinsIssues[i] \in Wallet!StoredFreespinsIssue
                 /\ Wallet!Status(i) = freespinsIssues[i].status
BY LifecycleAssumption DEF TypeOK, Wallet!Status, Wallet!StoredFreespinsIssue

(* What each wallet step of the operator does to the issue table. *)
LEMMA RecordFacts ==
    ASSUME TypeOK, NEW i \in Issues, Record(i)
    PROVE  /\ freespinsIssues[i] = None
           /\ \E row \in Wallet!StoredFreespinsIssue :
                 /\ row.status = "issued"
                 /\ freespinsIssues' = [freespinsIssues EXCEPT ![i] = row]
           /\ balance' = balance /\ reply' = None
           /\ UNCHANGED <<gateway, sent, waiting, outcome, learned>>
<1>1. Wallet!RecordFreespinsIssue(i) /\ UNCHANGED <<gateway, sent, waiting, outcome, learned>>
  BY DEF Record
<1> DEFINE row == [account |-> IssueAccount[i], status |-> "issued", amount |-> 0,
                   balanceAfter |-> 0]
<1>2. row \in Wallet!StoredFreespinsIssue
  BY DEF Wallet!StoredFreespinsIssue
<1>3. freespinsIssues' = [freespinsIssues EXCEPT ![i] = row]
  BY <1>1 DEF Wallet!RecordFreespinsIssue, Wallet!SetIssue
<1> QED
  BY <1>1, <1>2, <1>3, StatusCases DEF Wallet!RecordFreespinsIssue

(* Marking an issue canceled follows an accepted cancel.                   *)
LEMMA MarkCanceledFacts ==
    ASSUME TypeOK, NEW i \in Issues, MarkCanceled(i)
    PROVE  /\ freespinsIssues[i] # None /\ Accepted(<<"cancel", i>>)
           /\ \E row \in Wallet!StoredFreespinsIssue :
                 /\ row.status = "canceled"
                 /\ freespinsIssues' = [freespinsIssues EXCEPT ![i] = row]
           /\ balance' = balance /\ reply' = None
           /\ UNCHANGED <<gateway, sent, waiting, outcome, learned>>
<1>1. /\ Wallet!CancelFreespinsIssue(i) /\ Accepted(<<"cancel", i>>)
      /\ UNCHANGED <<gateway, sent, waiting, outcome, learned>>
  BY DEF MarkCanceled
<1> DEFINE old == freespinsIssues[i]
           row == [old EXCEPT !.status = "canceled"]
<1>2. Wallet!Status(i) = "issued"
  BY <1>1 DEF Wallet!CancelFreespinsIssue, Wallet!Cancelable
<1>3. old # None /\ old \in Wallet!StoredFreespinsIssue
  BY <1>2, StatusCases
<1>4. row \in Wallet!StoredFreespinsIssue /\ row.status = "canceled"
  BY <1>3 DEF Wallet!StoredFreespinsIssue
<1>5. freespinsIssues' = [freespinsIssues EXCEPT ![i] = row]
  BY <1>1 DEF Wallet!CancelFreespinsIssue, Wallet!SetIssue
<1> QED
  BY <1>1, <1>3, <1>4, <1>5 DEF Wallet!CancelFreespinsIssue

(* A result the gateway sends is credited, repeated, or refused: as        *)
(* unknown, as canceled, or for the account or the balance.                *)
LEMMA DeliverFacts ==
    ASSUME TypeOK, NEW i \in Issues, NEW heard \in BOOLEAN, DeliverFinish(i, heard)
    PROVE  /\ \/ /\ freespinsIssues' = freespinsIssues /\ balance' = balance
                 /\ reply'.code = "200" => Wallet!Status(i) = "finished"
              \/ /\ balance' \in [Accounts -> Int]
                 /\ \E row \in Wallet!StoredFreespinsIssue :
                       /\ row.status = "finished" /\ row.amount = grant[i].amount
                       /\ freespinsIssues' = [freespinsIssues EXCEPT ![i] = row]
           /\ reply'.code = "610" => Wallet!Status(i) = "unknown"
           /\ reply'.code = "605" => Wallet!Status(i) = "canceled"
<1> DEFINE r == FinishRequest(i, grant[i].amount)
<1>0. /\ State(i) = "finished" /\ Wallet!FreespinsFinish(r)
      /\ r.issue = i /\ r.amount = grant[i].amount
  BY DEF DeliverFinish, FinishRequest
<1>1. grant[i].amount \in Nat
  <2>1. grant[i] \in Rows
    BY <1>0 DEF State, TypeOK
  <2> QED
    BY <2>1, LifecycleAssumption DEF Rows
<1>2. CASE Wallet!FreespinsFinishUnknown(r) \/ Wallet!FreespinsFinishCanceled(r)
  BY <1>0, <1>2 DEF Wallet!FreespinsFinishUnknown, Wallet!FreespinsFinishCanceled,
     Wallet!FinishRefused, Wallet!Respond, Wallet!Refusal, Wallet!Answer, Wallet!ledger
<1>3. CASE Wallet!FreespinsFinishNoAccount(r) \/ Wallet!FreespinsFinishUnreadable(r)
  BY <1>3 DEF Wallet!FreespinsFinishNoAccount, Wallet!FreespinsFinishUnreadable,
     Wallet!FinishRefused, Wallet!Respond, Wallet!Refusal, Wallet!Answer, Wallet!ledger
<1>4. CASE Wallet!FreespinsFinishReplay(r)
  BY <1>0, <1>4 DEF Wallet!FreespinsFinishReplay, Wallet!Respond, Wallet!Answer, Wallet!ledger
<1>5. CASE Wallet!FreespinsFinishCredit(r)
  <2> DEFINE a == freespinsIssues[i].account
             after == balance[a] + r.amount
             row == [account |-> a, status |-> "finished", amount |-> r.amount,
                     balanceAfter |-> after]
  <2>1. /\ a \in Accounts /\ balance' = [balance EXCEPT ![a] = after]
        /\ freespinsIssues' = [freespinsIssues EXCEPT ![i] = row]
        /\ reply'.code = "200"
    BY <1>0, <1>5 DEF Wallet!FreespinsFinishCredit, Wallet!SetIssue, Wallet!Respond,
       Wallet!Answer
  <2>2. freespinsIssues[i] \in Wallet!StoredFreespinsIssue
    <3>1. Wallet!Status(i) = "issued"
      BY <1>0, <1>5 DEF Wallet!FreespinsFinishCredit, Wallet!Payable
    <3> QED
      BY <3>1, StatusCases
  <2>3. after \in Int
    BY <1>0, <1>1, <2>1 DEF TypeOK
  <2>4. row \in Wallet!StoredFreespinsIssue
    BY <1>0, <1>1, <2>2, <2>3 DEF Wallet!StoredFreespinsIssue
  <2>5. balance' \in [Accounts -> Int]
    BY <2>1, <2>3 DEF TypeOK
  <2> QED
    BY <1>0, <2>1, <2>4, <2>5
<1> QED
  BY <1>0, <1>2, <1>3, <1>4, <1>5 DEF Wallet!FreespinsFinish

-----------------------------------------------------------------------------
(* The calls *)

(* A call that returns changes its own outcome only. *)
LEMMA ReturnFacts ==
    ASSUME TypeOK, NEW p \in Procedures, NEW r \in Responses, Return(p, r)
    PROVE  /\ waiting' \subseteq waiting
           /\ outcome' \in [Procedures -> Outcomes \cup {Unasked}]
           /\ \A q \in Procedures \ {p} : outcome'[q] = outcome[q]
           /\ outcome'[p] \in {outcome[p], Outcome(p[1], r)}
<1>1. Outcome(p[1], r) \in Outcomes
  BY OutcomeTypes
<1>2. outcome \in [Procedures -> Outcomes \cup {Unasked}]
  BY DEF TypeOK
<1> QED
  BY <1>1, <1>2 DEF Return

(* What an arrival does: the row is handled, and the call either goes on   *)
(* waiting, or is to be repeated, or ends with the gateway's own answer.   *)
LEMMA ArriveFacts ==
    ASSUME TypeOK, NEW i \in Issues, NEW op \in Acknowledged, Arrive(<<op, i>>)
    PROVE  LET p == <<op, i>> IN
           /\ RequestOf(p) \in sent /\ p \in Procedures
           /\ waiting' \subseteq waiting
           /\ outcome' \in [Procedures -> Outcomes \cup {Unasked}]
           /\ \A q \in Procedures \ {p} : outcome'[q] = outcome[q]
           /\ \E response \in Replies :
                 /\ Handle(RequestOf(p), response)
                 /\ \/ outcome'[p] = outcome[p]
                    \/ outcome'[p].kind # "ok" /\ Retryable(outcome'[p])
                    \/ outcome'[p] = Outcome(op, response)
<1> DEFINE p == <<op, i>>
<1>0. p \in Procedures /\ p[1] = op /\ RequestOf(p) \in sent
  BY DEF Procedures, Arrive
<1>1. PICK response \in Replies :
         /\ Handle(RequestOf(p), response)
         /\ \/ Return(p, response) \/ Return(p, Broken(response))
            \/ Return(p, Response(502, 0, 0))
  BY DEF Arrive
<1>2. response \in Responses /\ Broken(response) \in Responses /\ Response(502, 0, 0) \in Responses
  BY ResponsesTyped DEF Replies
<1> HIDE DEF p
<1>3. CASE Return(p, response)
  BY <1>0, <1>1, <1>2, <1>3, ReturnFacts DEF p
<1>4. CASE Return(p, Broken(response))
  <2>1. Outcome(op, Broken(response)).kind # "ok" /\ Retryable(Outcome(op, Broken(response)))
    BY <1>2, Inconclusive
  <2> QED
    BY <1>0, <1>1, <1>2, <1>4, <2>1, ReturnFacts DEF p
<1>5. CASE Return(p, Response(502, 0, 0))
  <2>1. LET r == Response(502, 0, 0) IN
        Outcome(op, r).kind # "ok" /\ Retryable(Outcome(op, r))
    BY Inconclusive
  <2> QED
    BY <1>0, <1>1, <1>2, <1>5, <2>1, ReturnFacts DEF p
<1> QED
  BY <1>1, <1>3, <1>4, <1>5

(* A call that fails on its way is one to be repeated. *)
LEMMA FailFacts ==
    ASSUME TypeOK, NEW p \in Procedures, Fail(p)
    PROVE  /\ waiting' \subseteq waiting
           /\ outcome' \in [Procedures -> Outcomes \cup {Unasked}]
           /\ \A q \in Procedures \ {p} : outcome'[q] = outcome[q]
           /\ \/ outcome'[p] = outcome[p]
              \/ outcome'[p].kind # "ok" /\ Retryable(outcome'[p])
           /\ UNCHANGED <<wallet, gateway, sent, learned>>
<1>1. PICK r \in {Response(500, 500, 0), Broken(Ok)} : Return(p, r)
  BY DEF Fail
<1>2. r \in Responses
  BY <1>1, ResponsesTyped
<1>3. Outcome(p[1], r).kind # "ok" /\ Retryable(Outcome(p[1], r))
  BY <1>1, ResponsesTyped, Inconclusive
<1>4. UNCHANGED <<wallet, gateway, sent, learned>>
  BY DEF Fail
<1> QED
  BY <1>1, <1>2, <1>3, <1>4, ReturnFacts

(* A query ends with the gateway's whole answer or with an error that is   *)
(* no forgery. *)
LEMMA QueryFacts ==
    ASSUME TypeOK, NEW op \in Queries, Query(op)
    PROVE  /\ learned' \in [Queries -> Outcomes \cup {Unasked}]
           /\ \A q \in Queries \ {op} : learned'[q] = learned[q]
           /\ learned'[op].kind = "ok" => learned'[op].got = size
           /\ ~SignatureError(learned'[op])
           /\ UNCHANGED <<wallet, gateway, sent, waiting, outcome>>
<1> DEFINE whole == Response(200, 0, size)
           page == Response(502, 0, 0)
           Ends(r) == learned' = [learned EXCEPT ![op] = Outcome(op, r)]
<1>0. Answered(QueryRequest(op)) = whole
  BY QueryAnswered
<1>1. PICK r \in {whole, page, Broken(whole), Broken(page)} : Ends(r)
  <2>1. PICK response \in {Answered(QueryRequest(op)), page} :
           \E r \in {response, Broken(response)} : Ends(r)
    BY DEF Query
  <2>2. response = whole \/ response = page
    BY <1>0, <2>1
  <2> HIDE DEF whole, page, Ends
  <2> QED
    BY <2>1, <2>2, Zenon
<1>2. whole \in Responses /\ page \in Responses
  BY LifecycleAssumption DEF TypeOK, Response, Responses
<1>3. r \in Responses
  BY <1>1, <1>2, ResponsesTyped
<1>4. Outcome(op, r) \in Outcomes
  BY <1>3, OutcomeTypes
<1>5. /\ Outcome(op, r).kind = "ok" => Outcome(op, r).got = size
      /\ ~SignatureError(Outcome(op, r))
  <2>1. CASE r = whole
    BY <2>1 DEF Outcome, Response, Failed, Success, SignatureError, Decodes, Queries, Acknowledged
  <2>2. CASE r = page
    BY <2>2 DEF Outcome, Response, APIError, SignatureError
  <2>3. CASE r \in {Broken(whole), Broken(page)}
    BY <2>3 DEF Outcome, Broken, Failed, SignatureError
  <2> QED
    BY <1>1, <2>1, <2>2, <2>3
<1>6. UNCHANGED <<wallet, gateway, sent, waiting, outcome>>
  BY DEF Query
<1> QED
  BY <1>1, <1>4, <1>5, <1>6 DEF TypeOK

-----------------------------------------------------------------------------
(* The steps *)

Cases ==
    \/ \E i \in Issues : \/ Record(i) \/ MarkCanceled(i) \/ Play(i)
                         \/ \E heard \in BOOLEAN : DeliverFinish(i, heard)
                         \/ \E op \in Acknowledged : Arrive(<<op, i>>)
    \/ \E p \in Procedures : Ask(p) \/ Fail(p)
    \/ \E op \in Queries : Query(op)

(* Every step is one of these, with the procedure of an arrival named.     *)
LEMMA NextCases == ASSUME Next PROVE Cases
<1>1. ASSUME NEW p \in Procedures, Arrive(p)
      PROVE  \E i \in Issues, op \in Acknowledged : Arrive(<<op, i>>)
  <2>1. PICK i \in Issues : p = <<"issue", i>> \/ p = <<"cancel", i>>
    BY ProcedureCases
  <2> QED
    BY <1>1, <2>1 DEF Acknowledged
<1> QED
  BY <1>1 DEF Next, Cases

(* Types hold at the start. *)
LEMMA TypesInit == Init => TypeOK
BY LifecycleAssumption DEF Init, TypeOK, Wallet!Init

(* Every step keeps the types. *)
LEMMA TypesStep == TypeOK /\ [Next]_vars => TypeOK'
<1> SUFFICES ASSUME TypeOK, [Next]_vars PROVE TypeOK'
  OBVIOUS
<1> USE DEF wallet, gateway
<1>1. ASSUME NEW i \in Issues, Record(i) PROVE TypeOK'
  BY <1>1, RecordFacts DEF TypeOK
<1>2. ASSUME NEW i \in Issues, MarkCanceled(i) PROVE TypeOK'
  BY <1>2, MarkCanceledFacts DEF TypeOK
<1>3. ASSUME NEW i \in Issues, Play(i) PROVE TypeOK'
  <2>1. grant[i] # None /\ grant[i] \in Rows /\ grant[i].terms \in {Terms[i], None}
    BY <1>3 DEF Play, State, TypeOK
  <2>2. PICK s \in States, n \in Amounts \cup {0} :
           grant' = [grant EXCEPT ![i] = [state |-> s, terms |-> grant[i].terms, amount |-> n]]
    <3>1. "finished" \in States /\ "expired" \in States /\ grant[i].amount \in Amounts \cup {0}
      BY <2>1 DEF States, Rows
    <3> QED
      BY <1>3, <3>1 DEF Play, Become, Grant
  <2>3. [state |-> s, terms |-> grant[i].terms, amount |-> n] \in Rows
    BY <2>1 DEF Rows
  <2>4. UNCHANGED <<balance, freespinsIssues, settled, size, sent, waiting, outcome, learned>>
    BY <1>3 DEF Play
  <2> QED
    BY <2>1, <2>2, <2>3, <2>4 DEF TypeOK
<1>4. ASSUME NEW i \in Issues, NEW heard \in BOOLEAN, DeliverFinish(i, heard) PROVE TypeOK'
  <2>1. settled' \subseteq Issues /\ UNCHANGED <<grant, size, sent, waiting, outcome, learned>>
    BY <1>4 DEF DeliverFinish, TypeOK
  <2>2. balance' \in [Accounts -> Int]
        /\ freespinsIssues' \in [Issues -> Wallet!StoredFreespinsIssue \cup {None}]
    BY <1>4, DeliverFacts DEF TypeOK
  <2> QED
    BY <2>1, <2>2 DEF TypeOK
<1>5. ASSUME NEW i \in Issues, NEW op \in Acknowledged, Arrive(<<op, i>>) PROVE TypeOK'
  <2>1. PICK response \in Replies : Handle(RequestOf(<<op, i>>), response)
    BY <1>5, ArriveFacts
  <2>2. /\ grant' \in [Issues -> Rows \cup {None}]
        /\ \A j \in Issues : grant'[j] # None => grant'[j].terms \in {Terms[j], None}
    BY <2>1, HandleFacts DEF TypeOK
  <2>3. UNCHANGED <<balance, freespinsIssues, settled, size, sent, learned>>
    BY <1>5 DEF Arrive
  <2>4. waiting' \subseteq waiting /\ outcome' \in [Procedures -> Outcomes \cup {Unasked}]
    BY <1>5, ArriveFacts
  <2> QED
    BY <2>2, <2>3, <2>4 DEF TypeOK
<1>6. ASSUME NEW p \in Procedures, Ask(p) PROVE TypeOK'
  BY <1>6 DEF Ask, TypeOK
<1>7. ASSUME NEW p \in Procedures, Fail(p) PROVE TypeOK'
  BY <1>7, FailFacts DEF TypeOK
<1>8. ASSUME NEW op \in Queries, Query(op) PROVE TypeOK'
  BY <1>8, QueryFacts DEF TypeOK
<1>9. CASE UNCHANGED vars
  BY <1>9 DEF vars, TypeOK
<1> QED
  BY <1>1, <1>2, <1>3, <1>4, <1>5, <1>6, <1>7, <1>8, <1>9, NextCases DEF Cases

(* The tables, the calls and the queries keep their types.                 *)
THEOREM LifecycleTypes == Spec => []TypeOK
BY TypesInit, TypesStep, PTL DEF Spec

(* What is kept by every step: the types, what precedes what, and what     *)
(* the sides and the calls say of each other.                              *)
Inv == TypeOK /\ Precedence /\ Agrees /\ QueriesWhole

(* It holds at the start. *)
LEMMA InvInit == Init => Inv
<1> SUFFICES ASSUME Init PROVE Inv
  OBVIOUS
<1>1. TypeOK
  BY TypesInit
<1>2. \A i \in Issues : /\ Wallet!Status(i) = "unknown" /\ grant[i] = None /\ i \notin settled
                        /\ outcome[<<"issue", i>>] = Unasked /\ outcome[<<"cancel", i>>] = Unasked
  BY DEF Init, Wallet!Init, Wallet!Status, Procedures, Acknowledged
<1>3. Precedence
  BY <1>2 DEF Init, Precedence
<1>4. ASSUME NEW i \in Issues
      PROVE  IssueAgrees(i) /\ IssueCallAgrees(i) /\ CancelCallAgrees(i)
  <2>1. IssueAgrees(i)
    BY <1>2 DEF IssueAgrees
  <2>2. Unasked.kind = "none"
    BY DEF Unasked
  <2> QED
    BY <1>2, <2>1, <2>2 DEF IssueCallAgrees, CancelCallAgrees
<1>5. QueriesWhole
  BY DEF Init, QueriesWhole, Unasked, SignatureError
<1> QED
  BY <1>1, <1>3, <1>4, <1>5 DEF Inv, Agrees

(* A step that changes neither the tables, the calls nor what was sent.    *)
LEMMA Unmoved ==
    ASSUME Inv, UNCHANGED <<freespinsIssues, grant, settled, sent, waiting, outcome>>
    PROVE  Precedence' /\ Agrees'
BY DEF Inv, Precedence, Agrees, IssueAgrees, IssueCallAgrees, CancelCallAgrees, Sent,
   Recorded, State, Wallet!Status

(* What the calls say, when neither the rows nor the calls change.         *)
LEMMA CallsUnmoved ==
    ASSUME Inv, UNCHANGED <<grant, sent, outcome>>, NEW j \in Issues
    PROVE  IssueCallAgrees(j)' /\ CancelCallAgrees(j)'
<1>1. State(j)' = State(j) /\ Sent("cancel", j)' = Sent("cancel", j)
  BY DEF State, Sent
<1>2. IssueCallAgrees(j) /\ CancelCallAgrees(j)
  BY DEF Inv, Agrees
<1>3. UNCHANGED <<grant, outcome>>
  OBVIOUS
<1> QED
  BY <1>1, <1>2, <1>3 DEF IssueCallAgrees, CancelCallAgrees

(* A step that changes the wallet's row of one issue to one the gateway    *)
(* agrees with, once the gateway's rows and the calls stay as they are.    *)
LEMMA WalletMoves ==
    ASSUME Inv, NEW i \in Issues, NEW row \in Wallet!StoredFreespinsIssue,
           freespinsIssues' = [freespinsIssues EXCEPT ![i] = row],
           UNCHANGED <<grant, sent, waiting, outcome>>,
           row.status = "canceled" => State(i) = "canceled",
           row.status = "finished" => State(i) = "finished" /\ row.amount = grant[i].amount,
           settled' = settled \/ (settled' = settled \cup {i} /\ row.status = "finished"),
           i \in settled => row.status = "finished"
    PROVE  Precedence' /\ Agrees'
<1>1. /\ Wallet!Status(i)' = row.status /\ row.status # "unknown"
      /\ freespinsIssues'[i].amount = row.amount
      /\ \A j \in Issues \ {i} : freespinsIssues'[j] = freespinsIssues[j]
  BY LifecycleAssumption DEF Inv, TypeOK, Wallet!Status, Wallet!StoredFreespinsIssue
<1>2. \A j \in Issues : Recorded(j) => Recorded(j)'
  BY <1>1 DEF Recorded, Wallet!Status
<1>3. \A p \in Procedures : p[2] \in Issues
  BY DEF Procedures
<1>4. Precedence'
  BY <1>2, <1>3 DEF Inv, Precedence, Sent
<1>5. \A j \in Issues : IssueCallAgrees(j)' /\ CancelCallAgrees(j)'
  BY CallsUnmoved
<1>6. ASSUME NEW j \in Issues PROVE IssueAgrees(j)'
  <2>1. CASE j = i
    BY <1>1, <2>1 DEF Inv, Agrees, IssueAgrees, State
  <2>2. CASE j # i
    BY <1>1, <2>2 DEF Inv, Agrees, IssueAgrees, State, Wallet!Status
  <2> QED
    BY <2>1, <2>2
<1> QED
  BY <1>4, <1>5, <1>6 DEF Agrees

(* A step that changes the gateway's row of one issue, as handling a       *)
(* request or a player's play does.                                        *)
LEMMA GatewayMoves ==
    ASSUME Inv, NEW i \in Issues, Recorded(i),
           \A j \in Issues \ {i} : grant'[j] = grant[j],
           grant'[i] \in Rows, grant'[i] # None,
           grant'[i].terms = None => Sent("cancel", i),
           grant[i] # None => grant'[i].terms = grant[i].terms,
           grant[i] # None /\ grant[i].state # "issued" => grant'[i] = grant[i],
           waiting' \subseteq waiting,
           UNCHANGED <<freespinsIssues, settled, sent>>
    PROVE  /\ Precedence'
           /\ \A j \in Issues : IssueAgrees(j)'
           /\ State(i)' # "unheard"
           /\ \A j \in Issues :
                 /\ outcome'[<<"issue", j>>] = outcome[<<"issue", j>>] => IssueCallAgrees(j)'
                 /\ outcome'[<<"cancel", j>>] = outcome[<<"cancel", j>>] => CancelCallAgrees(j)'
<1>1. \A j \in Issues : /\ Recorded(j)' = Recorded(j) /\ Wallet!Status(j)' = Wallet!Status(j)
                        /\ Sent("cancel", j)' = Sent("cancel", j)
  BY DEF Recorded, Wallet!Status, Sent
<1>2. Precedence'
  <2>1. \A p \in Procedures : RequestOf(p) \in sent' => Recorded(p[2])'
    BY <1>1 DEF Inv, Precedence, Procedures
  <2>2. \A p \in waiting' : RequestOf(p) \in sent'
    BY DEF Inv, Precedence
  <2>3. \A j \in Issues : grant'[j] # None => Recorded(j)'
    BY <1>1 DEF Inv, Precedence
  <2>4. \A j \in Issues : grant'[j] # None /\ grant'[j].terms = None => Sent("cancel", j)'
    BY <1>1 DEF Inv, Precedence
  <2> QED
    BY <2>1, <2>2, <2>3, <2>4 DEF Precedence, Sent
<1>3. \A j \in Issues \ {i} : State(j)' = State(j)
  BY DEF State
<1>4. State(i) \notin {"unheard", "issued"} => State(i)' = State(i) /\ grant'[i] = grant[i]
  BY DEF State
<1>5. State(i) # "unheard" => grant[i] # None
  BY DEF State
<1>6. State(i)' # "unheard"
  BY DEF State, Rows, States
<1>7. \A j \in Issues : IssueAgrees(j)'
  BY <1>1, <1>3, <1>4 DEF Inv, Agrees, IssueAgrees
<1>8. \A j \in Issues : outcome'[<<"issue", j>>] = outcome[<<"issue", j>>] => IssueCallAgrees(j)'
  BY <1>1, <1>3, <1>5, <1>6 DEF Inv, Agrees, IssueCallAgrees
<1>9. \A j \in Issues : outcome'[<<"cancel", j>>] = outcome[<<"cancel", j>>] => CancelCallAgrees(j)'
  BY <1>1, <1>3, <1>4 DEF Inv, Agrees, CancelCallAgrees
<1> QED
  BY <1>2, <1>6, <1>7, <1>8, <1>9

(* Every step keeps what the sides and the calls say of each other.        *)
LEMMA InvStep == Inv /\ [Next]_vars => Inv'
<1> SUFFICES ASSUME Inv, [Next]_vars PROVE Precedence' /\ Agrees' /\ QueriesWhole'
  BY TypesStep DEF Inv
<1>0. TypeOK /\ Precedence /\ Agrees /\ QueriesWhole
  BY DEF Inv
<1>1. ASSUME NEW i \in Issues, Record(i) PROVE Precedence' /\ Agrees' /\ QueriesWhole'
  <2>1. UNCHANGED <<grant, settled, sent, waiting, outcome, learned, size>>
    BY <1>0, <1>1, RecordFacts DEF gateway
  <2>2. PICK row \in Wallet!StoredFreespinsIssue :
           row.status = "issued" /\ freespinsIssues' = [freespinsIssues EXCEPT ![i] = row]
    BY <1>0, <1>1, RecordFacts
  <2>3. i \notin settled
    <3>1. freespinsIssues[i] = None
      BY <1>0, <1>1, RecordFacts
    <3> QED
      BY <1>0, <3>1 DEF Agrees, IssueAgrees, Wallet!Status
  <2>4. Precedence' /\ Agrees'
    BY <2>1, <2>2, <2>3, WalletMoves
  <2> QED
    BY <1>0, <2>1, <2>4 DEF QueriesWhole
<1>2. ASSUME NEW i \in Issues, MarkCanceled(i) PROVE Precedence' /\ Agrees' /\ QueriesWhole'
  <2>1. UNCHANGED <<grant, settled, sent, waiting, outcome, learned, size>>
    BY <1>0, <1>2, MarkCanceledFacts DEF gateway
  <2>2. PICK row \in Wallet!StoredFreespinsIssue :
           row.status = "canceled" /\ freespinsIssues' = [freespinsIssues EXCEPT ![i] = row]
    BY <1>0, <1>2, MarkCanceledFacts
  <2>3. State(i) = "canceled"
    BY <1>0, <1>2, MarkCanceledFacts DEF Accepted, Agrees, CancelCallAgrees
  <2>4. i \notin settled
    BY <1>0, <2>3 DEF Agrees, IssueAgrees
  <2>5. Precedence' /\ Agrees'
    BY <2>1, <2>2, <2>3, <2>4, WalletMoves
  <2> QED
    BY <1>0, <2>1, <2>5 DEF QueriesWhole
<1>3. ASSUME NEW i \in Issues, NEW heard \in BOOLEAN, DeliverFinish(i, heard)
      PROVE  Precedence' /\ Agrees' /\ QueriesWhole'
  <2>1. /\ State(i) = "finished" /\ UNCHANGED <<grant, sent, waiting, outcome, learned, size>>
        /\ settled' = IF heard /\ reply'.code = "200" THEN settled \cup {i} ELSE settled
    BY <1>3 DEF DeliverFinish
  <2>2. CASE /\ freespinsIssues' = freespinsIssues
             /\ reply'.code = "200" => Wallet!Status(i) = "finished"
    <3>1. \A j \in settled' : Wallet!Status(j) = "finished"
      BY <1>0, <2>1, <2>2 DEF Agrees, IssueAgrees, TypeOK
    <3>2. \A j \in Issues : Wallet!Status(j)' = Wallet!Status(j) /\ State(j)' = State(j)
      BY <2>1, <2>2 DEF Wallet!Status, State
    <3>3. \A j \in Issues : IssueAgrees(j)'
      BY <1>0, <2>1, <2>2, <3>1, <3>2 DEF Agrees, IssueAgrees
    <3>4. \A j \in Issues : IssueCallAgrees(j)' /\ CancelCallAgrees(j)'
      BY <2>1, CallsUnmoved
    <3>5. Precedence'
      BY <1>0, <2>1, <3>2 DEF Precedence, Recorded, Sent, Procedures
    <3> QED
      BY <1>0, <2>1, <3>3, <3>4, <3>5 DEF Agrees, QueriesWhole
  <2>3. ASSUME NEW row \in Wallet!StoredFreespinsIssue,
               row.status = "finished", row.amount = grant[i].amount,
               freespinsIssues' = [freespinsIssues EXCEPT ![i] = row]
        PROVE  Precedence' /\ Agrees' /\ QueriesWhole'
    <3>1. Precedence' /\ Agrees'
      BY <2>1, <2>3, WalletMoves
    <3> QED
      BY <1>0, <2>1, <3>1 DEF QueriesWhole
  <2> QED
    BY <1>0, <1>3, <2>2, <2>3, DeliverFacts
<1>4. ASSUME NEW i \in Issues, Play(i) PROVE Precedence' /\ Agrees' /\ QueriesWhole'
  <2>1. /\ State(i) = "issued"
        /\ UNCHANGED <<freespinsIssues, settled, size, sent, waiting, outcome, learned>>
    BY <1>4 DEF Play, wallet
  <2>2. grant[i] # None /\ grant[i].state = "issued"
    BY <2>1 DEF State
  <2>3. PICK s \in States, n \in Amounts \cup {0} :
           grant' = [grant EXCEPT ![i] = [state |-> s, terms |-> grant[i].terms, amount |-> n]]
    <3>1. "finished" \in States /\ "expired" \in States /\ grant[i].amount \in Amounts \cup {0}
      BY <1>0, <2>2 DEF States, Rows, TypeOK
    <3> QED
      BY <1>4, <3>1 DEF Play, Become, Grant
  <2>4. /\ grant'[i] = [state |-> s, terms |-> grant[i].terms, amount |-> n]
        /\ \A j \in Issues \ {i} : grant'[j] = grant[j]
    BY <1>0, <2>3 DEF TypeOK
  <2>5. grant'[i] \in Rows /\ grant'[i] # None /\ grant'[i].terms = grant[i].terms
    BY <1>0, <2>2, <2>4, LifecycleAssumption DEF TypeOK, Rows
  <2>6. Recorded(i) /\ (grant[i].terms = None => Sent("cancel", i))
    BY <1>0, <2>2 DEF Precedence
  <2>7. Precedence' /\ Agrees'
    BY <2>1, <2>2, <2>4, <2>5, <2>6, GatewayMoves DEF Agrees
  <2> QED
    BY <1>0, <2>1, <2>7 DEF QueriesWhole
<1>5. ASSUME NEW i \in Issues, NEW op \in Acknowledged, Arrive(<<op, i>>)
      PROVE  Precedence' /\ Agrees' /\ QueriesWhole'
  <2> DEFINE p == <<op, i>>
             q == <<IF op = "issue" THEN "cancel" ELSE "issue", i>>
  <2>1. /\ RequestOf(p) \in sent /\ p \in Procedures /\ waiting' \subseteq waiting
        /\ \A r \in Procedures \ {p} : outcome'[r] = outcome[r]
    BY <1>0, <1>5, ArriveFacts
  <2>2. PICK response \in Replies :
           /\ Handle(RequestOf(p), response)
           /\ \/ outcome'[p] = outcome[p]
              \/ outcome'[p].kind # "ok" /\ Retryable(outcome'[p])
              \/ outcome'[p] = Outcome(op, response)
    BY <1>0, <1>5, ArriveFacts
  <2>3. UNCHANGED <<freespinsIssues, settled, size, sent, learned>>
    BY <1>5 DEF Arrive, wallet
  <2>4. Recorded(i)
    BY <1>0, <2>1 DEF Precedence
  <2>5. /\ \A j \in Issues \ {i} : grant'[j] = grant[j]
        /\ grant'[i] \in Rows /\ grant'[i] # None
        /\ grant'[i].terms = None => Sent("cancel", i)
        /\ grant[i] # None => grant'[i].terms = grant[i].terms
        /\ grant[i] # None /\ grant[i].state # "issued" => grant'[i] = grant[i]
    <3>1. /\ Terms[i] # None /\ op \in {"issue", "cancel"}
      BY LifecycleAssumption DEF Acknowledged
    <3>2. grant[i] # None /\ grant[i].terms = None => Sent("cancel", i)
      BY <1>0 DEF Precedence
    <3> QED
      BY <1>0, <2>1, <2>2, <3>1, <3>2, HandleFacts DEF Sent
  <2>6. /\ Precedence' /\ State(i)' # "unheard"
        /\ \A j \in Issues :
              /\ IssueAgrees(j)'
              /\ outcome'[<<"issue", j>>] = outcome[<<"issue", j>>] => IssueCallAgrees(j)'
              /\ outcome'[<<"cancel", j>>] = outcome[<<"cancel", j>>] => CancelCallAgrees(j)'
    BY <2>1, <2>3, <2>4, <2>5, GatewayMoves
  <2>7. /\ op = "issue" => IssueCallAgrees(i)'
        /\ op = "cancel" => CancelCallAgrees(i)'
    <3>1. CASE outcome'[p] = outcome[p]
      BY <2>6, <3>1
    <3>2. CASE outcome'[p].kind # "ok" /\ Retryable(outcome'[p])
      BY <3>2 DEF IssueCallAgrees, CancelCallAgrees
    <3>3. CASE outcome'[p] = Outcome(op, response) /\ op = "issue"
      <4>1. CASE response = Ok /\ grant'[i].terms = Terms[i]
        <5>1. outcome'[p] = [kind |-> "ok", got |-> 0]
          BY <3>3, <4>1, Conclusive DEF Success
        <5> QED
          BY <2>6, <3>3, <4>1, <5>1 DEF IssueCallAgrees
      <4>2. CASE response = Refusal(605) /\ grant[i] # None /\ grant[i].terms = None
        <5>1. outcome'[p].kind = "api" /\ outcome'[p].code = 605
          BY <3>3, <4>2, Conclusive
        <5>2. Sent("cancel", i)'
          BY <1>0, <2>3, <4>2 DEF Precedence, Sent
        <5> QED
          BY <3>3, <5>1, <5>2 DEF IssueCallAgrees
      <4> QED
        BY <1>0, <2>2, <3>3, <4>1, <4>2, HandleFacts
    <3>4. CASE outcome'[p] = Outcome(op, response) /\ op = "cancel"
      <4>1. CASE response = Ok /\ grant'[i].state = "canceled"
        <5>1. outcome'[p] = [kind |-> "ok", got |-> 0]
          BY <3>4, <4>1, Conclusive DEF Success
        <5>2. State(i)' = "canceled"
          BY <2>5, <4>1 DEF State
        <5> QED
          BY <3>4, <5>1, <5>2 DEF CancelCallAgrees
      <4>2. CASE response = Refusal(620) /\ State(i) = "finished"
        <5>1. outcome'[p].kind = "api" /\ outcome'[p].code = 620
          BY <3>4, <4>2, Conclusive
        <5>2. State(i)' = "finished"
          BY <2>5, <4>2 DEF State
        <5> QED
          BY <3>4, <5>1, <5>2 DEF CancelCallAgrees
      <4>3. CASE response = Refusal(611) /\ State(i) = "expired"
        <5>1. outcome'[p].kind = "api" /\ outcome'[p].code = 611
          BY <3>4, <4>3, Conclusive
        <5>2. State(i)' = "expired"
          BY <2>5, <4>3 DEF State
        <5> QED
          BY <3>4, <5>1, <5>2 DEF CancelCallAgrees
      <4> QED
        BY <1>0, <2>2, <3>4, <4>1, <4>2, <4>3, HandleFacts
    <3> QED
      BY <2>2, <3>1, <3>2, <3>3, <3>4
  <2>8. ASSUME NEW j \in Issues PROVE IssueCallAgrees(j)' /\ CancelCallAgrees(j)'
    <3>1. <<"issue", j>> \in Procedures /\ <<"cancel", j>> \in Procedures
      BY DEF Procedures, Acknowledged
    <3>2. <<"issue", j>> # p => IssueCallAgrees(j)'
      BY <2>1, <2>6, <3>1
    <3>3. <<"cancel", j>> # p => CancelCallAgrees(j)'
      BY <2>1, <2>6, <3>1
    <3> QED
      BY <2>7, <3>2, <3>3
  <2> QED
    BY <1>0, <2>3, <2>6, <2>8 DEF Agrees, QueriesWhole
<1>6. ASSUME NEW p \in Procedures, Ask(p) PROVE Precedence' /\ Agrees' /\ QueriesWhole'
  <2>1. /\ UNCHANGED <<freespinsIssues, grant, settled, size, outcome, learned>>
        /\ Recorded(p[2]) /\ sent' = sent \cup {RequestOf(p)} /\ waiting' = waiting \cup {p}
    BY <1>6 DEF Ask, wallet, gateway
  <2>2. \A j \in Issues : /\ Recorded(j)' = Recorded(j) /\ State(j)' = State(j)
                          /\ Sent("cancel", j) => Sent("cancel", j)'
                          /\ Wallet!Status(j)' = Wallet!Status(j)
    BY <2>1 DEF Recorded, State, Sent, Wallet!Status
  <2>3. Precedence'
    <3>1. ASSUME NEW q \in Procedures, RequestOf(q) \in sent' PROVE Recorded(q[2])'
      <4>1. q[2] \in Issues
        BY DEF Procedures
      <4>2. RequestOf(q) \in sent \/ q = p
        BY <2>1, <3>1, RequestTells
      <4> QED
        BY <1>0, <2>1, <2>2, <4>1, <4>2 DEF Precedence
    <3>2. \A q \in waiting' : RequestOf(q) \in sent'
      BY <1>0, <2>1 DEF Precedence
    <3>3. \A j \in Issues : grant'[j] # None => Recorded(j)'
      BY <1>0, <2>1, <2>2 DEF Precedence
    <3>4. \A j \in Issues : grant'[j] # None /\ grant'[j].terms = None => Sent("cancel", j)'
      BY <1>0, <2>1, <2>2 DEF Precedence
    <3> QED
      BY <3>1, <3>2, <3>3, <3>4 DEF Precedence
  <2>4. ASSUME NEW j \in Issues
        PROVE  IssueAgrees(j)' /\ IssueCallAgrees(j)' /\ CancelCallAgrees(j)'
    <3>1. /\ IssueAgrees(j) /\ IssueCallAgrees(j) /\ CancelCallAgrees(j)
      BY <1>0 DEF Agrees
    <3>2. UNCHANGED <<freespinsIssues, grant, settled, outcome>>
      BY <2>1
    <3>3. IssueAgrees(j)'
      BY <2>2, <3>1, <3>2 DEF IssueAgrees
    <3>4. IssueCallAgrees(j)'
      BY <2>2, <3>1, <3>2 DEF IssueCallAgrees
    <3>5. CancelCallAgrees(j)'
      BY <2>2, <3>1, <3>2 DEF CancelCallAgrees
    <3> QED
      BY <3>3, <3>4, <3>5
  <2> QED
    BY <1>0, <2>1, <2>3, <2>4 DEF Agrees, QueriesWhole
<1>7. ASSUME NEW p \in Procedures, Fail(p) PROVE Precedence' /\ Agrees' /\ QueriesWhole'
  <2>1. /\ waiting' \subseteq waiting
        /\ \A q \in Procedures : \/ outcome'[q] = outcome[q]
                                 \/ outcome'[q].kind # "ok" /\ Retryable(outcome'[q])
        /\ UNCHANGED <<freespinsIssues, grant, settled, size, sent, learned>>
    BY <1>0, <1>7, FailFacts DEF wallet, gateway
  <2>2. \A j \in Issues : /\ Recorded(j)' = Recorded(j) /\ State(j)' = State(j)
                          /\ Sent("cancel", j)' = Sent("cancel", j)
                          /\ Wallet!Status(j)' = Wallet!Status(j)
    BY <2>1 DEF Recorded, State, Sent, Wallet!Status
  <2>3. Precedence'
    BY <1>0, <2>1, <2>2 DEF Precedence, Procedures
  <2>4. \A j \in Issues : IssueAgrees(j)'
    BY <1>0, <2>1, <2>2 DEF Agrees, IssueAgrees
  <2>5. ASSUME NEW j \in Issues PROVE IssueCallAgrees(j)' /\ CancelCallAgrees(j)'
    <3>1. <<"issue", j>> \in Procedures /\ <<"cancel", j>> \in Procedures
      BY DEF Procedures, Acknowledged
    <3>2. IssueCallAgrees(j)'
      BY <1>0, <2>1, <2>2, <3>1 DEF Agrees, IssueCallAgrees
    <3>3. CancelCallAgrees(j)'
      BY <1>0, <2>1, <2>2, <3>1 DEF Agrees, CancelCallAgrees
    <3> QED
      BY <3>2, <3>3
  <2> QED
    BY <1>0, <2>1, <2>3, <2>4, <2>5 DEF Agrees, QueriesWhole
<1>8. ASSUME NEW op \in Queries, Query(op) PROVE Precedence' /\ Agrees' /\ QueriesWhole'
  <2>1. /\ \A q \in Queries \ {op} : learned'[q] = learned[q]
        /\ learned'[op].kind = "ok" => learned'[op].got = size
        /\ ~SignatureError(learned'[op])
        /\ UNCHANGED <<freespinsIssues, grant, settled, size, sent, waiting, outcome>>
    BY <1>0, <1>8, QueryFacts DEF wallet, gateway
  <2>2. Precedence' /\ Agrees'
    BY <2>1, Unmoved
  <2>3. QueriesWhole'
    BY <1>0, <2>1 DEF QueriesWhole
  <2> QED
    BY <2>2, <2>3
<1>9. CASE UNCHANGED vars
  <2>1. UNCHANGED <<freespinsIssues, grant, settled, size, sent, waiting, outcome, learned>>
    BY <1>9 DEF vars, wallet, gateway
  <2> QED
    BY <1>0, <2>1, Unmoved DEF QueriesWhole
<1> QED
  BY <1>1, <1>2, <1>3, <1>4, <1>5, <1>6, <1>7, <1>8, <1>9, NextCases DEF Cases

-----------------------------------------------------------------------------
(* The theorems *)

(* The invariant is one: it holds at the start and every step keeps it.    *)
THEOREM LifecycleInvariant == Spec => []Inv
BY InvInit, InvStep, PTL DEF Spec

(* The invariant tells all that the properties say. *)
LEMMA InvTells == Inv => SidesAgree /\ RefusedForCause /\ ResultsWhole
<1> SUFFICES ASSUME Inv PROVE SidesAgree /\ RefusedForCause /\ ResultsWhole
  OBVIOUS
<1>1. SidesAgree
  BY DEF Inv, Agrees, IssueAgrees, IssueCallAgrees, CancelCallAgrees, SidesAgree, Accepted
<1>2. ASSUME NEW p \in Procedures, outcome[p].kind = "api", ~Retryable(outcome[p])
      PROVE  IF p[1] = "issue"
             THEN outcome[p].code = 605 /\ RequestOf(<<"cancel", p[2]>>) \in sent
             ELSE \/ outcome[p].code = 620 /\ State(p[2]) = "finished"
                  \/ outcome[p].code = 611 /\ State(p[2]) = "expired"
  <2>1. PICK i \in Issues : p[2] = i /\ (p = <<"issue", i>> \/ p = <<"cancel", i>>)
    BY ProcedureCases
  <2>2. IssueCallAgrees(i) /\ CancelCallAgrees(i)
    BY DEF Inv, Agrees
  <2>3. CASE p = <<"issue", i>>
    BY <1>2, <2>2, <2>3 DEF IssueCallAgrees, Sent
  <2>4. CASE p = <<"cancel", i>>
    BY <1>2, <2>2, <2>4 DEF CancelCallAgrees
  <2> QED
    BY <2>1, <2>3, <2>4
<1>3. RefusedForCause
  BY <1>2 DEF Inv, QueriesWhole, RefusedForCause
<1>4. ResultsWhole
  BY DEF Inv, QueriesWhole, ResultsWhole, Got
<1> QED
  BY <1>1, <1>3, <1>4

(* The wallet's table and the gateway's rows agree, and a call that        *)
(* returned without an error did what it says.                             *)
THEOREM SidesAlwaysAgree == Spec => []SidesAgree
BY LifecycleInvariant, InvTells, PTL

(* No call is refused but for what happened to the issue. *)
THEOREM RefusalsHaveCause == Spec => []RefusedForCause
BY LifecycleInvariant, InvTells, PTL

(* What the operator goes by is the gateway's whole answer. *)
THEOREM AnswersWhole == Spec => []ResultsWhole
BY LifecycleInvariant, InvTells, PTL

(* No result is ever refused as unknown or as canceled: the gateway's row  *)
(* is finished, so the wallet's is there and not canceled.                 *)
THEOREM FinishTaken == Spec => []FinishNeverRefused
<1>1. Init => FinishNeverRefused
  BY DEF Init, Wallet!Init, FinishNeverRefused
<1>2. Inv /\ FinishNeverRefused /\ [Next]_vars => FinishNeverRefused'
  <2> SUFFICES ASSUME Inv, FinishNeverRefused, [Next]_vars PROVE FinishNeverRefused'
    OBVIOUS
  <2>1. ASSUME NEW i \in Issues, NEW heard \in BOOLEAN, DeliverFinish(i, heard)
        PROVE  FinishNeverRefused'
    <3>1. State(i) = "finished"
      BY <2>1 DEF DeliverFinish
    <3>2. Wallet!Status(i) # "unknown"
      BY <3>1 DEF Inv, Precedence, Recorded, State
    <3>3. Wallet!Status(i) # "canceled"
      BY <3>1 DEF Inv, Agrees, IssueAgrees
    <3> QED
      BY <2>1, <3>2, <3>3, DeliverFacts DEF Inv, FinishNeverRefused
  <2>2. ASSUME Next, ~ \E i \in Issues, heard \in BOOLEAN : DeliverFinish(i, heard)
        PROVE  reply' \in {reply, None}
    BY <2>2 DEF Next, Ask, Arrive, Fail, Play, Query, Record, MarkCanceled, wallet,
       Wallet!RecordFreespinsIssue, Wallet!CancelFreespinsIssue
  <2>3. CASE UNCHANGED vars
    BY <2>3 DEF vars, wallet, FinishNeverRefused
  <2> QED
    BY <2>1, <2>2, <2>3 DEF FinishNeverRefused
<1> QED
  BY <1>1, <1>2, LifecycleInvariant, PTL DEF Spec

-----------------------------------------------------------------------------
(* The wallet of the lifecycle *)

Ledger == INSTANCE InMemoryWalletBooks
          WITH BetLimited <- {}, IdProviders <- {}, ProviderRounds <- {}, Goroutines <- {},
               BetWinRequests <- {}, RollbackRequests <- {}, ReadRequests <- {},
               FinishRequests <- {FinishRequest(i, n) : i \in Issues, n \in Amounts \cup {0}},
               MaxTx <- 0, Restarts <- FALSE

(* Being finite is the same here and there. *)
LEMMA FiniteForLedger ==
    ASSUME NEW S, IsFiniteSet(S)
    PROVE  Ledger!IsFiniteSet(S)
BY DEF IsFiniteSet, Ledger!IsFiniteSet

(* What the wallet assumes of its constants holds of those it has here.    *)
LEMMA LedgerAssumptions ==
    Ledger!AccountsAssumption /\ Ledger!RequestsAssumption /\ Ledger!NoneAssumption
<1>1. Ledger!AccountsAssumption
  BY LifecycleAssumption
<1>2. Ledger!RequestsAssumption
  <2>1. \A r \in {FinishRequest(i, n) : i \in Issues, n \in Amounts \cup {0}} :
           /\ r.route = "freespins_finish" /\ r.issue \in Issues
           /\ r.amount \in 0..MaxMoney
    BY LifecycleAssumption
  <2> QED
    BY <2>1
<1>3. Ledger!NoneAssumption
  <2>1. /\ Ledger!StoredTransaction = Wallet!StoredTransaction
        /\ Ledger!StoredFreespinsIssue = Wallet!StoredFreespinsIssue
    BY DEF Ledger!StoredTransaction, Wallet!StoredTransaction,
      Ledger!StoredFreespinsIssue, Wallet!StoredFreespinsIssue
  <2>2. Ledger!Locals = Wallet!Locals
    BY <2>1 DEF Ledger!Locals, Wallet!Locals, Ledger!BatchRequests, Wallet!BatchRequests
  <2> QED
    BY <2>1, <2>2, LifecycleAssumption
<1> QED
  BY <1>1, <1>2, <1>3

(* Delivering a result is the same step in both. *)
LEMMA FinishIsOfWallet ==
    ASSUME NEW r, Wallet!FreespinsFinish(r)
    PROVE  Ledger!FreespinsFinish(r)
<1> USE DEF Wallet!MutexFree, Ledger!MutexFree, Wallet!Status, Ledger!Status,
            Wallet!Respond, Ledger!Respond, Wallet!Answer, Ledger!Answer,
            Wallet!ledger, Ledger!ledger, Wallet!Lasting, Ledger!Lasting
<1>1. ASSUME NEW code, Wallet!FinishRefused(r, code) PROVE Ledger!FinishRefused(r, code)
  BY <1>1 DEF Wallet!FinishRefused, Ledger!FinishRefused, Wallet!Refusal, Ledger!Refusal
<1>2. CASE Wallet!FreespinsFinishUnknown(r)
  BY <1>1, <1>2 DEF Wallet!FreespinsFinishUnknown, Ledger!FreespinsFinishUnknown,
     Ledger!FreespinsFinish
<1>3. CASE Wallet!FreespinsFinishCanceled(r)
  BY <1>1, <1>3 DEF Wallet!FreespinsFinishCanceled, Ledger!FreespinsFinishCanceled,
     Ledger!FreespinsFinish
<1>4. CASE Wallet!FreespinsFinishNoAccount(r)
  BY <1>1, <1>4 DEF Wallet!FreespinsFinishNoAccount, Ledger!FreespinsFinishNoAccount,
     Wallet!Payable, Ledger!Payable, Ledger!FreespinsFinish
<1>5. CASE Wallet!FreespinsFinishUnreadable(r)
  BY <1>1, <1>5 DEF Wallet!FreespinsFinishUnreadable, Ledger!FreespinsFinishUnreadable,
     Wallet!Repeat, Ledger!Repeat, Ledger!FreespinsFinish
<1>6. CASE Wallet!FreespinsFinishReplay(r)
  BY <1>6 DEF Wallet!FreespinsFinishReplay, Ledger!FreespinsFinishReplay,
     Wallet!Repeat, Ledger!Repeat, Ledger!FreespinsFinish
<1>7. CASE Wallet!FreespinsFinishCredit(r)
  <2>1. Ledger!FreespinsFinishCredit(r)
    BY <1>7 DEF Wallet!FreespinsFinishCredit, Ledger!FreespinsFinishCredit,
       Wallet!Payable, Ledger!Payable, Wallet!SetIssue, Ledger!SetIssue
  <2> QED
    BY <2>1 DEF Ledger!FreespinsFinish
<1> QED
  BY <1>2, <1>3, <1>4, <1>5, <1>6, <1>7 DEF Wallet!FreespinsFinish

(* Every step of the lifecycle is one of the wallet or leaves it alone. *)
LEMMA StepIsOfWallet ==
    ASSUME TypeOK, [Next]_vars
    PROVE  [Ledger!Next]_(Ledger!vars)
<1>1. ASSUME NEW i \in Issues, Record(i) \/ MarkCanceled(i) PROVE Ledger!Next
  <2>1. CASE Record(i)
    <3>1. Ledger!RecordFreespinsIssue(i)
      BY <2>1 DEF Record, Wallet!RecordFreespinsIssue, Ledger!RecordFreespinsIssue,
         Wallet!MutexFree, Ledger!MutexFree, Wallet!Status, Ledger!Status,
         Wallet!SetIssue, Ledger!SetIssue
    <3> QED
      BY <3>1 DEF Ledger!Next
  <2>2. CASE MarkCanceled(i)
    <3>1. Ledger!CancelFreespinsIssue(i)
      BY <2>2 DEF MarkCanceled, Wallet!CancelFreespinsIssue, Ledger!CancelFreespinsIssue,
         Wallet!Cancelable, Ledger!Cancelable,
         Wallet!MutexFree, Ledger!MutexFree, Wallet!Status, Ledger!Status,
         Wallet!SetIssue, Ledger!SetIssue
    <3> QED
      BY <3>1 DEF Ledger!Next
  <2> QED
    BY <1>1, <2>1, <2>2
<1>2. ASSUME NEW i \in Issues, NEW heard \in BOOLEAN, DeliverFinish(i, heard)
      PROVE  Ledger!Next
  <2> DEFINE r == FinishRequest(i, grant[i].amount)
  <2>1. r \in {FinishRequest(j, n) : j \in Issues, n \in Amounts \cup {0}}
    <3>1. grant[i] # None /\ grant[i] \in Rows
      BY <1>2 DEF DeliverFinish, State, TypeOK
    <3> QED
      BY <3>1 DEF Rows
  <2>2. Wallet!FreespinsFinish(r)
    BY <1>2 DEF DeliverFinish
  <2> HIDE DEF r
  <2>3. Ledger!FreespinsFinish(r)
    BY <2>2, FinishIsOfWallet
  <2> QED
    BY <2>1, <2>3 DEF Ledger!Next
<1>3. ASSUME Next,
             ~ \E i \in Issues : Record(i) \/ MarkCanceled(i),
             ~ \E i \in Issues, heard \in BOOLEAN : DeliverFinish(i, heard)
      PROVE  UNCHANGED wallet
  BY <1>3 DEF Next, Ask, Arrive, Fail, Play, Query
<1>4. UNCHANGED vars => UNCHANGED wallet
  BY DEF vars
<1>5. UNCHANGED wallet => UNCHANGED Ledger!vars
  BY DEF wallet, Ledger!vars, Ledger!ledger
<1> QED
  BY <1>1, <1>2, <1>3, <1>4, <1>5 DEF Next

(* The lifecycle is a behaviour of the in-memory wallet, so what is proved  *)
(* of that holds here.                                                      *)
THEOREM WalletBehaves == Spec => Ledger!Spec
<1> DEFINE Fair(g) == WF_(Ledger!vars)(Ledger!Step(g))
<1>1. Init => Ledger!Init
  BY DEF Init, Wallet!Init, Ledger!Init
<1>2. TypeOK /\ [Next]_vars => [Ledger!Next]_(Ledger!vars)
  BY StepIsOfWallet
<1>3. \A g \in {} : Fair(g)
  <2> HIDE DEF Fair
  <2> QED
    OBVIOUS
<1> QED
  BY <1>1, <1>2, <1>3, LifecycleTypes, PTL DEF Spec, Ledger!Spec

(* An issue belongs to the account it was recorded for. *)
AccountsKept ==
    \A i \in Issues : freespinsIssues[i] # None => freespinsIssues[i].account = IssueAccount[i]

(* No step moves an issue to another account. *)
LEMMA StepKeepsAccounts ==
    ASSUME TypeOK, AccountsKept, [Next]_vars
    PROVE  AccountsKept'
<1>1. ASSUME NEW i \in Issues, NEW row, row.account = IssueAccount[i],
             freespinsIssues' = [freespinsIssues EXCEPT ![i] = row]
      PROVE  AccountsKept'
  BY <1>1 DEF AccountsKept, TypeOK
<1>2. ASSUME NEW i \in Issues, Record(i) PROVE AccountsKept'
  <2>1. PICK row : row = [account |-> IssueAccount[i], status |-> "issued",
                          amount |-> 0, balanceAfter |-> 0]
    OBVIOUS
  <2>2. row.account = IssueAccount[i]
    BY <2>1
  <2>3. freespinsIssues' = [freespinsIssues EXCEPT ![i] = row]
    BY <1>2, <2>1 DEF Record, Wallet!RecordFreespinsIssue, Wallet!SetIssue
  <2> QED
    BY <1>1, <2>2, <2>3
<1>3. ASSUME NEW i \in Issues, MarkCanceled(i) PROVE AccountsKept'
  <2>1. freespinsIssues[i] # None /\ freespinsIssues[i] \in Wallet!StoredFreespinsIssue
    BY <1>3 DEF MarkCanceled, Wallet!CancelFreespinsIssue, Wallet!Cancelable, Wallet!Status,
       TypeOK
  <2>2. PICK row : row = [freespinsIssues[i] EXCEPT !.status = "canceled"]
    OBVIOUS
  <2>3. row.account = IssueAccount[i]
    BY <2>1, <2>2 DEF AccountsKept, Wallet!StoredFreespinsIssue
  <2>4. freespinsIssues' = [freespinsIssues EXCEPT ![i] = row]
    BY <1>3, <2>2 DEF MarkCanceled, Wallet!CancelFreespinsIssue, Wallet!SetIssue
  <2> QED
    BY <1>1, <2>3, <2>4
<1>4. ASSUME NEW i \in Issues, NEW heard \in BOOLEAN, DeliverFinish(i, heard)
      PROVE  AccountsKept'
  <2> DEFINE r == FinishRequest(i, grant[i].amount)
  <2>1. Wallet!FreespinsFinish(r) /\ r.issue = i
    BY <1>4 DEF DeliverFinish, FinishRequest
  <2> HIDE DEF r
  <2>2. CASE freespinsIssues' = freespinsIssues
    BY <2>2 DEF AccountsKept
  <2>3. CASE Wallet!FreespinsFinishCredit(r)
    <3>1. freespinsIssues[i] # None
      BY <2>1, <2>3 DEF Wallet!FreespinsFinishCredit, Wallet!Payable, Wallet!Status
    <3>2. \E n, m : freespinsIssues' = [freespinsIssues EXCEPT ![i] =
             [account |-> freespinsIssues[i].account, status |-> "finished",
              amount |-> n, balanceAfter |-> m]]
      BY <2>1, <2>3 DEF Wallet!FreespinsFinishCredit, Wallet!SetIssue
    <3>3. PICK row : /\ row.account = freespinsIssues[i].account
                     /\ freespinsIssues' = [freespinsIssues EXCEPT ![i] = row]
      BY <3>2
    <3> QED
      BY <1>1, <3>1, <3>3 DEF AccountsKept
  <2> QED
    BY <2>1, <2>2, <2>3
    DEF Wallet!FreespinsFinish, Wallet!FreespinsFinishUnknown, Wallet!FreespinsFinishCanceled,
        Wallet!FreespinsFinishNoAccount, Wallet!FreespinsFinishUnreadable,
        Wallet!FreespinsFinishReplay, Wallet!FinishRefused, Wallet!ledger
<1>5. ASSUME [Next]_vars,
             ~ \E i \in Issues : Record(i) \/ MarkCanceled(i),
             ~ \E i \in Issues, heard \in BOOLEAN : DeliverFinish(i, heard)
      PROVE  AccountsKept'
  BY <1>5 DEF Next, vars, wallet, Ask, Arrive, Fail, Play, Query, AccountsKept
<1> QED
  BY <1>2, <1>3, <1>4, <1>5

(* The account's books in the wallet, where there are no bets and wins:     *)
(* its opening balance and what was paid.                                   *)
LEMMA BooksOfFreespins ==
    ASSUME IsFiniteSet(Issues), Ledger!TypeOK, Ledger!Books, NEW a \in Accounts
    PROVE  balance[a] = Opening[a]
              + Ledger!SumFunctionOnSet([i \in Issues |-> Ledger!Paid(a, i)], Issues)
<1>1. mu = None
  BY DEF Ledger!TypeOK
<1>2. ~Ledger!MayHaveClamped(a) /\ Ledger!Mine(a) = {}
  BY DEF Ledger!MayHaveClamped, Ledger!Mine
<1>3. balance[a] = Ledger!Due(a)
  BY <1>1, <1>2 DEF Ledger!Books, Ledger!Balanced
<1> DEFINE worth == [i \in {} |-> Ledger!Worth(i)]
           paid == [i \in Issues |-> Ledger!Paid(a, i)]
<1>0. Ledger!IsFiniteSet({}) /\ Ledger!IsFiniteSet(Issues)
  BY FS_EmptySet, FiniteForLedger
<1>4. Ledger!SumFunctionOnSet(worth, {}) = 0
  <2> HIDE DEF worth
  <2>1. \A x \in {} : worth[x] = 0
    OBVIOUS
  <2> QED
    BY <1>0, <2>1, LedgerAssumptions, Ledger!SumOfZeros
<1>5. Ledger!SumFunctionOnSet(paid, Issues) \in Int
  <2>1. \A i \in Issues : paid[i] \in Int
    BY DEF Ledger!Paid, Ledger!Status, Ledger!TypeOK, Ledger!StoredFreespinsIssue
  <2> HIDE DEF paid
  <2> QED
    BY <1>0, <2>1, LedgerAssumptions, Ledger!SumIsInt
<1>6. balance[a] = Opening[a] + Ledger!SumFunctionOnSet(worth, {})
                              + Ledger!SumFunctionOnSet(paid, Issues)
  BY <1>2, <1>3 DEF Ledger!Due
<1>7. Opening[a] \in Int
  BY LifecycleAssumption
<1> HIDE DEF worth, paid
<1>8. balance[a] = Opening[a] + Ledger!SumFunctionOnSet(paid, Issues)
  BY <1>4, <1>5, <1>6, <1>7
<1> QED
  BY <1>8 DEF paid

(* No winning is lost and none is paid twice: each account holds its        *)
(* opening balance and what the gateway says its finished issues won.       *)
THEOREM WinningsArePaidOnce ==
    ASSUME IsFiniteSet(Issues)
    PROVE  Spec => []WinningsPaidOnce
<1>1. Ledger!Spec => []Ledger!Books
  <2>1. Ledger!BatchesApart
    BY DEF Ledger!BatchesApart, Ledger!BatchRequests
  <2>2. Ledger!UndoneOnce
    BY DEF Ledger!UndoneOnce, Ledger!RollbackTxs
  <2>3. Ledger!FiniteBooks
    BY FS_EmptySet, FiniteForLedger DEF Ledger!FiniteBooks
  <2> QED
    BY <2>1, <2>2, <2>3, LedgerAssumptions, Ledger!BooksBalance
<1>2. Ledger!Spec => []Ledger!TypeOK
  BY LedgerAssumptions, Ledger!TypeCorrect
<1>3. Init => AccountsKept
  BY DEF Init, Wallet!Init, AccountsKept
<1>4. TypeOK /\ AccountsKept /\ [Next]_vars => AccountsKept'
  BY StepKeepsAccounts
<1>5. Ledger!TypeOK /\ Ledger!Books /\ SidesAgree /\ AccountsKept => WinningsPaidOnce
  <2> SUFFICES ASSUME Ledger!TypeOK, Ledger!Books, SidesAgree, AccountsKept, NEW a \in Accounts
               PROVE  balance[a] = Opening[a] + SumFunctionOnSet(
                         [i \in Issues |-> IF IssueAccount[i] = a /\ Wallet!Status(i) = "finished"
                                           THEN grant[i].amount ELSE 0], Issues)
    BY DEF WinningsPaidOnce
  <2> DEFINE paid == [i \in Issues |-> Ledger!Paid(a, i)]
             won == [i \in Issues |-> IF IssueAccount[i] = a /\ Wallet!Status(i) = "finished"
                                      THEN grant[i].amount ELSE 0]
  <2>1. paid = won
    <3>1. ASSUME NEW i \in Issues PROVE paid[i] = won[i]
      BY DEF Ledger!Paid, Ledger!Status, Wallet!Status, SidesAgree, AccountsKept
    <3> QED
      BY <3>1
  <2>2. balance[a] = Opening[a] + Ledger!SumFunctionOnSet(paid, Issues)
    BY BooksOfFreespins
  <2> HIDE DEF paid, won
  <2>3. Ledger!SumFunctionOnSet(won, Issues) = SumFunctionOnSet(won, Issues)
    BY DEF Ledger!SumFunctionOnSet, SumFunctionOnSet, Ledger!FoldFunctionOnSet,
       FoldFunctionOnSet, Ledger!MapThenFoldSet, MapThenFoldSet
  <2> QED
    BY <2>1, <2>2, <2>3 DEF won
<1> QED
  BY <1>1, <1>2, <1>3, <1>4, <1>5, WalletBehaves, LifecycleTypes, SidesAlwaysAgree, PTL DEF Spec
=============================================================================
