----------------------------- MODULE GatewayClient -----------------------------
(***************************************************************************)
(* The Client of launcher.go, which keeps no state between calls: what it  *)
(* puts on the wire, and what it makes of what comes back.                 *)
(*                                                                         *)
(* An operation stands for its path.  A signature is the pair of the       *)
(* secret and the bytes it is over.  A response has a status, the api_code *)
(* of its envelope (0 for none), the size of its JSON, and may break off.  *)
(* An api_code is a number.                                                *)
(***************************************************************************)
EXTENDS Integers

CONSTANTS
    CasinoID,       \* the operator's slug
    ApiSecret,      \* the secret shared with the gateway
    MaxResponse,    \* how much of a response is read (1 MiB)
    Unsigned        \* no signature

ASSUME ClientAssumption == MaxResponse \in Nat

(* The calls whose 200 is all there is to read, and those with a result.   *)
Acknowledged == {"issue", "cancel"}
Queries == {"launch_real", "launch_demo", "games", "levels"}

-----------------------------------------------------------------------------
(* What is sent *)

Sign(body) == <<ApiSecret, body>>

(* The operator's slug, whatever the caller put there. *)
WithCasinoID(req) ==
    [f \in DOMAIN req \cup {"casino_id"} |-> IF f = "casino_id" THEN CasinoID ELSE req[f]]

PostedSignedEarly(op, req) ==
    [op |-> op, body |-> WithCasinoID(req), signature |-> Sign(req)]

(* One POST: the bytes that are signed are the bytes that are sent. *)
Posted(op, req) ==
    LET body == WithCasinoID(req)
    IN [op |-> op, body |-> body, signature |-> Sign(body)]

(* The catalogue is public: a GET for the operator named, by default the   *)
(* client's own. *)
Listed(operator) ==
    [op |-> "games",
     body |-> [operator |-> IF operator = "" THEN CasinoID ELSE operator],
     signature |-> Unsigned]

-----------------------------------------------------------------------------
(* What comes back *)

Response(status, code, content) ==
    [status |-> status, code |-> code, content |-> content, broken |-> FALSE]

(* The same, if the connection breaks before its end. *)
Broken(response) ==
    [status |-> response.status, code |-> response.code, content |-> response.content,
     broken |-> TRUE]

(* Reading stops without an error at MaxResponse, and JSON that is cut     *)
(* there does not decode.                                                  *)
Decodes(response) == response.content <= MaxResponse

APIErrorUncoded(response) ==
    [kind |-> "api", status |-> response.status,
     code |-> IF Decodes(response) THEN response.code ELSE response.status]

(* An answer of the gateway.  What names no api_code, as the page of a     *)
(* proxy, is given the status for its code.                                *)
APIError(response) ==
    [kind |-> "api", status |-> response.status,
     code |-> IF Decodes(response) /\ response.code # 0 THEN response.code
                                                       ELSE response.status]

(* Any other error: a timeout, a broken connection, JSON cut short. *)
Failed == [kind |-> "failed"]

(* A result, with how much of the gateway's answer it holds. *)
Success(got) == [kind |-> "ok", got |-> got]

OutcomeStatusIgnored(op, response) ==
    IF response.broken THEN Failed
    ELSE IF op \in Acknowledged THEN Success(0)
    ELSE IF Decodes(response) THEN Success(response.content) ELSE Failed

OutcomeFailureIgnored(op, response) ==
    IF response.status # 200 /\ ~response.broken THEN APIError(response)
    ELSE IF op \in Acknowledged THEN Success(0)
    ELSE IF Decodes(response) THEN Success(response.content) ELSE Failed

OutcomeCut(op, response) ==
    IF response.broken THEN Failed
    ELSE IF response.status # 200 THEN APIError(response)
    ELSE IF op \in Acknowledged THEN Success(0)
    ELSE Success(IF Decodes(response) THEN response.content ELSE MaxResponse)

(* What a call returns.  A connection that broke, before the status or     *)
(* behind it, is an error although the gateway may have done its work.     *)
Outcome(op, response) ==
    IF response.broken THEN Failed
    ELSE IF response.status # 200 THEN APIError(response)
    ELSE IF op \in Acknowledged THEN Success(0)
    ELSE IF Decodes(response) THEN Success(response.content) ELSE Failed

Outcomes ==
    {Failed} \cup [kind : {"ok"}, got : 0..MaxResponse]
             \cup [kind : {"api"}, status : 400..599, code : 400..699]

(* Whether the call is worth repeating: errors that are no APIError say    *)
(* nothing of what the gateway did.                                        *)
Retryable(outcome) ==
    outcome.kind = "failed" \/ (outcome.kind = "api" /\ outcome.status >= 500)

SignatureError(outcome) == outcome.kind = "api" /\ outcome.code = 403
=============================================================================
