----------------------------- MODULE WalletServer -----------------------------
(***************************************************************************)
(* The callback server of wallet.go: one exchange with the platform, from  *)
(* the HTTP request (NewHandler) or a direct call (Dispatch), through the  *)
(* checks in their order, to the operator's handler and the answer.  The   *)
(* server value never changes once it is built and exchanges share nothing *)
(* else, so one exchange after another shows what many at once do.         *)
(*                                                                         *)
(* A path is the sequence of its segments, a body the number of its bytes  *)
(* and the fields json.Unmarshal finds in them; fields are classes of      *)
(* strings, "" for an absent one.  A signature is what was signed, with    *)
(* which secret.  The handler is the operator's own: it may answer, return *)
(* any error, or panic.                                                    *)
(*                                                                         *)
(* As in InMemoryWallet, an operator with a plausible mistake stands above *)
(* the one it would replace (LimitAtCap, ShortestFirst, ...).           *)
(***************************************************************************)
EXTENDS Integers, SequencesExt

CONSTANTS
    Servers,        \* the configurations NewWalletServer is called with
    Requests,       \* the requests that may arrive; the connection breaks
                    \* when `delivered' bytes of the body are through
    Paths,          \* their paths
    Bodies,         \* their bodies
    Contents,       \* the decoded fields of the bodies that are JSON
    Garbage,        \* the content of bytes json.Unmarshal refuses
    Currencies,     \* the strings that match CurrencyPattern
    Balances,       \* amounts a wallet error may carry
    LiteralErrors,  \* WalletErrors a handler builds without a constructor
    MaxInt,         \* the largest int64
    Forged,         \* a signature header that is no signature
    None            \* no route, body, error, answer, header or balance

(* The fields of all five requests; an amount is None when ParseMoney      *)
(* refuses its string.                                                     *)
WireTransaction ==
    [id_provider : STRING, type : STRING, amount : Nat \cup {None},
     original_id_provider : STRING]

WireRequest ==
    [account_id : STRING, currency : STRING, game_id : STRING, round_id : STRING,
     round_id_provider : STRING, issue_id : STRING, amount : Nat \cup {None},
     transactions : Seq(WireTransaction)]

RawBodies == [size : Nat, content : Contents \cup {Garbage}]
Empty == [size |-> 0, content |-> Garbage]

ASSUME BodiesAssumption ==
    /\ MaxInt \in Nat
    /\ Contents \subseteq WireRequest
    /\ Garbage \notin Contents
    /\ Bodies \subseteq RawBodies
    /\ \A b \in Bodies : b.size = 0 => b = Empty

ASSUME ServersAssumption ==
    Servers \subseteq
        [handler : BOOLEAN, freespins : BOOLEAN, apiSecret : STRING,
         maxBodyBytes : (-MaxInt)..MaxInt]

HMACs == [secret : STRING, body : RawBodies]
Signatures == HMACs \cup {Forged, None}

RequestType ==
    [entry : {"http", "dispatch"}, path : Paths, method : {"POST", "GET"},
     body : Bodies, delivered : Nat, signature : Signatures]

ASSUME RequestsAssumption == Requests \subseteq RequestType

ASSUME LiteralsAssumption == \A e \in LiteralErrors : e.origin = "literal"

VARIABLES
    server,     \* the WalletServer
    phase,      \* how far the exchange has come
    request,    \* what was sent
    route,      \* the route it was matched to
    rawBody,    \* the bytes Dispatch is given
    call,       \* the route the handler was called for
    outcome,    \* what the handler returned
    reply       \* what was written back

vars == <<server, phase, request, route, rawBody, call, outcome, reply>>

-----------------------------------------------------------------------------
(* Errors and their wire form *)

FundsCodes == {"100", "105", "106"}
ServerCodes == {"500", "503", "504"}    \* the codes that begin with a 5
(* The other codes behave alike: here are those with a constructor. *)
ClientCodes == {"101", "107", "110", "154", "400", "403", "404", "409", "605", "610"}
APICodes == FundsCodes \cup ServerCodes \cup ClientCodes

WalletError(status, twirp, code, balance, origin) ==
    [status |-> status, twirp |-> twirp, code |-> code, balance |-> balance,
     origin |-> origin]

ClientError(code, balance) ==
    WalletError(400, "invalid_argument", code, balance, "constructor")

ServerErrorTerminal(code) ==
    WalletError(400, "internal", code, None, "constructor")

ServerError(code) == WalletError(500, "internal", code, None, "constructor")

ErrBadRequest == ClientError("400", None)
ErrInvalidSignature == ClientError("403", None)
ErrNotFound == ClientError("404", None)
ErrInternal == ServerError("500")

(* The errors the dedicated constructors build, the balance a parameter of *)
(* those that concern funds.                                               *)
ConstructedErrors ==
    {ClientError(c, b) : c \in FundsCodes, b \in Balances}
      \cup {ClientError(c, None) : c \in ClientCodes}
      \cup {ServerError(c) : c \in {"500", "503"}}

(* The pairs WalletErrorWithAPICode turns down. *)
RefusedByEscape(code, balance) == code \in FundsCodes /\ balance = None

EscapedError(code, balance) ==
    IF code \in ServerCodes
    THEN WalletError(500, "internal", code, balance, "escape")
    ELSE WalletError(400, "invalid_argument", code, balance, "escape")

EscapedErrors ==
    {EscapedError(cb[1], cb[2]) :
        cb \in {x \in APICodes \X (Balances \cup {None}) : ~RefusedByEscape(x[1], x[2])}}

(* What a handler returns: a result, a WalletError anywhere in the error's *)
(* chain, another error, or a WalletError pointer that is nil.             *)
Outcomes ==
    {[kind |-> k, error |-> None] : k \in {"result", "other", "nil"}}
      \cup {[kind |-> "wallet", error |-> e] :
              e \in ConstructedErrors \cup EscapedErrors \cup LiteralErrors}

EnvelopeLenient(e) == FALSE

(* Envelope panics on a funds error that lost its balance. *)
EnvelopePanics(e) == e.code \in FundsCodes /\ e.balance = None

Answer(status, twirp, code, balance) ==
    [status |-> status, twirp |-> twirp, code |-> code, balance |-> balance]

ErrorAnswer(e) == Answer(e.status, e.twirp, e.code, e.balance)

ResultAnswer == Answer(200, None, None, None)

(* NewHandler's own answer to what is no callback: an HTTP 404. *)
MisroutedAnswer == Answer(404, "invalid_argument", "404", None)

-----------------------------------------------------------------------------
(* Routes *)

Segments ==
    [balance |-> <<"balance">>, betwin |-> <<"betwin">>, rollback |-> <<"rollback">>,
     finish |-> <<"finish">>, freespins_finish |-> <<"freespins", "finish">>]

Routes == DOMAIN Segments

ASSUME NoneAssumption ==
    /\ None \notin RequestType /\ None \notin RawBodies /\ None \notin Outcomes
    /\ None \notin Routes /\ None \notin APICodes /\ None \notin HMACs

TrimSlashes(path) ==
    SubSeq(path, 1, SelectLastInSeq(path, LAMBDA segment : segment # ""))

Matching(path) == {r \in Routes : IsSuffix(Segments[r], TrimSlashes(path))}

ShortestFirst(path) ==
    IF Matching(path) = {} THEN None
    ELSE CHOOSE r \in Matching(path) :
            \A q \in Matching(path) : Len(Segments[r]) <= Len(Segments[q])

RouteFromPath(path) ==
    IF Matching(path) = {} THEN None
    ELSE CHOOSE r \in Matching(path) :
            \A q \in Matching(path) : Len(Segments[q]) <= Len(Segments[r])

-----------------------------------------------------------------------------
(* Bodies *)

(* int64(maxBodyBytes)+1, which wraps. *)
Wrap(n) == IF n > MaxInt THEN n - 2 * (MaxInt + 1) ELSE n

LimitAtCap == Wrap(server.maxBodyBytes)

Limit == Wrap(server.maxBodyBytes + 1)

WantedUnguarded(body) == IF body.size <= Limit THEN body.size ELSE Limit

(* How many bytes ReadAll wants of a body. *)
Wanted(body) == IF body.size <= Limit THEN body.size ELSE IF Limit > 0 THEN Limit ELSE 0

(* The bytes it may get.  JSON cut short is JSON only if all that was cut  *)
(* was white space.                                                        *)
Cut(body) ==
    IF Wanted(body) = body.size THEN {body}
    ELSE IF Wanted(body) = 0 THEN {Empty}
    ELSE {[size |-> Wanted(body), content |-> c] : c \in {body.content, Garbage}}

Sign(body, secret) == [secret |-> secret, body |-> body]

VerifyPresence(body, signature, secret) == signature # None

Verify(body, signature, secret) ==
    /\ signature # None
    /\ signature = Sign(body, secret)

(* toRequest: the fields each route needs, and their shapes.               *)
Present(w, fields) == \A f \in fields : w[f] # ""

ValidCurrency(w) == w.currency \in Currencies

Positive(amount) == amount \in Nat \ {0}

IsBalanceRequest(w) == Present(w, {"account_id", "game_id"}) /\ ValidCurrency(w)

IsBetWinRequest(w) ==
    /\ w.transactions # <<>>
    /\ \A t \in Range(w.transactions) :
          t.id_provider # "" /\ t.type \in {"bet", "win"} /\ Positive(t.amount)
    /\ Present(w, {"account_id", "game_id", "round_id"}) /\ ValidCurrency(w)

IsRollbackRequest(w) ==
    /\ w.transactions # <<>>
    /\ \A t \in Range(w.transactions) :
          t.id_provider # "" /\ t.type = "rollback" /\ t.original_id_provider # ""
    /\ Present(w, {"account_id", "round_id_provider"}) /\ ValidCurrency(w)

IsFinishRequest(w) == Present(w, {"account_id", "round_id"}) /\ ValidCurrency(w)

(* The freespins may have won nothing. *)
IsFreespinsFinishRequest(w) == Present(w, {"issue_id"}) /\ w.amount \in Nat

IsRequest(r, w) ==
    \/ r = "balance" /\ IsBalanceRequest(w)
    \/ r = "betwin" /\ IsBetWinRequest(w)
    \/ r = "rollback" /\ IsRollbackRequest(w)
    \/ r = "finish" /\ IsFinishRequest(w)
    \/ r = "freespins_finish" /\ IsFreespinsFinishRequest(w)

-----------------------------------------------------------------------------
(* The exchange *)

(* What NewWalletServer accepts: a handler, and a secret that is not blank. *)
Accepted(s) == s.handler /\ s.apiSecret \notin {"", " "}

Init ==
    /\ server \in {s \in Servers : Accepted(s)}
    /\ phase = "idle"
    /\ request = None /\ route = None /\ rawBody = None
    /\ call = None /\ outcome = None /\ reply = None

Via(entry) == {r \in Requests : r.entry = entry}

(* An HTTP request reaches the mounted handler. *)
Receive ==
    /\ phase = "idle"
    /\ phase' = "routing"
    /\ request' \in Via("http")
    /\ UNCHANGED <<server, route, rawBody, call, outcome, reply>>

(* A transport of the operator's own calls Dispatch with what it made of a *)
(* request: any route, and bytes that need not be those that were sent.    *)
CallDispatch ==
    /\ phase = "idle"
    /\ phase' = "dispatch"
    /\ request' \in Via("dispatch")
    /\ route' \in Routes \cup {"unknown"}
    /\ rawBody' \in Bodies
    /\ UNCHANGED <<server, call, outcome, reply>>

Write(answer) ==
    /\ phase' = "answered"
    /\ reply' = answer
    /\ UNCHANGED <<server, request, route, rawBody, call, outcome>>

IsCallback == RouteFromPath(request.path) # None /\ request.method = "POST"

Misrouted ==
    /\ phase = "routing"
    /\ ~IsCallback
    /\ Write(MisroutedAnswer)

ReadFails ==
    /\ phase = "routing"
    /\ IsCallback
    /\ request.delivered < Wanted(request.body)
    /\ Write(ErrorAnswer(ErrBadRequest))

ReadBody ==
    /\ phase = "routing"
    /\ IsCallback
    /\ request.delivered >= Wanted(request.body)
    /\ phase' = "dispatch"
    /\ route' = RouteFromPath(request.path)
    /\ rawBody' \in Cut(request.body)
    /\ UNCHANGED <<server, request, call, outcome, reply>>

(* dispatch without the test for a nil s.freespins. *)
ServesAll(r) == r \in Routes

Serves(r) == r \in Routes /\ (r = "freespins_finish" => server.freespins)

TooLargeAtCap(body) == body.size >= server.maxBodyBytes

TooLarge(body) == body.size > server.maxBodyBytes

RefuseRoute ==
    /\ phase = "dispatch"
    /\ ~Serves(route)
    /\ Write(ErrorAnswer(ErrNotFound))

RefuseOversize ==
    /\ phase = "dispatch"
    /\ Serves(route)
    /\ TooLarge(rawBody)
    /\ Write(ErrorAnswer(ErrBadRequest))

Authentic == Verify(rawBody, request.signature, server.apiSecret)

RefuseSignature ==
    /\ phase = "dispatch"
    /\ Serves(route)
    /\ ~TooLarge(rawBody)
    /\ ~Authentic
    /\ Write(ErrorAnswer(ErrInvalidSignature))

Authenticate ==
    /\ phase = "dispatch"
    /\ Serves(route)
    /\ ~TooLarge(rawBody)
    /\ Authentic
    /\ phase' = "verified"
    /\ UNCHANGED <<server, request, route, rawBody, call, outcome, reply>>

RefuseMalformed ==
    /\ phase = "verified"
    /\ rawBody.content = Garbage
    /\ Write(ErrorAnswer(ErrBadRequest))

RefuseInvalid ==
    /\ phase = "verified"
    /\ rawBody.content # Garbage
    /\ ~IsRequest(route, rawBody.content)
    /\ Write(ErrorAnswer(ErrBadRequest))

CallHandler ==
    /\ phase = "verified"
    /\ rawBody.content # Garbage
    /\ IsRequest(route, rawBody.content)
    /\ phase' = "handling"
    /\ call' = route
    /\ UNCHANGED <<server, request, route, rawBody, outcome, reply>>

HandlerReturns ==
    /\ phase = "handling"
    /\ phase' = "encoding"
    /\ outcome' \in Outcomes
    /\ UNCHANGED <<server, request, route, rawBody, call, reply>>

(* Nothing between the socket and the handler recovers a panic but         *)
(* net/http itself, which closes the connection without an answer.         *)
Abort ==
    /\ phase' = "aborted"
    /\ UNCHANGED <<server, request, route, rawBody, call, outcome, reply>>

HandlerPanics == phase = "handling" /\ Abort

EncodeResult ==
    /\ phase = "encoding"
    /\ outcome.kind = "result"
    /\ Write(ResultAnswer)

OpaqueTerminal == ErrBadRequest

(* What an error that is no WalletError is answered with. *)
Opaque == ErrInternal

EncodeOther ==
    /\ phase = "encoding"
    /\ outcome.kind = "other"
    /\ Write(ErrorAnswer(Opaque))

EncodeWalletError ==
    /\ phase = "encoding"
    /\ outcome.kind = "wallet" /\ ~EnvelopePanics(outcome.error)
    /\ Write(ErrorAnswer(outcome.error))

EncodePanics ==
    /\ phase = "encoding"
    /\ \/ outcome.kind = "nil"
       \/ outcome.kind = "wallet" /\ EnvelopePanics(outcome.error)
    /\ Abort

(* The exchange is over and its locals are gone. *)
Close ==
    /\ phase \in {"answered", "aborted"}
    /\ phase' = "idle"
    /\ request' = None /\ route' = None /\ rawBody' = None
    /\ call' = None /\ outcome' = None /\ reply' = None
    /\ UNCHANGED server

Next ==
    \/ Receive \/ CallDispatch
    \/ Misrouted \/ ReadFails \/ ReadBody
    \/ RefuseRoute \/ RefuseOversize \/ RefuseSignature \/ Authenticate
    \/ RefuseMalformed \/ RefuseInvalid \/ CallHandler
    \/ HandlerReturns \/ HandlerPanics
    \/ EncodeResult \/ EncodeOther \/ EncodeWalletError \/ EncodePanics
    \/ Close

Spec == Init /\ [][Next]_vars

-----------------------------------------------------------------------------
(* Properties *)

Answers ==
    {MisroutedAnswer, ResultAnswer, ErrorAnswer(ErrNotFound), ErrorAnswer(ErrBadRequest),
     ErrorAnswer(ErrInvalidSignature), ErrorAnswer(ErrInternal)}
      \cup {ErrorAnswer(e) : e \in ConstructedErrors \cup EscapedErrors \cup LiteralErrors}

(* Every variable has its type, and each phase has what the code of that   *)
(* phase reads: Dispatch a body of some size and, once the handler ran, an *)
(* outcome (wallet.go dispatch, NewHandler).                               *)
TypeOK ==
    /\ server \in Servers
    /\ phase \in {"idle", "routing", "dispatch", "verified", "handling",
                  "encoding", "answered", "aborted"}
    /\ request \in RequestType \cup {None}
    /\ route \in Routes \cup {"unknown", None}
    /\ rawBody \in RawBodies \cup {None}
    /\ call \in Routes \cup {None}
    /\ outcome \in Outcomes \cup {None}
    /\ reply \in Answers \cup {None}
    /\ phase # "idle" => request # None
    /\ phase \in {"dispatch", "verified", "handling", "encoding"} => rawBody # None
    /\ phase = "encoding" => outcome # None

(* The handler runs only for bytes that carry the operator's own signature *)
(* and fit the cap, on a route it implements, with a batch that is not     *)
(* empty and amounts a wallet may apply without looking (wire_convert.go:  *)
(* "a handler never has to ... wonder whether an amount is a number").     *)
(* Behind NewHandler those bytes are the whole body that was sent, by      *)
(* POST, to a path that ends with the route.                               *)
OnlyGenuineHandled ==
    call # None =>
        /\ request.signature = Sign(rawBody, server.apiSecret)
        /\ rawBody.size <= server.maxBodyBytes
        /\ call = "freespins_finish" => server.freespins
        /\ call \in {"betwin", "rollback"} => rawBody.content.transactions # <<>>
        /\ call = "betwin" =>
              \A t \in Range(rawBody.content.transactions) : t.amount \in Nat \ {0}
        /\ call = "freespins_finish" => rawBody.content.amount \in Nat
        /\ request.entry = "http" =>
              /\ rawBody = request.body
              /\ request.method = "POST"
              /\ IsSuffix(Segments[call], TrimSlashes(request.path))

(* A freespins result posted to a path under any mount never reaches the   *)
(* round's Finish, although "/freespins/finish" ends with "/finish" too    *)
(* (routesLongestFirst).                                                   *)
FreespinsNeverFinish ==
    /\ request # None
    /\ request.entry = "http"
    /\ IsSuffix(Segments["freespins_finish"], TrimSlashes(request.path))
    => call # "finish"

(* A callback this wallet serves, whole, within the cap, rightly signed and *)
(* valid for the route of its path. *)
Genuine(r) ==
    LET to == RouteFromPath(r.path)
    IN /\ r.entry = "http" /\ r.method = "POST"
       /\ to # None /\ Serves(to)
       /\ r.delivered >= r.body.size
       /\ r.body.size <= server.maxBodyBytes
       /\ r.signature = Sign(r.body, server.apiSecret)
       /\ r.body.content # Garbage /\ IsRequest(to, r.body.content)

(* No genuine callback is answered without the handler having seen it: the *)
(* checks of NewHandler and dispatch turn away nothing they should pass.   *)
GenuineServed == phase = "answered" /\ Genuine(request) => call # None

(* A callback whose body exceeds the cap is answered "request body too     *)
(* large", 400, and never as a bad signature, which is what its truncated  *)
(* bytes would be: NewHandler reads one byte past the cap to tell.         *)
OversizeNamed ==
    /\ phase = "answered"
    /\ request.entry = "http" /\ IsCallback /\ Serves(RouteFromPath(request.path))
    /\ request.body.size > server.maxBodyBytes
    => reply = ErrorAnswer(ErrBadRequest)

(* HTTP 500 asks the platform to try again with the same id_provider.  It  *)
(* is answered exactly when the handler ran and failed in a way that may   *)
(* pass: with an error that is no WalletError, or with one of its own      *)
(* whose code begins with a 5.  What the server refuses by itself would be *)
(* refused again and is never a 500.                                       *)
RetryIsMeant ==
    phase = "answered" =>
        (reply.status = 500 <=>
            /\ call # None
            /\ \/ outcome.kind = "other"
               \/ /\ outcome.kind = "wallet"
                  /\ \/ outcome.error.origin = "literal" /\ outcome.error.status = 500
                     \/ /\ outcome.error.origin # "literal"
                        /\ outcome.error.code \in ServerCodes)

(* An answer with api_code 100, 105 or 106 carries the player's balance,   *)
(* however the handler built the error (errors.go IsFundsRelatedCode: the  *)
(* platform would show a wrong balance and not complain).                  *)
FundsCarryBalance ==
    reply # None /\ reply.code \in FundsCodes => reply.balance # None

=============================================================================
