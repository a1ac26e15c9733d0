-------------------------- MODULE WalletServerProofs --------------------------
(* Proofs about WalletServer.  Every property the run server_exchange       *)
(* checks holds for all servers, requests and handlers; the two that say    *)
(* what must not be refused need a cap that cap + 1 does not wrap.          *)
EXTENDS WalletServer, TLAPS

(* What ReadAll may return is a body: a read never ends before its first   *)
(* byte or after the last one (io.LimitReader over r.Body).                *)
LEMMA CutIsABody ==
    ASSUME server \in Servers, NEW b \in Bodies
    PROVE  Cut(b) \subseteq RawBodies
<1>1. /\ server.maxBodyBytes \in Int /\ b.size \in Nat /\ b \in RawBodies
      /\ b.content \in Contents \cup {Garbage}
      BY BodiesAssumption, ServersAssumption DEF RawBodies
<1>2. Limit \in Int
      BY <1>1, BodiesAssumption DEF Limit, Wrap
<1>3. Wanted(b) \in Nat
      BY <1>1, <1>2 DEF Wanted
<1> QED BY <1>1, <1>3 DEF Cut, RawBodies, Empty

(* Only the freespins route has two segments (types.go Routes).            *)
LEMMA RouteLengths ==
    ASSUME NEW r \in Routes
    PROVE  Len(Segments[r]) = IF r = "freespins_finish" THEN 2 ELSE 1
<1>1. CASE r = "freespins_finish"
      BY <1>1 DEF Segments
<1>2. CASE r # "freespins_finish"
  <2>1. r \in {"balance", "betwin", "rollback", "finish"}
        BY <1>2 DEF Routes, Segments
  <2>2. Len(Segments[r]) = 1
        BY <2>1 DEF Segments
  <2> QED BY <1>2, <2>2
<1> QED BY <1>1, <1>2

(* A path that matches a route is resolved to the longest route that       *)
(* matches it (RouteFromPath, routesLongestFirst).                         *)
LEMMA LongestRouteWins ==
    ASSUME NEW path, Matching(path) # {}
    PROVE  /\ RouteFromPath(path) \in Matching(path)
           /\ RouteFromPath(path) \in Routes
           /\ \A q \in Matching(path) :
                 Len(Segments[q]) <= Len(Segments[RouteFromPath(path)])
<1>1. Matching(path) \subseteq Routes
      BY DEF Matching
<1>2. \E r \in Matching(path) :
         \A q \in Matching(path) : Len(Segments[q]) <= Len(Segments[r])
  <2>1. CASE \E r \in Matching(path) : r = "freespins_finish"
    <3>1. PICK r \in Matching(path) : r = "freespins_finish"
          BY <2>1
    <3>2. Len(Segments[r]) = 2
          BY <1>1, <3>1, RouteLengths
    <3>3. \A q \in Matching(path) : Len(Segments[q]) <= 2
          BY <1>1, RouteLengths
    <3> QED BY <3>2, <3>3
  <2>2. CASE \A r \in Matching(path) : r # "freespins_finish"
    <3>1. PICK r \in Matching(path) : TRUE
          OBVIOUS
    <3>2. \A q \in Matching(path) : Len(Segments[q]) = 1
          BY <2>2, <1>1, RouteLengths
    <3> QED BY <3>1, <3>2
  <2> QED BY <2>1, <2>2
<1> QED BY <1>1, <1>2 DEF RouteFromPath

(* None of the routes is None: a match is told from no match.              *)
LEMMA RouteFromPathIsARoute ==
    ASSUME NEW path
    PROVE  RouteFromPath(path) \in Routes \cup {None}
<1>1. CASE Matching(path) = {}
      BY <1>1 DEF RouteFromPath
<1>2. CASE Matching(path) # {}
      BY <1>2, LongestRouteWins
<1> QED BY <1>1, <1>2

-----------------------------------------------------------------------------
(* Type correctness *)

(* One step of the exchange keeps the types.                               *)
LEMMA TypeStep == TypeOK /\ [Next]_vars => TypeOK'
<1> SUFFICES ASSUME TypeOK, [Next]_vars
             PROVE  TypeOK'
    OBVIOUS
<1> USE DEF TypeOK
<1>a. /\ ErrorAnswer(ErrNotFound) \in Answers /\ ErrorAnswer(ErrBadRequest) \in Answers
      /\ ErrorAnswer(ErrInvalidSignature) \in Answers /\ ErrorAnswer(ErrInternal) \in Answers
      /\ MisroutedAnswer \in Answers /\ ResultAnswer \in Answers
      BY DEF Answers
<1>b. None \notin RequestType /\ None \notin RawBodies /\ Requests \subseteq RequestType
      BY NoneAssumption, RequestsAssumption
<1>c. \A o \in Outcomes : o # None
      BY NoneAssumption DEF Outcomes
<1>1. CASE Receive
      BY <1>1, <1>b DEF Receive, Via
<1>2. CASE CallDispatch
  <2>1. request' \in RequestType /\ rawBody' \in RawBodies
        BY <1>2, <1>b, BodiesAssumption DEF CallDispatch, Via
  <2> QED BY <1>2, <1>b, <2>1 DEF CallDispatch
<1>3. CASE ReadBody
  <2>1. request \in RequestType
        BY <1>3 DEF ReadBody
  <2>2. request.body \in Bodies
        BY <2>1 DEF RequestType
  <2>3. rawBody' \in RawBodies
        BY <1>3, <2>2, CutIsABody DEF ReadBody
  <2>4. route' \in Routes \cup {None}
        BY <1>3, RouteFromPathIsARoute DEF ReadBody
  <2> QED BY <1>3, <1>b, <2>3, <2>4 DEF ReadBody
<1>4. CASE Misrouted \/ ReadFails \/ RefuseRoute \/ RefuseOversize \/ RefuseSignature
             \/ RefuseMalformed \/ RefuseInvalid \/ EncodeResult \/ EncodeOther
      BY <1>4, <1>a DEF Misrouted, ReadFails, RefuseRoute, RefuseOversize, RefuseSignature,
         RefuseMalformed, RefuseInvalid, EncodeResult, EncodeOther, Opaque, Write
<1>5. CASE Authenticate
      BY <1>5 DEF Authenticate
<1>6. CASE CallHandler
  <2>1. route \in Routes
        BY <1>6 DEF CallHandler, IsRequest, Routes, Segments
  <2> QED BY <1>6, <2>1 DEF CallHandler
<1>7. CASE HandlerReturns
      BY <1>7, <1>c DEF HandlerReturns
<1>8. CASE HandlerPanics \/ EncodePanics
      BY <1>8 DEF HandlerPanics, EncodePanics, Abort
<1>9. CASE EncodeWalletError
  <2>1. outcome \in Outcomes
        BY <1>9 DEF EncodeWalletError
  <2>2. outcome.error \in ConstructedErrors \cup EscapedErrors \cup LiteralErrors
        BY <1>9, <2>1 DEF EncodeWalletError, Outcomes
  <2>3. ErrorAnswer(outcome.error) \in Answers
        BY <2>2 DEF Answers
  <2> QED BY <1>9, <2>3 DEF EncodeWalletError, Write
<1>10. CASE Close
      BY <1>10 DEF Close
<1>11. CASE UNCHANGED vars
      BY <1>11 DEF vars
<1> QED BY <1>1, <1>2, <1>3, <1>4, <1>5, <1>6, <1>7, <1>8, <1>9, <1>10, <1>11 DEF Next

(* The server's variables keep their types through every check, outcome    *)
(* and panic (NewHandler, Dispatch).                                       *)
THEOREM TypeCorrect == Spec => []TypeOK
<1>1. Init => TypeOK
      BY DEF Init, TypeOK
<1> QED BY <1>1, TypeStep, PTL DEF Spec

-----------------------------------------------------------------------------
(* What each phase knows *)

(* Before Dispatch nothing is known; before the handler it was not called. *)
Fresh ==
    /\ phase \in {"idle", "routing"} => rawBody = None
    /\ phase = "routing" => request.entry = "http"
    /\ phase \in {"idle", "routing", "dispatch", "verified"} => call = None
    /\ phase # "answered" => reply = None

(* Behind NewHandler, Dispatch is given the route of the path and what was *)
(* read of the body.                                                       *)
Delivered ==
    rawBody # None /\ request.entry = "http" =>
        /\ IsCallback
        /\ route = RouteFromPath(request.path)
        /\ rawBody \in Cut(request.body)

(* Past the signature all checks of dispatch have passed. *)
Passed ==
    phase \in {"verified", "handling", "encoding"} \/ call # None =>
        rawBody # None /\ Serves(route) /\ ~TooLarge(rawBody) /\ Authentic

(* The handler is called for the route and with a valid request. *)
Called ==
    /\ phase \in {"handling", "encoding"} => call # None
    /\ call # None =>
          call = route /\ rawBody.content # Garbage /\ IsRequest(route, rawBody.content)

(* An answer without a call names the check that failed. *)
Refused ==
    phase = "answered" /\ call = None =>
        \/ /\ rawBody = None /\ request.entry = "http"
           /\ \/ ~IsCallback /\ reply = MisroutedAnswer
              \/ /\ IsCallback /\ request.delivered < Wanted(request.body)
                 /\ reply = ErrorAnswer(ErrBadRequest)
        \/ rawBody # None /\ ~Serves(route) /\ reply = ErrorAnswer(ErrNotFound)
        \/ rawBody # None /\ TooLarge(rawBody) /\ reply = ErrorAnswer(ErrBadRequest)
        \/ /\ rawBody # None /\ ~TooLarge(rawBody) /\ ~Authentic
           /\ reply = ErrorAnswer(ErrInvalidSignature)
        \/ /\ rawBody # None /\ ~TooLarge(rawBody)
           /\ rawBody.content = Garbage \/ ~IsRequest(route, rawBody.content)
           /\ reply = ErrorAnswer(ErrBadRequest)

(* An answer after a call is the encoding of what the handler returned. *)
Settled ==
    phase = "answered" /\ call # None =>
        /\ outcome # None
        /\ \/ outcome.kind = "result" /\ reply = ResultAnswer
           \/ outcome.kind = "other" /\ reply = ErrorAnswer(ErrInternal)
           \/ /\ outcome.kind = "wallet" /\ ~EnvelopePanics(outcome.error)
              /\ reply = ErrorAnswer(outcome.error)

Knowledge == Fresh /\ Delivered /\ Passed /\ Called /\ Refused /\ Settled

(* A step that leaves the request and what Dispatch was given alone leaves *)
(* the verdicts on them alone.                                             *)
LEMMA VerdictsKept ==
    ASSUME UNCHANGED <<server, request, route, rawBody>>
    PROVE  /\ (IsCallback <=> IsCallback') /\ (Serves(route) <=> Serves(route)')
           /\ (TooLarge(rawBody) <=> TooLarge(rawBody)') /\ (Authentic <=> Authentic')
           /\ Wanted(request.body)' = Wanted(request.body)
           /\ Cut(request.body)' = Cut(request.body)
BY DEF IsCallback, Serves, TooLarge, Authentic, Cut, Wanted, Limit

(* The checks of NewHandler and dispatch run in one order, and each phase  *)
(* keeps what the ones before it established.                              *)
LEMMA KnowledgeStep == TypeOK /\ Knowledge /\ [Next]_vars => Knowledge'
<1> SUFFICES ASSUME TypeOK, Knowledge, [Next]_vars
             PROVE  Knowledge'
    OBVIOUS
<1> USE DEF Knowledge, Fresh
<1>1. CASE Receive
      BY <1>1 DEF Receive, Via, Delivered, Passed, Called, Refused, Settled
<1>2. CASE CallDispatch
      BY <1>2, NoneAssumption
      DEF CallDispatch, Via, Delivered, Passed, Called, Refused, Settled
<1>3. CASE ReadBody
  <2>1. Delivered'
    <3>1. /\ IsCallback' <=> IsCallback
          /\ Cut(request.body)' = Cut(request.body)
          BY <1>3 DEF ReadBody, IsCallback, Cut, Wanted, Limit
    <3> QED BY <1>3, <3>1 DEF ReadBody, Delivered
  <2> QED BY <1>3, <2>1 DEF ReadBody, Passed, Called, Refused, Settled
<1>4. CASE Misrouted \/ ReadFails
      BY <1>4, VerdictsKept
      DEF Misrouted, ReadFails, Write, Delivered, Passed, Called, Refused, Settled
<1>5. CASE RefuseRoute \/ RefuseOversize \/ RefuseSignature
      BY <1>5, VerdictsKept
      DEF RefuseRoute, RefuseOversize, RefuseSignature, Write, TypeOK,
          Delivered, Passed, Called, Refused, Settled
<1>6. CASE RefuseMalformed \/ RefuseInvalid
      BY <1>6, VerdictsKept
      DEF RefuseMalformed, RefuseInvalid, Write, Delivered, Passed, Called, Refused, Settled
<1>7. CASE Authenticate
      BY <1>7, VerdictsKept
      DEF Authenticate, TypeOK, Delivered, Passed, Called, Refused, Settled
<1>8. CASE CallHandler
  <2>1. route # None
    <3>1. route \in Routes
          BY <1>8 DEF CallHandler, IsRequest, Routes, Segments
    <3> QED BY <3>1, NoneAssumption
  <2> QED BY <1>8, <2>1, VerdictsKept
          DEF CallHandler, Delivered, Passed, Called, Refused, Settled
<1>9. CASE HandlerReturns
      BY <1>9, VerdictsKept DEF HandlerReturns, Delivered, Passed, Called, Refused, Settled
<1>10. CASE HandlerPanics \/ EncodePanics
      BY <1>10, VerdictsKept
      DEF HandlerPanics, EncodePanics, Abort, Delivered, Passed, Called, Refused, Settled
<1>11. CASE EncodeResult \/ EncodeOther \/ EncodeWalletError
      BY <1>11, VerdictsKept
      DEF EncodeResult, EncodeOther, EncodeWalletError, Opaque, Write, TypeOK,
          Delivered, Passed, Called, Refused, Settled
<1>12. CASE Close
      BY <1>12 DEF Close, Delivered, Passed, Called, Refused, Settled
<1>13. CASE UNCHANGED vars
      BY <1>13, VerdictsKept DEF vars, Delivered, Passed, Called, Refused, Settled
<1> QED BY <1>1, <1>2, <1>3, <1>4, <1>5, <1>6, <1>7, <1>8, <1>9, <1>10, <1>11, <1>12,
           <1>13 DEF Next

(* Every state of an exchange knows what its phase promises (NewHandler,   *)
(* dispatch).                                                              *)
LEMMA KnowledgeHolds == Spec => [](TypeOK /\ Knowledge)
<1>1. Init => Knowledge
      BY DEF Init, Knowledge, Fresh, Delivered, Passed, Called, Refused, Settled
<1> QED BY <1>1, KnowledgeStep, TypeCorrect, PTL DEF Spec

-----------------------------------------------------------------------------
(* The properties *)

(* What is read of a body and is no larger than the cap is the whole body, *)
(* unless cap + 1 wrapped and nothing was read at all (NewHandler).        *)
LEMMA SmallIsWhole ==
    ASSUME TypeOK, NEW b \in Bodies, NEW raw \in Cut(b), ~TooLarge(raw),
           raw.content # Garbage
    PROVE  raw = b
<1>1. /\ server.maxBodyBytes \in Int /\ MaxInt \in Nat
      /\ server.maxBodyBytes <= MaxInt /\ b.size \in Nat
      BY BodiesAssumption, ServersAssumption DEF TypeOK, RawBodies
<1>2. CASE Wanted(b) = b.size
      BY <1>2 DEF Cut
<1>3. CASE Wanted(b) # b.size /\ Wanted(b) = 0
      BY <1>3 DEF Cut, Empty
<1>4. CASE Wanted(b) # b.size /\ Wanted(b) # 0
  <2>1. Wanted(b) = Limit
        BY <1>4 DEF Wanted
  <2>2. raw.size = Limit
        BY <1>4, <2>1 DEF Cut
  <2>3. Limit \in Int /\ Limit > 0
        BY <1>1, <1>4 DEF Wanted, Limit, Wrap
  <2>4. Limit = server.maxBodyBytes + 1
        BY <1>1, <2>3 DEF Limit, Wrap
  <2> QED BY <1>1, <2>2, <2>4 DEF TooLarge
<1> QED BY <1>2, <1>3, <1>4

(* The handler never sees bytes that were not signed with the operator's   *)
(* secret, are not the whole body, or do not make a request it can apply   *)
(* without looking (dispatch, toRequest).                                  *)
THEOREM HandledIsGenuine == Spec => []OnlyGenuineHandled
<1>1. TypeOK /\ Knowledge => OnlyGenuineHandled
  <2> SUFFICES ASSUME TypeOK, Knowledge, call # None
               PROVE  OnlyGenuineHandled
      BY DEF OnlyGenuineHandled
  <2>1. /\ rawBody # None /\ Serves(route) /\ ~TooLarge(rawBody) /\ Authentic
        /\ call = route /\ rawBody.content # Garbage /\ IsRequest(route, rawBody.content)
        BY DEF Knowledge, Passed, Called
  <2>2. /\ rawBody \in RawBodies /\ server.maxBodyBytes \in Int /\ route \in Routes
        BY <2>1, BodiesAssumption, ServersAssumption DEF TypeOK, Serves
  <2>3. /\ request.signature = Sign(rawBody, server.apiSecret)
        /\ rawBody.size <= server.maxBodyBytes
        /\ call = "freespins_finish" => server.freespins
        BY <2>1, <2>2 DEF Authentic, Verify, TooLarge, Serves, RawBodies
  <2>4. /\ call \in {"betwin", "rollback"} => rawBody.content.transactions # <<>>
        /\ call = "betwin" =>
              \A t \in Range(rawBody.content.transactions) : t.amount \in Nat \ {0}
        /\ call = "freespins_finish" => rawBody.content.amount \in Nat
        BY <2>1 DEF IsRequest, IsBetWinRequest, IsRollbackRequest,
           IsFreespinsFinishRequest, Positive
  <2>5. ASSUME request.entry = "http"
        PROVE  /\ rawBody = request.body
               /\ request.method = "POST"
               /\ IsSuffix(Segments[call], TrimSlashes(request.path))
    <3>1. /\ IsCallback /\ route = RouteFromPath(request.path)
          /\ rawBody \in Cut(request.body)
          BY <2>1, <2>5 DEF Knowledge, Delivered
    <3>2. request.body \in Bodies
      <4>1. phase # "idle"
            BY <2>1 DEF Knowledge, Fresh
      <4> QED BY <4>1 DEF TypeOK, RequestType
    <3>3. rawBody = request.body
          BY <2>1, <3>1, <3>2, SmallIsWhole
    <3>4. Matching(request.path) # {}
          BY <3>1 DEF IsCallback, RouteFromPath
    <3>5. route \in Matching(request.path)
          BY <3>1, <3>4, LongestRouteWins
    <3> QED BY <2>1, <3>1, <3>3, <3>5 DEF IsCallback, Matching
  <2> QED BY <2>3, <2>4, <2>5 DEF OnlyGenuineHandled
<1> QED BY <1>1, KnowledgeHolds, PTL

(* A freespins result never ends a round, under any mount                  *)
(* (routesLongestFirst).                                                   *)
THEOREM FreespinsApart == Spec => []FreespinsNeverFinish
<1>1. TypeOK /\ Knowledge => FreespinsNeverFinish
  <2> SUFFICES ASSUME TypeOK, Knowledge, request # None, request.entry = "http",
                      IsSuffix(Segments["freespins_finish"], TrimSlashes(request.path)),
                      call = "finish"
               PROVE  FALSE
      BY DEF FreespinsNeverFinish
  <2>1. "finish" \in Routes /\ "freespins_finish" \in Routes
        BY DEF Routes, Segments
  <2>2. call # None
        BY <2>1, NoneAssumption
  <2>3. RouteFromPath(request.path) = "finish"
        BY <2>2 DEF Knowledge, Passed, Called, Delivered
  <2>4. "freespins_finish" \in Matching(request.path)
        BY <2>1 DEF Matching
  <2>5. PICK q \in Matching(request.path) : q = "freespins_finish"
        BY <2>4
  <2>6. PICK r \in Routes : r = "finish"
        BY <2>1
  <2>7. Len(Segments[q]) <= Len(Segments[r])
        BY <2>3, <2>5, <2>6, LongestRouteWins
  <2>8. q \in Routes
        BY DEF Matching
  <2>9. Len(Segments[q]) = 2 /\ Len(Segments[r]) = 1
        BY <2>5, <2>6, <2>8, RouteLengths
  <2> QED BY <2>7, <2>9
<1> QED BY <1>1, KnowledgeHolds, PTL

(* What a wallet error's status says of its code: the constructors and the *)
(* escape hatch answer 500 for the codes that begin with a 5 and 400 for   *)
(* all others (errors.go clientError, serverError, WalletErrorWithAPICode). *)
LEMMA StatusOfErrors ==
    ASSUME NEW e \in ConstructedErrors \cup EscapedErrors
    PROVE  e.origin # "literal" /\ (e.status = 500 <=> e.code \in ServerCodes)
<1>1. ASSUME NEW c \in FundsCodes \cup ClientCodes, NEW b
      PROVE  /\ ClientError(c, b).origin = "constructor" /\ ClientError(c, b).code = c
             /\ ClientError(c, b).status = 400 /\ c \notin ServerCodes
      BY DEF ClientError, WalletError, FundsCodes, ClientCodes, ServerCodes
<1>2. ASSUME NEW c \in {"500", "503"}
      PROVE  /\ ServerError(c).origin = "constructor" /\ ServerError(c).code = c
             /\ ServerError(c).status = 500 /\ c \in ServerCodes
      BY DEF ServerError, WalletError, ServerCodes
<1>3. ASSUME NEW c, NEW b
      PROVE  /\ EscapedError(c, b).origin = "escape" /\ EscapedError(c, b).code = c
             /\ EscapedError(c, b).status = 500 <=> c \in ServerCodes
      BY DEF EscapedError, WalletError
<1> QED BY <1>1, <1>2, <1>3 DEF ConstructedErrors, EscapedErrors

(* A 500 comes from the handler, and from a failure of it that may pass    *)
(* (Dispatch).                                                             *)
THEOREM RetriesAreMeant == Spec => []RetryIsMeant
<1>1. TypeOK /\ Knowledge => RetryIsMeant
  <2> SUFFICES ASSUME TypeOK, Knowledge, phase = "answered"
               PROVE  RetryIsMeant
      BY DEF RetryIsMeant
  <2>1. CASE call = None
    <3>1. reply.status # 500
          BY <2>1 DEF Knowledge, Refused, ErrorAnswer, Answer, MisroutedAnswer,
             ErrBadRequest, ErrNotFound, ErrInvalidSignature, ClientError, WalletError
    <3> QED BY <2>1, <3>1 DEF RetryIsMeant
  <2>2. CASE call # None /\ outcome.kind = "result"
    <3>1. reply = ResultAnswer
          BY <2>2 DEF Knowledge, Settled
    <3> QED BY <2>2, <3>1 DEF RetryIsMeant, ResultAnswer, Answer
  <2>3. CASE call # None /\ outcome.kind = "other"
    <3>1. reply = ErrorAnswer(ErrInternal)
          BY <2>3 DEF Knowledge, Settled
    <3> QED BY <2>3, <3>1
            DEF RetryIsMeant, ErrorAnswer, Answer, ErrInternal, ServerError, WalletError
  <2>4. CASE call # None /\ outcome.kind = "wallet"
    <3>1. reply = ErrorAnswer(outcome.error) /\ outcome \in Outcomes
          BY <2>4 DEF Knowledge, Settled, TypeOK
    <3>2. reply.status = outcome.error.status
          BY <3>1 DEF ErrorAnswer, Answer
    <3>3. outcome.error \in ConstructedErrors \cup EscapedErrors \cup LiteralErrors
          BY <2>4, <3>1 DEF Outcomes
    <3> QED BY <2>4, <3>2, <3>3, StatusOfErrors, LiteralsAssumption DEF RetryIsMeant
  <2> QED BY <2>1, <2>2, <2>3, <2>4 DEF Knowledge, Settled
<1> QED BY <1>1, KnowledgeHolds, PTL

(* No answer about funds is without the player's balance (Envelope).       *)
THEOREM FundsKeepBalance == Spec => []FundsCarryBalance
<1>1. TypeOK /\ Knowledge => FundsCarryBalance
  <2> SUFFICES ASSUME TypeOK, Knowledge, reply # None, reply.code \in FundsCodes
               PROVE  reply.balance # None
      BY DEF FundsCarryBalance
  <2>1. phase = "answered"
        BY DEF Knowledge, Fresh
  <2>2. reply # MisroutedAnswer /\ reply # ErrorAnswer(ErrBadRequest)
        /\ reply # ErrorAnswer(ErrNotFound) /\ reply # ErrorAnswer(ErrInvalidSignature)
        /\ reply # ErrorAnswer(ErrInternal)
        BY DEF FundsCodes, ErrorAnswer, Answer, MisroutedAnswer, ErrBadRequest, ErrNotFound,
           ErrInvalidSignature, ErrInternal, ClientError, ServerError, WalletError
  <2>3. call # None
        BY <2>1, <2>2 DEF Knowledge, Refused
  <2>4. outcome.kind # "result"
    <3>1. ASSUME outcome.kind = "result" PROVE reply.code = None
          BY <2>1, <2>3, <3>1 DEF Knowledge, Settled, ResultAnswer, Answer
    <3> QED BY <3>1, NoneAssumption DEF APICodes
  <2>5. ~EnvelopePanics(outcome.error) /\ reply = ErrorAnswer(outcome.error)
        BY <2>1, <2>2, <2>3, <2>4 DEF Knowledge, Settled
  <2> QED BY <2>5 DEF EnvelopePanics, ErrorAnswer, Answer
<1> QED BY <1>1, KnowledgeHolds, PTL

-----------------------------------------------------------------------------
(* What must not be refused *)

(* No server was given the largest int64 as its cap.                       *)
CapsBelowMaxInt == \A s \in Servers : s.maxBodyBytes < MaxInt

(* With such a cap ReadAll wants a body within the cap whole, and of a     *)
(* larger one a byte more than the cap (NewHandler).                       *)
LEMMA OneBytePastTheCap ==
    ASSUME TypeOK, CapsBelowMaxInt, NEW b \in Bodies
    PROVE  /\ b.size <= server.maxBodyBytes => Wanted(b) = b.size /\ Cut(b) = {b}
           /\ b.size > server.maxBodyBytes => \A raw \in Cut(b) : TooLarge(raw)
<1>1. /\ server.maxBodyBytes \in Int /\ b.size \in Nat
      /\ Limit = server.maxBodyBytes + 1
      BY BodiesAssumption, ServersAssumption
      DEF TypeOK, RawBodies, CapsBelowMaxInt, Limit, Wrap
<1>2. CASE b.size <= server.maxBodyBytes
      BY <1>1, <1>2 DEF Wanted, Cut
<1>3. CASE b.size > server.maxBodyBytes
  <2> SUFFICES ASSUME NEW raw \in Cut(b)
               PROVE  raw.size > server.maxBodyBytes
      BY <1>1, <1>3 DEF TooLarge
  <2>1. CASE Wanted(b) = b.size
        BY <1>3, <2>1 DEF Cut
  <2>2. CASE Wanted(b) # b.size /\ Wanted(b) = 0
    <3>1. raw = Empty /\ server.maxBodyBytes + 1 <= 0
          BY <1>1, <2>2 DEF Cut, Wanted
    <3> QED BY <1>1, <3>1 DEF Empty
  <2>3. CASE Wanted(b) # b.size /\ Wanted(b) # 0
    <3>1. raw.size = server.maxBodyBytes + 1
          BY <1>1, <2>3 DEF Cut, Wanted
    <3> QED BY <1>1, <3>1
  <2> QED BY <2>1, <2>2, <2>3
<1> QED BY <1>1, <1>2, <1>3

(* A genuine callback reaches the handler, whatever else the server does:  *)
(* no check turns it away (NewHandler, dispatch).                          *)
THEOREM GenuineIsServed ==
    ASSUME CapsBelowMaxInt
    PROVE  Spec => []GenuineServed
<1>1. TypeOK /\ Knowledge => GenuineServed
  <2> SUFFICES ASSUME TypeOK, Knowledge, phase = "answered", Genuine(request), call = None
               PROVE  FALSE
      BY DEF GenuineServed
  <2>1. request.body \in Bodies /\ IsCallback /\ request.entry = "http"
        BY DEF TypeOK, RequestType, Genuine, IsCallback
  <2>2. Wanted(request.body) = request.body.size /\ Cut(request.body) = {request.body}
        BY <2>1, OneBytePastTheCap DEF Genuine
  <2>3. request.delivered \in Nat /\ request.body.size \in Nat
        BY BodiesAssumption DEF TypeOK, RequestType, RawBodies
  <2>4. rawBody # None
        BY <2>1, <2>2, <2>3 DEF Knowledge, Refused, Genuine
  <2>5. rawBody = request.body /\ route = RouteFromPath(request.path)
        BY <2>1, <2>2, <2>4 DEF Knowledge, Delivered
  <2>6. /\ Serves(route) /\ rawBody.content # Garbage
        /\ IsRequest(route, rawBody.content)
        BY <2>5 DEF Genuine
  <2>7. Sign(rawBody, server.apiSecret) # None
    <3>1. rawBody \in RawBodies /\ server.apiSecret \in STRING
          BY <2>1, <2>5, BodiesAssumption, ServersAssumption DEF TypeOK
    <3> QED BY <3>1, NoneAssumption DEF HMACs, Sign
  <2>8. Authentic
        BY <2>5, <2>7 DEF Genuine, Authentic, Verify
  <2>9. ~TooLarge(rawBody)
        BY <2>3, <2>5, ServersAssumption DEF Genuine, TooLarge, TypeOK
  <2> QED BY <2>4, <2>6, <2>8, <2>9 DEF Knowledge, Refused
<1> QED BY <1>1, KnowledgeHolds, PTL

(* An oversize body is told from a forged one (NewHandler, dispatch).      *)
THEOREM OversizeIsNamed ==
    ASSUME CapsBelowMaxInt
    PROVE  Spec => []OversizeNamed
<1>1. TypeOK /\ Knowledge => OversizeNamed
  <2> SUFFICES ASSUME TypeOK, Knowledge, phase = "answered", request.entry = "http",
                      IsCallback, Serves(RouteFromPath(request.path)),
                      request.body.size > server.maxBodyBytes
               PROVE  reply = ErrorAnswer(ErrBadRequest)
      BY DEF OversizeNamed
  <2>1. request.body \in Bodies
        BY DEF TypeOK, RequestType
  <2>2. rawBody # None => route = RouteFromPath(request.path) /\ TooLarge(rawBody)
        BY <2>1, OneBytePastTheCap DEF Knowledge, Delivered
  <2>3. call = None
        BY <2>2 DEF Knowledge, Passed
  <2> QED BY <2>2, <2>3 DEF Knowledge, Refused
<1> QED BY <1>1, KnowledgeHolds, PTL
=============================================================================
