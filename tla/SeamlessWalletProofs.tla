------------------------- MODULE SeamlessWalletProofs -------------------------
(* Proofs about WalletContract and, from them, about SeamlessWallet, which  *)
(* extends it, for every value of their constants.                          *)
EXTENDS SeamlessWallet, TLAPS

-----------------------------------------------------------------------------
(* The contract                                                             *)

(* The ids of requests are id_providers.                                   *)
LEMMA IdsTyped ==
    /\ \A r \in BetWinRequests : IdsOf(r) \subseteq IdProviders
    /\ \A t \in UndoTxs : t.id \in IdProviders /\ t.original \in IdProviders
<1>1. ASSUME NEW r \in BetWinRequests, NEW k \in DOMAIN r.transactions
      PROVE  r.transactions[k].id \in IdProviders
  <2>1. r.transactions \in Seq(BetOrWin)
    BY ContractAssumption
  <2>2. r.transactions[k] \in BetOrWin
    BY <2>1
  <2> QED
    BY <2>2 DEF BetOrWin
<1>2. ASSUME NEW r \in RollbackRequests, NEW k \in DOMAIN r.transactions
      PROVE  /\ r.transactions[k].id \in IdProviders
             /\ r.transactions[k].original \in IdProviders
  <2>1. r.transactions \in Seq(Reversal)
    BY ContractAssumption
  <2>2. r.transactions[k] \in Reversal
    BY <2>1
  <2> QED
    BY <2>2 DEF Reversal
<1> QED
  BY <1>1, <1>2 DEF IdsOf, UndoTxs, TxsOf

(* The steps of the contract, by what they do to the fates. *)
LEMMA ContractCases ==
    ASSUME [ContractNext]_contract
    PROVE  \/ \E r \in BetWinRequests : Accept(r) \/ ApplyUnanswered(r) \/ RefuseBarred(r)
           \/ \E t \in UndoTxs : Undo(t)
           \/ \E r \in RollbackRequests : AcceptRollback(r)
           \/ UNCHANGED contract
BY DEF ContractNext, UndoTxs

(* Every step of the contract keeps the types.                             *)
LEMMA ContractKeepsTypes ==
    ASSUME ContractTypeOK, [ContractNext]_contract
    PROVE  ContractTypeOK'
<1>1. ASSUME NEW r \in BetWinRequests, Apply(r)
      PROVE  fate' \in [IdProviders -> Fates] /\ undone' = undone
  BY <1>1 DEF Apply, ContractTypeOK, Fates
<1>2. ASSUME NEW r \in BetWinRequests, Accept(r) \/ ApplyUnanswered(r) \/ RefuseBarred(r)
      PROVE  ContractTypeOK'
  BY <1>1, <1>2 DEF Accept, ApplyUnanswered, RefuseBarred, ContractTypeOK
<1>3. ASSUME NEW t \in UndoTxs, Undo(t) PROVE ContractTypeOK'
  <2>1. t.id \in IdProviders /\ t.original \in IdProviders
    BY <1>3, IdsTyped
  <2>2. UndoneFate(fate[t.original]) \in Fates
    BY <2>1 DEF UndoneFate, ContractTypeOK, Fates
  <2> QED
    BY <1>3, <2>1, <2>2 DEF Undo, ContractTypeOK
<1>4. ASSUME NEW r \in RollbackRequests, AcceptRollback(r) PROVE ContractTypeOK'
  BY <1>4 DEF AcceptRollback, ContractTypeOK
<1>5. UNCHANGED contract => ContractTypeOK'
  BY DEF contract, ContractTypeOK
<1> QED
  BY <1>2, <1>3, <1>4, <1>5, ContractCases

(* A promise never leaves its types. *)
THEOREM ContractTypes == ContractSpec => []ContractTypeOK
<1>1. ContractInit => ContractTypeOK
  BY DEF ContractInit, ContractTypeOK, Fates
<1>2. ContractTypeOK /\ [ContractNext]_contract => ContractTypeOK'
  BY ContractKeepsTypes
<1> QED
  BY <1>1, <1>2, PTL DEF ContractSpec

(* The order of fates, in one step. *)
FatesGrow ==
    \A i \in IdProviders :
       /\ fate[i] = "barred" => fate'[i] = "barred"
       /\ fate[i] = "reversed" => fate'[i] = "reversed"
       /\ fate[i] = "applied" => fate'[i] \in {"applied", "reversed"}

(* Every step moves fates forward only.                                    *)
LEMMA StepGrowsFates ==
    ASSUME ContractTypeOK, [ContractNext]_contract
    PROVE  FatesGrow
<1>1. ASSUME NEW r \in BetWinRequests, Apply(r) PROVE FatesGrow
  BY <1>1 DEF Apply, FatesGrow
<1>2. ASSUME NEW r \in BetWinRequests, Accept(r) \/ ApplyUnanswered(r) \/ RefuseBarred(r)
      PROVE  FatesGrow
  BY <1>1, <1>2 DEF Accept, ApplyUnanswered, RefuseBarred, FatesGrow
<1>3. ASSUME NEW t \in UndoTxs, Undo(t) PROVE FatesGrow
  <2>1. fate' = [fate EXCEPT ![t.original] = UndoneFate(fate[t.original])]
    BY <1>3 DEF Undo
  <2> QED
    BY <2>1 DEF UndoneFate, FatesGrow, ContractTypeOK, Fates
<1>4. (\E r \in RollbackRequests : AcceptRollback(r)) \/ UNCHANGED contract => FatesGrow
  BY DEF AcceptRollback, contract, FatesGrow
<1> QED
  BY <1>2, <1>3, <1>4, ContractCases

(* Nothing that was rolled back, before it came or after, takes effect     *)
(* again, however requests are repeated and reordered.                     *)
THEOREM FatesAreFinal == ContractSpec => FatesFinal
<1>1. ContractTypeOK /\ [ContractNext]_contract => [FatesGrow]_contract
  BY StepGrowsFates
<1> QED
  BY <1>1, ContractTypes, PTL DEF ContractSpec, FatesFinal, FatesGrow

(* As fates only move forward, what was told stays true.                   *)
LEMMA StepKeepsToldTrue ==
    ASSUME ContractTypeOK, ToldTrue, [ContractNext]_contract
    PROVE  ToldTrue'
<1>1. FatesGrow
  BY StepGrowsFates
<1>2. \A r \in BetWinRequests : IdsOf(r) \subseteq IdProviders
  BY IdsTyped
<1>3. ASSUME NEW r \in BetWinRequests, <<r, "200">> \in told'
      PROVE  \A i \in IdsOf(r) : fate'[i] \in {"applied", "reversed"}
  <2>1. CASE <<r, "200">> \in told
    BY <1>1, <1>2, <2>1 DEF ToldTrue, FatesGrow
  <2>2. CASE Accept(r)
    BY <1>2, <2>2 DEF Accept, Apply, ContractTypeOK, Fates
  <2>3. <<r, "200">> \in told \/ Accept(r)
    BY <1>3, ContractCases, ContractAssumption
    DEF Accept, ApplyUnanswered, RefuseBarred, Undo, AcceptRollback, contract
  <2> QED
    BY <2>1, <2>2, <2>3
<1>4. ASSUME NEW r \in BetWinRequests, <<r, "409">> \in told'
      PROVE  \E i \in IdsOf(r) : fate'[i] = "barred"
  <2>1. <<r, "409">> \in told \/ RefuseBarred(r)
    BY <1>4, ContractCases DEF Accept, ApplyUnanswered, RefuseBarred, Undo, AcceptRollback, contract
  <2>2. \E i \in IdsOf(r) : fate[i] = "barred"
    BY <2>1 DEF RefuseBarred, ToldTrue
  <2> QED
    BY <1>1, <1>2, <2>2 DEF FatesGrow
<1> QED
  BY <1>3, <1>4 DEF ToldTrue

(* The answers stay true: a 200 says the batch took effect, a 409 that a   *)
(* part of it never will.                                                  *)
THEOREM AnswersStayTrue == ContractSpec => []ToldTrue
<1>1. ContractInit => ToldTrue
  BY DEF ContractInit, ToldTrue
<1>2. ContractTypeOK /\ ToldTrue /\ [ContractNext]_contract => ToldTrue'
  BY StepKeepsToldTrue
<1> QED
  BY <1>1, <1>2, ContractTypes, PTL DEF ContractSpec

(* No request is ever told both that it took effect and that it never      *)
(* will: a retry is not refused once accepted, nor accepted once refused.  *)
NeverBoth ==
    \A r \in BetWinRequests : ~(<<r, "200">> \in told /\ <<r, "409">> \in told)

(* No batch is ever told both 200 and 409.                                 *)
THEOREM AnswersAgree == ContractSpec => []NeverBoth
<1>1. ToldTrue => NeverBoth
  BY DEF ToldTrue, NeverBoth
<1> QED
  BY <1>1, AnswersStayTrue, PTL

(* Every step leaves what was undone without effect.                       *)
LEMMA StepKeepsUndone ==
    ASSUME UndoIdsUnique, ContractTypeOK, UndoneHasNoEffect, [ContractNext]_contract
    PROVE  UndoneHasNoEffect'
<1>0. \A t \in UndoTxs : t.id \in IdProviders /\ t.original \in IdProviders
  BY IdsTyped
<1>1. ASSUME NEW t \in UndoTxs, Undo(t) PROVE UndoneHasNoEffect'
  <2>1. fate' = [fate EXCEPT ![t.original] = UndoneFate(fate[t.original])]
        /\ undone' = undone \cup {t.id}
    BY <1>1 DEF Undo
  <2>2. fate'[t.original] \in {"reversed", "barred"}
    BY <1>0, <2>1 DEF UndoneFate, ContractTypeOK, Fates
  <2>3. ASSUME NEW u \in UndoTxs, u.id \in undone'
        PROVE  fate'[u.original] \in {"reversed", "barred"}
    <3>1. CASE u.id \in undone
      BY <1>0, <3>1, StepGrowsFates DEF UndoneHasNoEffect, FatesGrow
    <3>2. CASE u.id = t.id
      BY <2>2, <3>2 DEF UndoIdsUnique
    <3> QED
      BY <2>1, <2>3, <3>1, <3>2
  <2> QED
    BY <2>3 DEF UndoneHasNoEffect
<1>2. undone' = undone => UndoneHasNoEffect'
  BY <1>0, StepGrowsFates DEF UndoneHasNoEffect, FatesGrow
<1>3. (\E t \in UndoTxs : Undo(t)) \/ undone' = undone
  BY ContractCases DEF Accept, ApplyUnanswered, Apply, RefuseBarred, AcceptRollback, contract
<1> QED
  BY <1>1, <1>2, <1>3

(* If no two rollback transactions share an id_provider, one that was      *)
(* performed has left its original without effect, in either order.        *)
THEOREM UndoingHolds ==
    ASSUME UndoIdsUnique
    PROVE  ContractSpec => []UndoneHasNoEffect
<1>1. ContractInit => UndoneHasNoEffect
  BY DEF ContractInit, UndoneHasNoEffect
<1>2. ContractTypeOK /\ UndoneHasNoEffect /\ [ContractNext]_contract => UndoneHasNoEffect'
  BY StepKeepsUndone
<1> QED
  BY <1>1, <1>2, ContractTypes, PTL DEF ContractSpec

-----------------------------------------------------------------------------
(* The platform and a wallet that keeps the contract                        *)

(* The platform gave the batch up and sent its rollback. *)
Gone == {"reverting", "reverted", "unresolved"}

(* A rollback is sent for a batch given up only, and nothing of a batch is *)
(* undone before its rollback is sent.                                     *)
SentOnPurpose ==
    \A b \in BetWinRequests :
       /\ Revert[b] \in sent => phase[b] \in Gone
       /\ \A i \in IdsOf(b) : fate[i] \in {"reversed", "barred"} => Revert[b] \in sent

(* What the platform heard, or is about to hear, the wallet said. *)
HeardTrue ==
    \A b \in BetWinRequests :
       /\ phase[b] = "betting" /\ answer[b] = "200" => <<b, "200">> \in told
       /\ phase[b] = "accepted" => <<b, "200">> \in told
       /\ phase[b] = "reverting" /\ answer[b] = "200" => <<Revert[b], "200">> \in told
       /\ phase[b] = "reverted" => <<Revert[b], "200">> \in told

(* An accepted rollback was performed, all of it. *)
RollbackToldTrue ==
    \A r \in RollbackRequests : <<r, "200">> \in told => IdsOf(r) \subseteq undone

Knowledge == SentOnPurpose /\ HeardTrue /\ RollbackToldTrue

-----------------------------------------------------------------------------
(* Every step is one of the platform or one of the wallet. *)

PlatformStep(b) == Bet(b) \/ Platform(b)
WalletStep(b) == HandleBetWin(b) \/ HandleRollback(b)

(* The platform changes nothing in the wallet.                             *)
LEMMA PlatformKeepsContract ==
    ASSUME NEW b \in BetWinRequests, PlatformStep(b)
    PROVE  UNCHANGED contract
BY DEF PlatformStep, Platform, Bet, Send, Settle, Retry, GiveUp, LearnRefused,
   LearnAccepted, LearnReverted, Abandon

(* The wallet changes nothing at the platform but the answer on its way.   *)
LEMMA WalletKeepsPlatform ==
    ASSUME NEW b \in BetWinRequests, WalletStep(b)
    PROVE  /\ UNCHANGED <<phase, attempt, sent>>
           /\ \/ answer' = answer
              \/ \E code \in Codes : answer' = [answer EXCEPT ![b] = code]
BY DEF WalletStep, HandleBetWin, HandleRollback, Answer, platform, Codes

(* Every step of the composition is one of the contract or leaves it       *)
(* alone.                                                                  *)
LEMMA StepKeepsContract ==
    ASSUME [Next]_vars
    PROVE  [ContractNext]_contract
<1>1. ASSUME NEW b \in BetWinRequests, PlatformStep(b) PROVE UNCHANGED contract
  BY <1>1, PlatformKeepsContract
<1>2. ASSUME NEW b \in BetWinRequests, HandleBetWin(b) PROVE [ContractNext]_contract
  BY <1>2 DEF HandleBetWin, ContractNext
<1>3. ASSUME NEW b \in BetWinRequests, HandleRollback(b) PROVE [ContractNext]_contract
  <2>1. Revert[b] \in RollbackRequests
    BY SeamlessAssumption
  <2> QED
    BY <1>3, <2>1 DEF HandleRollback, ContractNext
<1>4. UNCHANGED vars => UNCHANGED contract
  BY DEF vars
<1> QED
  BY <1>1, <1>2, <1>3, <1>4 DEF Next, PlatformStep

(* Whatever the platform, the network and failing handlers do, the wallet   *)
(* behind them does what its contract says.                                 *)
THEOREM KeepsContract == Spec => ContractSpec
<1>1. Init => ContractInit
  BY DEF Init
<1>2. [Next]_vars => [ContractNext]_contract
  BY StepKeepsContract
<1> QED
  BY <1>1, <1>2, PTL DEF Spec, ContractSpec

(* A step of the platform keeps the types.                                 *)
LEMMA PlatformKeepsTypes ==
    ASSUME TypeOK, NEW b \in BetWinRequests, PlatformStep(b)
    PROVE  TypeOK'
<1>1. ContractTypeOK'
  BY PlatformKeepsContract DEF contract, ContractTypeOK, TypeOK
<1>2. Revert[b] \in RollbackRequests /\ 1 \in 1..MaxAttempts
  BY SeamlessAssumption
<1>3. ASSUME NEW r \in BetWinRequests \cup RollbackRequests, NEW p \in Phases, Send(b, r, p)
      PROVE  TypeOK'
  BY <1>1, <1>2, <1>3 DEF Send, TypeOK
<1>4. ASSUME NEW p \in Phases, Settle(b, p) PROVE TypeOK'
  BY <1>1, <1>4 DEF Settle, TypeOK
<1>5. CASE Retry(b)
  <2>1. attempt[b] + 1 \in 1..MaxAttempts
    BY <1>5, SeamlessAssumption DEF Retry, TypeOK
  <2> QED
    BY <1>1, <1>5, <2>1 DEF Retry, TypeOK
<1> QED
  BY <1>2, <1>3, <1>4, <1>5
  DEF PlatformStep, Platform, Bet, GiveUp, LearnRefused, LearnAccepted, LearnReverted,
    Abandon, Phases

(* Platform and wallet keep their types. *)
THEOREM SeamlessTypes == Spec => []TypeOK
<1>1. Init => TypeOK
  BY SeamlessAssumption DEF Init, ContractInit, ContractTypeOK, TypeOK, Fates, Phases
<1>2. TypeOK /\ [Next]_vars => TypeOK'
  <2> SUFFICES ASSUME TypeOK, [Next]_vars PROVE TypeOK'
    OBVIOUS
  <2>1. ASSUME NEW b \in BetWinRequests, PlatformStep(b) PROVE TypeOK'
    BY <2>1, PlatformKeepsTypes
  <2>2. ContractTypeOK'
    BY StepKeepsContract, ContractKeepsTypes DEF TypeOK
  <2>3. ASSUME NEW b \in BetWinRequests, WalletStep(b) PROVE TypeOK'
    BY <2>2, <2>3, WalletKeepsPlatform DEF TypeOK
  <2>4. CASE UNCHANGED vars
    BY <2>2, <2>4 DEF vars, platform, TypeOK
  <2> QED
    BY <2>1, <2>3, <2>4 DEF Next, PlatformStep, WalletStep
<1> QED
  BY <1>1, <1>2, PTL DEF Spec
-----------------------------------------------------------------------------
(* Why they agree                                                           *)

(* The platform's discipline: no two batches share a rollback, and a       *)
(* rollback names only what its own batch holds.                           *)
LEMMA Disjoint ==
    /\ \A b \in BetWinRequests : Revert[b] \in RollbackRequests /\ Revert[b] \notin BetWinRequests
    /\ \A b, c \in BetWinRequests : b # c => Revert[b] # Revert[c]
    /\ \A b, c \in BetWinRequests : \A t \in TxsOf(Revert[b]) :
          t.original \in IdsOf(c) => b = c
<1>1. \A b \in BetWinRequests : Revert[b] \in RollbackRequests /\ Revert[b] \notin BetWinRequests
  BY SeamlessAssumption, ContractAssumption
<1>2. \A b, c \in BetWinRequests : b # c => Revert[b] # Revert[c]
  BY PlatformAssumption
<1>3. ASSUME NEW b \in BetWinRequests, NEW c \in BetWinRequests,
             NEW t \in TxsOf(Revert[b]), t.original \in IdsOf(c)
      PROVE  b = c
  <2>1. t.original \in IdsOf(b)
    BY PlatformAssumption
  <2> QED
    BY <1>3, <2>1, PlatformAssumption
<1> QED
  BY <1>1, <1>2, <1>3

(* A step of the platform keeps what each side knows of the other true.    *)
LEMMA PlatformKeepsKnowledge ==
    ASSUME TypeOK, Knowledge, NEW b \in BetWinRequests, PlatformStep(b)
    PROVE  Knowledge'
<1>0. fate' = fate /\ undone' = undone /\ told' = told
  BY PlatformKeepsContract DEF contract
<1>1. RollbackToldTrue'
  BY <1>0 DEF Knowledge, RollbackToldTrue, IdsOf
<1>2. ASSUME NEW r, NEW p, Send(b, r, p),
             \/ r = b /\ p = "betting" /\ phase[b] = "idle"
             \/ r = Revert[b] /\ p = "reverting"
      PROVE  SentOnPurpose' /\ HeardTrue'
  <2>1. /\ phase' = [phase EXCEPT ![b] = p] /\ sent' = sent \cup {r}
        /\ answer' = [answer EXCEPT ![b] = Nothing]
    BY <1>2 DEF Send
  <2>2. SentOnPurpose'
    BY <1>0, <1>2, <2>1, Disjoint DEF Knowledge, SentOnPurpose, Gone, TypeOK, IdsOf
  <2>3. HeardTrue'
    BY <1>0, <1>2, <2>1, SeamlessAssumption DEF Knowledge, HeardTrue, TypeOK
  <2> QED
    BY <2>2, <2>3
<1>3. ASSUME NEW p, Settle(b, p),
             \/ phase[b] = "betting" /\ p = "accepted" /\ answer[b] = "200"
             \/ phase[b] = "reverting" /\ p = "reverted" /\ answer[b] = "200"
             \/ phase[b] = "reverting" /\ p = "unresolved"
      PROVE  SentOnPurpose' /\ HeardTrue'
  <2>1. /\ phase' = [phase EXCEPT ![b] = p] /\ sent' = sent /\ answer' = answer
    BY <1>3 DEF Settle
  <2>2. SentOnPurpose'
    BY <1>0, <1>3, <2>1, Disjoint DEF Knowledge, SentOnPurpose, Gone, TypeOK, IdsOf
  <2>3. HeardTrue'
    BY <1>0, <1>3, <2>1 DEF Knowledge, HeardTrue, TypeOK
  <2> QED
    BY <2>2, <2>3
<1>4. ASSUME Retry(b) PROVE SentOnPurpose' /\ HeardTrue'
  <2>1. phase' = phase /\ sent' = sent /\ answer' = [answer EXCEPT ![b] = Nothing]
    BY <1>4 DEF Retry
  <2>2. SentOnPurpose'
    BY <1>0, <2>1 DEF Knowledge, SentOnPurpose, IdsOf
  <2>3. HeardTrue'
    BY <1>0, <2>1, SeamlessAssumption DEF Knowledge, HeardTrue, TypeOK
  <2> QED
    BY <2>2, <2>3
<1>5. CASE Bet(b)
  BY <1>1, <1>2, <1>5 DEF Bet, Knowledge
<1>6. CASE GiveUp(b) \/ LearnRefused(b)
  BY <1>1, <1>2, <1>6 DEF GiveUp, LearnRefused, Knowledge
<1>7. CASE LearnAccepted(b) \/ LearnReverted(b) \/ Abandon(b)
  BY <1>1, <1>3, <1>7 DEF LearnAccepted, LearnReverted, Abandon, Knowledge
<1> QED
  BY <1>1, <1>4, <1>5, <1>6, <1>7 DEF PlatformStep, Platform, Knowledge

(* What the wallet says while it handles a request of b. *)
LEMMA WalletSays ==
    ASSUME TypeOK, NEW b \in BetWinRequests, WalletStep(b)
    PROVE  /\ told \subseteq told'
           /\ \/ answer' = answer
              \/ \E code \in Codes :
                    /\ answer' = [answer EXCEPT ![b] = code]
                    /\ phase[b] \in Waiting
                    /\ code = "200" => <<Current(b), "200">> \in told'
<1>1. ASSUME NEW r, NEW code \in Codes, Answer(b, r, code),
             code = "200" => <<r, "200">> \in told'
      PROVE  \/ answer' = answer
             \/ \E k \in Codes :
                   /\ answer' = [answer EXCEPT ![b] = k]
                   /\ phase[b] \in Waiting
                   /\ k = "200" => <<Current(b), "200">> \in told'
  BY <1>1 DEF Answer
<1>2. "200" \in Codes /\ "400" \in Codes /\ "409" \in Codes /\ "500" \in Codes
  BY DEF Codes
<1>3. CASE HandleBetWin(b)
  BY <1>1, <1>2, <1>3
  DEF HandleBetWin, Accept, RefuseBarred, ApplyUnanswered, contract
<1>4. CASE HandleRollback(b)
  BY <1>1, <1>2, <1>4 DEF HandleRollback, Undo, AcceptRollback, contract
<1> QED
  BY <1>3, <1>4 DEF WalletStep

(* What the wallet does to the fates while it handles a request of b. *)
LEMMA WalletReverses ==
    ASSUME TypeOK, NEW b \in BetWinRequests, WalletStep(b),
           NEW i \in IdProviders, fate'[i] \in {"reversed", "barred"}
    PROVE  \/ fate[i] \in {"reversed", "barred"}
           \/ Revert[b] \in sent /\ \E t \in TxsOf(Revert[b]) : i = t.original
<1>1. ASSUME Apply(b) PROVE fate[i] \in {"reversed", "barred"}
  BY <1>1 DEF Apply
<1>2. CASE HandleBetWin(b)
  BY <1>1, <1>2 DEF HandleBetWin, Accept, RefuseBarred, ApplyUnanswered, contract
<1>3. ASSUME NEW t \in TxsOf(Revert[b]), Undo(t)
      PROVE  fate[i] \in {"reversed", "barred"} \/ i = t.original
  BY <1>3 DEF Undo, TypeOK, ContractTypeOK
<1>4. CASE HandleRollback(b)
  BY <1>3, <1>4 DEF HandleRollback, AcceptRollback, contract
<1> QED
  BY <1>2, <1>4 DEF WalletStep

(* A rollback told 200 stays performed.                                    *)
LEMMA WalletKeepsRollbackTold ==
    ASSUME RollbackToldTrue, NEW b \in BetWinRequests, WalletStep(b)
    PROVE  RollbackToldTrue'
<1>1. undone \subseteq undone'
  BY DEF WalletStep, HandleBetWin, HandleRollback, Accept, RefuseBarred, ApplyUnanswered,
    Apply, Undo, AcceptRollback, contract
<1>2. ASSUME NEW r \in RollbackRequests, <<r, "200">> \in told'
      PROVE  <<r, "200">> \in told \/ IdsOf(r) \subseteq undone
  <2>1. r # b
    BY ContractAssumption
  <2> QED
    BY <1>2, <2>1 DEF WalletStep, HandleBetWin, HandleRollback, Accept, RefuseBarred,
      ApplyUnanswered, Undo, AcceptRollback, contract
<1> QED
  BY <1>1, <1>2 DEF RollbackToldTrue, IdsOf

(* A step of the wallet keeps what each side knows of the other true.      *)
LEMMA WalletKeepsKnowledge ==
    ASSUME TypeOK, Knowledge, NEW b \in BetWinRequests, WalletStep(b)
    PROVE  Knowledge'
<1>1. phase' = phase /\ sent' = sent
  BY WalletKeepsPlatform
<1>2. \A c \in BetWinRequests : IdsOf(c) \subseteq IdProviders
  BY IdsTyped
<1>3. SentOnPurpose'
  <2>1. ASSUME NEW c \in BetWinRequests, NEW i \in IdsOf(c),
               fate'[i] \in {"reversed", "barred"}
        PROVE  Revert[c] \in sent
    <3>1. CASE fate[i] \in {"reversed", "barred"}
      BY <3>1 DEF Knowledge, SentOnPurpose
    <3>2. CASE Revert[b] \in sent /\ \E t \in TxsOf(Revert[b]) : i = t.original
      BY <3>2, Disjoint
    <3> QED
      BY <1>2, <2>1, <3>1, <3>2, WalletReverses
  <2> QED
    BY <1>1, <2>1 DEF Knowledge, SentOnPurpose, IdsOf
<1>4. HeardTrue'
  <2>1. told \subseteq told'
    BY WalletSays
  <2>2. CASE answer' = answer
    BY <1>1, <2>1, <2>2 DEF Knowledge, HeardTrue
  <2>3. ASSUME NEW code \in Codes, answer' = [answer EXCEPT ![b] = code],
               phase[b] \in Waiting, code = "200" => <<Current(b), "200">> \in told'
        PROVE  HeardTrue'
    BY <1>1, <2>1, <2>3 DEF Knowledge, HeardTrue, Current, Waiting, TypeOK
  <2> QED
    BY <2>2, <2>3, WalletSays
<1> QED
  BY <1>3, <1>4, WalletKeepsRollbackTold DEF Knowledge

SeamlessInv == ToldTrue /\ UndoneHasNoEffect /\ Knowledge

(* Every step keeps the invariant.                                         *)
LEMMA KnowledgeKept ==
    ASSUME TypeOK, SeamlessInv, [Next]_vars
    PROVE  SeamlessInv'
<1>1. ContractTypeOK /\ [ContractNext]_contract
  BY StepKeepsContract DEF TypeOK
<1>2. ToldTrue'
  BY <1>1, StepKeepsToldTrue DEF SeamlessInv
<1>3. UndoneHasNoEffect'
  BY <1>1, PlatformAssumption, StepKeepsUndone DEF SeamlessInv
<1>4. Knowledge'
  <2>1. ASSUME NEW b \in BetWinRequests, PlatformStep(b) PROVE Knowledge'
    BY <2>1, PlatformKeepsKnowledge DEF SeamlessInv
  <2>2. ASSUME NEW b \in BetWinRequests, WalletStep(b) PROVE Knowledge'
    BY <2>2, WalletKeepsKnowledge DEF SeamlessInv
  <2>3. CASE UNCHANGED vars
    BY <2>3 DEF vars, contract, platform, SeamlessInv, Knowledge, SentOnPurpose, HeardTrue,
      RollbackToldTrue, IdsOf
  <2> QED
    BY <2>1, <2>2, <2>3 DEF Next, PlatformStep, WalletStep
<1> QED
  BY <1>2, <1>3, <1>4 DEF SeamlessInv

(* The invariant behind agreement: what was said is true, what was undone  *)
(* has no effect, and each side did only what the other asked for.         *)
THEOREM SeamlessInvariant == Spec => []SeamlessInv
<1>1. Init => SeamlessInv
  <2>1. \A b \in BetWinRequests : IdsOf(b) \subseteq IdProviders
    BY IdsTyped
  <2> QED
    BY <2>1 DEF Init, ContractInit, SeamlessInv, ToldTrue, UndoneHasNoEffect, Knowledge,
      SentOnPurpose, HeardTrue, RollbackToldTrue
<1>2. TypeOK /\ SeamlessInv /\ [Next]_vars => SeamlessInv'
  BY KnowledgeKept
<1> QED
  BY <1>1, <1>2, SeamlessTypes, PTL DEF Spec

(* Platform and wallet agree on every settled batch, for any number of     *)
(* attempts, late copies and half done handlers.                           *)
THEOREM BothAgree == Spec => []Agreement
<1>1. SeamlessInv => Agreement
  <2> SUFFICES ASSUME SeamlessInv, NEW b \in BetWinRequests, NEW i \in IdsOf(b)
               PROVE  /\ phase[b] = "accepted" => fate[i] = "applied"
                      /\ phase[b] = "reverted" => fate[i] \in {"reversed", "barred"}
    BY DEF Agreement
  <2>1. ASSUME phase[b] = "accepted" PROVE fate[i] = "applied"
    <3>1. fate[i] \in {"applied", "reversed"}
      BY <2>1 DEF SeamlessInv, Knowledge, HeardTrue, ToldTrue
    <3>2. fate[i] # "reversed"
      BY <2>1 DEF SeamlessInv, Knowledge, SentOnPurpose, Gone
    <3> QED
      BY <3>1, <3>2
  <2>2. ASSUME phase[b] = "reverted" PROVE fate[i] \in {"reversed", "barred"}
    <3>1. PICK t \in TxsOf(Revert[b]) : i = t.original
      BY PlatformAssumption
    <3>2. Revert[b] \in RollbackRequests
      BY SeamlessAssumption
    <3>3. t.id \in undone
      BY <2>2, <3>2 DEF SeamlessInv, Knowledge, HeardTrue, RollbackToldTrue, IdsOf, TxsOf
    <3>4. t \in UndoTxs
      BY <3>2 DEF UndoTxs
    <3> QED
      BY <3>1, <3>3, <3>4 DEF SeamlessInv, UndoneHasNoEffect
  <2> QED
    BY <2>1, <2>2
<1> QED
  BY <1>1, SeamlessInvariant, PTL

(* Every step of the contract keeps batches whole, as no two share an id.  *)
LEMMA StepKeepsWhole ==
    ASSUME ContractTypeOK, TakesEffectWhole, [ContractNext]_contract
    PROVE  TakesEffectWhole'
<1>0. \A b \in BetWinRequests : IdsOf(b) \subseteq IdProviders
  BY IdsTyped
<1>1. ASSUME NEW r \in BetWinRequests, Apply(r), NEW b \in BetWinRequests
      PROVE  \/ \A i \in IdsOf(b) : fate'[i] \in {"unseen", "barred"}
             \/ \A i \in IdsOf(b) : fate'[i] \in {"applied", "reversed"}
  <2>1. CASE b = r
    <3>1. \A i \in IdsOf(r) : fate[i] \in {"unseen", "applied", "reversed"}
      BY <1>0, <1>1 DEF Apply, ContractTypeOK, Fates
    <3>2. \A i \in IdsOf(r) : fate'[i] \in {"applied", "reversed"}
      BY <1>0, <1>1, <3>1 DEF Apply
    <3> QED
      BY <2>1, <3>2
  <2>2. CASE b # r
    <3>1. \A i \in IdsOf(b) : fate'[i] = fate[i]
      BY <1>0, <1>1, <2>2, PlatformAssumption DEF Apply
    <3> QED
      BY <3>1 DEF TakesEffectWhole
  <2> QED
    BY <2>1, <2>2
<1>2. ASSUME NEW t \in UndoTxs, Undo(t) PROVE TakesEffectWhole'
  <2>1. ASSUME NEW i \in IdProviders
        PROVE  /\ fate[i] \in {"unseen", "barred"} => fate'[i] \in {"unseen", "barred"}
               /\ fate[i] \in {"applied", "reversed"} => fate'[i] \in {"applied", "reversed"}
    BY <1>2 DEF Undo, UndoneFate, ContractTypeOK
  <2> QED
    BY <1>0, <2>1 DEF TakesEffectWhole, IdsOf
<1>3. fate' = fate => TakesEffectWhole'
  BY DEF TakesEffectWhole, IdsOf
<1>4. \/ \E r \in BetWinRequests : Apply(r)
      \/ \E t \in UndoTxs : Undo(t)
      \/ fate' = fate
  BY ContractCases DEF Accept, ApplyUnanswered, RefuseBarred, AcceptRollback, contract
<1> QED
  BY <1>1, <1>2, <1>3, <1>4 DEF TakesEffectWhole, IdsOf

(* No batch ever counts in part, for any number of batches, late copies    *)
(* and rollbacks that failed half way.                                     *)
THEOREM BatchesStayWhole == Spec => []TakesEffectWhole
<1>1. Init => TakesEffectWhole
  <2>1. \A b \in BetWinRequests : IdsOf(b) \subseteq IdProviders
    BY IdsTyped
  <2> QED
    BY <2>1 DEF Init, ContractInit, TakesEffectWhole
<1>2. TypeOK /\ TakesEffectWhole /\ [Next]_vars => TakesEffectWhole'
  BY StepKeepsContract, StepKeepsWhole DEF TypeOK
<1> QED
  BY <1>1, <1>2, SeamlessTypes, PTL DEF Spec

(* No batch is refused as rolled back while the platform still tries it.   *)
THEOREM RefusedWasReverted == Spec => []OnlyRevertedRefused
<1>1. SeamlessInv => OnlyRevertedRefused
  BY DEF SeamlessInv, ToldTrue, Knowledge, SentOnPurpose, Gone, OnlyRevertedRefused
<1> QED
  BY <1>1, SeamlessInvariant, PTL
=============================================================================
