--------------------------- MODULE TxBuildProofs ---------------------------
(***************************************************************************)
(* What creating and sending a transaction guarantees, for every set of    *)
(* calls, ledgers of every size and any number of faults and retries.      *)
(***************************************************************************)
EXTENDS TxBuild, InductionLemmas, SequenceTheorems

-----------------------------------------------------------------------------
(* A payment is made at most once                                          *)

\* While the call has not reported success, every transaction the node has
\* accepted is one whose answer could not be read.
PayInv ==
    /\ accepted \in Nat /\ misread \in Nat
    /\ accepted <= misread + 1
    /\ stage # "ok" => accepted <= misread

\* Every step preserves PayInv: only the steps of the submission touch
\* `accepted', and they start from "send".
LEMMA PayInvStep ==
    PayInv /\ [TxNext]_txVars => PayInv'
<1> SUFFICES ASSUME PayInv, [TxNext]_txVars PROVE PayInv'
    OBVIOUS
<1> USE DEF PayInv
<1>1. CASE StartCall
      BY <1>1 DEF StartCall
<1>2. CASE RefuseCall
      BY <1>2 DEF RefuseCall
<1>3. CASE UseGivenCoins
      BY <1>3 DEF UseGivenCoins
<1>4. CASE QueryCoins
      BY <1>4 DEF QueryCoins
<1>5. CASE QueryFails
      BY <1>5 DEF QueryFails, FallBackOrFail
<1>6. CASE QueryForConversion
      BY <1>6 DEF QueryForConversion, FallBackOrFail
<1>7. CASE Choose
      BY <1>7 DEF Choose, callVars
<1>8. CASE CoinsChosen
      BY <1>8 DEF CoinsChosen
<1>9. CASE NotEnoughCoins
      BY <1>9 DEF NotEnoughCoins, FallBackOrFail
<1>10. CASE GetDecoys
      BY <1>10 DEF GetDecoys
<1>11. CASE GetDecoysFails
      BY <1>11 DEF GetDecoysFails, FallBackOrFail
<1>12. CASE InitTx
      BY <1>12 DEF InitTx, FallBackOrFail
<1>13. CASE Send
      BY <1>13 DEF Send, Reaches
<1>14. CASE SendFails
      BY <1>14 DEF SendFails, Reaches, SendError
<1>18. CASE AnswerUnreadable
      BY <1>18 DEF AnswerUnreadable, Reaches
<1>15. CASE CallAgain
      BY <1>15 DEF CallAgain
<1>16. CASE CallReturned
      BY <1>16 DEF CallReturned, txVars, callVars
<1>17. CASE UNCHANGED txVars
      BY <1>17 DEF txVars, callVars
<1> QED
    BY <1>1, <1>2, <1>3, <1>4, <1>5, <1>6, <1>7, <1>8, <1>9, <1>10, <1>11,
       <1>12, <1>13, <1>14, <1>15, <1>16, <1>17, <1>18 DEF TxNext

\* NoDoublePay: however many RPCs fail and however often the caller calls
\* again after an error, the node accepts at most one transaction more than
\* there were accepted ones whose answer could not be read (SendRawTx and
\* SendRawTokenTx hide an error of the connection, but return the one of
\* ParseResponse).
THEOREM PaysAtMostOnce == TxSpec => []NoDoublePay
<1>1. TxInit => PayInv
      BY DEF TxInit, PayInv
<1>2. PayInv => NoDoublePay
      BY DEF PayInv, NoDoublePay
<1> QED
    BY <1>1, <1>2, PayInvStep, PTL DEF TxSpec

-----------------------------------------------------------------------------
(* The parameters of an attempt                                            *)

Preparing == stage \in {"query", "choose", "decoys"}
Transfers == call.route \in {"prv", "token"}

IsInputs(r) == r = [coins |-> r.coins, mine |-> r.mine, decoys |-> r.decoys]

\* Inputs have been prepared; they are not empty where decoys are asked for.
Ready(a) ==
    /\ a \in DOMAIN sel
    /\ version = 2 \/ a # PRV => sel[a].coins # <<>>

CallInv ==
    /\ CallOK(call)
    /\ Preparing \/ stage = "init" => Accepts

\* An attempt is of version 1 or 2; version 1 has a fee.
VersionInv ==
    Preparing \/ stage = "init" =>
        /\ Transfers => version \in {1, 2}
        /\ version = 1 => fee \in Nat \ {0}

\* The assets to prepare are a suffix of those the attempt began with.
TodoInv ==
    /\ Preparing => todo \in {Todo(version), Tail(Todo(version))} /\ todo # <<>>
    /\ stage = "init" => todo = <<>>

SelInv == \A a \in DOMAIN sel : IsInputs(sel[a])

\* What is not to be prepared any more is ready; at "decoys" the first asset
\* has its inputs.
ReadyInv ==
    /\ stage = "decoys" => asset \in DOMAIN sel
    /\ (Preparing \/ stage = "init") /\ Transfers =>
          \A a \in ToSet(Todo(version)) : a \in ToSet(todo) \/ Ready(a)

BuildInv == CallInv /\ VersionInv /\ TodoInv /\ SelInv /\ ReadyInv

\* The version of given coins that were not refused.
LEMMA GivenVersion ==
    ASSUME NEW coins \in Seq(CoinType), GetVersionFromInputCoins(coins) # 0
    PROVE  GetVersionFromInputCoins(coins) \in {1, 2}
<1>1. coins # <<>> /\ GetVersionFromInputCoins(coins) = coins[1].ver
      BY DEF GetVersionFromInputCoins
<1>2. coins[1] \in CoinType
      BY <1>1
<1> QED
    BY <1>1, <1>2 DEF CoinType

\* The version of a transfer that is accepted.
LEMMA AcceptedVersion ==
    ASSUME CallOK(call), Accepts, Transfers
    PROVE  CallVersion \in {-1, 1, 2}
<1>1. CASE ~call.withCoins
      BY <1>1 DEF CallVersion, CallOK
<1>2. CASE call.withCoins /\ call.route = "prv"
  <2>1. call.prvIn.coins \in Seq(CoinType)
        BY DEF CallOK, CoinsIn
  <2>2. GetVersionFromInputCoins(call.prvIn.coins) # 0
        BY <1>2 DEF Accepts, CoinsAccepted
  <2> QED
      BY <1>2, <2>1, <2>2, GivenVersion DEF CallVersion
<1>3. CASE call.withCoins /\ call.route = "token"
  <2>1. call.tokIn.coins \in Seq(CoinType)
        BY DEF CallOK, CoinsIn
  <2>2. GetVersionFromInputCoins(call.tokIn.coins) # 0
        BY <1>3 DEF Accepts, TokenCoinsAccepted
  <2> QED
      BY <1>3, <2>1, <2>2, GivenVersion DEF CallVersion
<1> QED
    BY <1>1, <1>2, <1>3 DEF Transfers

\* The default fee is not zero, whatever makes it.
LEMMA StartFeeIsPositive ==
    ASSUME CallOK(call) PROVE StartFee(1) \in Nat \ {0}
BY CallsAssumption DEF StartFee, CallOK

\* The assets of an attempt: PRV, the token, or PRV and then the token.
LEMMA TodoShape ==
    ASSUME NEW v PROVE Todo(v) \in {<<PRV>>, <<call.tok.asset>>, <<PRV, call.tok.asset>>}
BY DEF Todo

\* Every asset is still to be prepared when an attempt begins.
LEMMA BuildInvInit == TxInit => BuildInv
<1> SUFFICES ASSUME TxInit PROVE BuildInv
    OBVIOUS
<1>1. PICK case \in Cases : call = case.call
      BY DEF TxInit
<1>2. CallOK(call)
      BY <1>1, CallsAssumption
<1>3. stage = "start" /\ sel = NoSel
      BY DEF TxInit
<1> QED
    BY <1>2, <1>3 DEF BuildInv, CallInv, VersionInv, TodoInv, SelInv, ReadyInv,
       Preparing, NoSel

\* Version -1 goes on with version 2, with nothing prepared.
LEMMA FallBackStep ==
    ASSUME BuildInv, Preparing \/ stage = "init", FallBackOrFail
    PROVE  BuildInv'
<1> USE DEF BuildInv
<1>1. CallInv'
      BY DEF CallInv, FallBackOrFail, CallOK, Accepts, CoinsAccepted,
         TokenCoinsAccepted, ConversionCoinsAccepted, isToken
<1>2. SelInv'
      BY DEF SelInv, FallBackOrFail, NoSel
<1>3. CASE stage' = "error"
      BY <1>1, <1>2, <1>3 DEF VersionInv, TodoInv, ReadyInv, Preparing
<1>4. CASE stage' = "query" /\ version' = 2 /\ todo' = Todo(2)
  <2>1. call' = call
        BY DEF FallBackOrFail
  <2>2. Todo(version)' = Todo(2)
        BY <1>4, <2>1 DEF Todo, HasTokenFee, isToken, CallVersion
  <2>3. VersionInv'
        BY <1>4 DEF VersionInv
  <2>4. todo' # <<>>
        BY <1>4, TodoShape
  <2>5. TodoInv'
        BY <1>4, <2>2, <2>4 DEF TodoInv
  <2>6. ReadyInv'
        BY <1>4, <2>2 DEF ReadyInv
  <2> QED
      BY <1>1, <1>2, <2>3, <2>5, <2>6
<1> QED
    BY <1>3, <1>4 DEF FallBackOrFail

\* What depends on the request only.
LEMMA CallKept ==
    ASSUME call' = call
    PROVE  /\ CallOK(call)' = CallOK(call)
           /\ Accepts' = Accepts
           /\ Transfers' = Transfers
           /\ CallVersion' = CallVersion
           /\ HasTokenFee' = HasTokenFee
           /\ isToken' = isToken
           /\ privacy' = privacy
           /\ \A v : Todo(v)' = Todo(v)
<1>1. CallOK(call)' = CallOK(call)
      BY DEF CallOK
<1>2. Accepts' = Accepts
      BY DEF Accepts, CoinsAccepted, TokenCoinsAccepted, ConversionCoinsAccepted,
         isToken
<1>3. CallVersion' = CallVersion
      BY DEF CallVersion
<1>4. HasTokenFee' = HasTokenFee
      BY <1>3 DEF HasTokenFee, isToken
<1> QED
    BY <1>1, <1>2, <1>3, <1>4 DEF Todo, Transfers, isToken, privacy, hasMetadata

\* Tuples of one and two elements.
LEMMA Tails ==
    ASSUME NEW a, NEW b PROVE Tail(<<a>>) = <<>> /\ Tail(<<a, b>>) = <<b>>
<1>1. Tail(<<a>>) = <<>>
      OBVIOUS
<1>2. Tail(<<a, b>>) = <<b>>
      OBVIOUS
<1> QED
    BY <1>1, <1>2

\* What is left to prepare: the last asset, or both.
LEMMA TodoLeft ==
    ASSUME TodoInv, Preparing
    PROVE  \/ todo = Todo(version) /\ todo \in {<<PRV>>, <<call.tok.asset>>}
           \/ todo = Todo(version) /\ todo = <<PRV, call.tok.asset>>
           \/ /\ Todo(version) = <<PRV, call.tok.asset>>
              /\ todo = <<call.tok.asset>>
<1>1. todo # <<>> /\ todo \in {Todo(version), Tail(Todo(version))}
      BY DEF TodoInv
<1>2. CASE Todo(version) = <<PRV>>
      BY <1>1, <1>2, Tails
<1>3. CASE Todo(version) = <<call.tok.asset>>
      BY <1>1, <1>3, Tails
<1>4. CASE Todo(version) = <<PRV, call.tok.asset>>
      BY <1>1, <1>4, Tails
<1> QED
    BY <1>2, <1>3, <1>4, TodoShape

\* The first asset of an attempt.
LEMMA BuildInvStart ==
    ASSUME BuildInv, StartCall PROVE BuildInv'
<1> USE DEF BuildInv
<1>1. call' = call /\ Accepts /\ stage' = "query" /\ sel' = NoSel
      BY DEF StartCall
<1>2. PICK v : /\ v = (IF CallVersion = -1 THEN 1 ELSE CallVersion)
               /\ version' = v /\ fee' = StartFee(v) /\ todo' = Todo(v)
      BY DEF StartCall
<1>3. CallInv'
      BY <1>1, CallKept DEF CallInv
<1>4. VersionInv'
  <2>1. Transfers => v \in {1, 2}
        BY <1>1, <1>2, AcceptedVersion DEF CallInv
  <2>2. v = 1 => fee' \in Nat \ {0}
        BY <1>2, StartFeeIsPositive DEF CallInv
  <2> QED
      BY <1>1, <1>2, <2>1, <2>2, CallKept DEF VersionInv
<1>5. Todo(version)' = todo'
      BY <1>1, <1>2, CallKept
<1>6. TodoInv'
  <2>1. todo' # <<>>
        BY <1>2, TodoShape
  <2> QED
      BY <1>1, <1>5, <2>1 DEF TodoInv
<1>7. SelInv'
      BY <1>1 DEF SelInv, NoSel
<1>8. ReadyInv'
      BY <1>1, <1>5 DEF ReadyInv
<1> QED
    BY <1>3, <1>4, <1>6, <1>7, <1>8

\* The inputs of the asset at hand have been added.
LEMMA BuildInvInputs ==
    ASSUME BuildInv, stage \in {"query", "choose"}, stage' = "decoys",
           NEW ins, IsInputs(ins), sel' = WithInputs(ins),
           UNCHANGED <<call, version, fee, todo>>
    PROVE  BuildInv'
<1> USE DEF BuildInv
<1>1. CallInv' /\ VersionInv' /\ TodoInv'
      BY CallKept DEF CallInv, VersionInv, TodoInv, Preparing
<1>2. DOMAIN sel' = DOMAIN sel \cup {asset} /\ asset' = asset
      BY DEF WithInputs, asset
<1>3. \A a \in DOMAIN sel' : sel'[a] = IF a = asset THEN ins ELSE sel[a]
      BY DEF WithInputs
<1>4. SelInv'
      BY <1>2, <1>3 DEF SelInv, IsInputs
<1>5. asset \in ToSet(todo)
  <2>1. todo \in {<<PRV>>, <<call.tok.asset>>, <<PRV, call.tok.asset>>}
        BY TodoLeft DEF Preparing
  <2> QED
      BY <2>1 DEF asset, ToSet
<1>6. ReadyInv'
  <2>1. \A a \in ToSet(Todo(version)) : a \in ToSet(todo) \/ Ready(a) \/ ~Transfers
        BY DEF ReadyInv, Preparing
  <2>2. ASSUME NEW a \in ToSet(Todo(version)), Transfers
        PROVE  a \in ToSet(todo) \/ Ready(a)'
        BY <1>2, <1>3, <1>5, <2>1, <2>2 DEF Ready
  <2> QED
      BY <1>2, <2>2, CallKept DEF ReadyInv
<1> QED
    BY <1>1, <1>4, <1>6

\* The decoys have come: the asset is ready, or the fee is estimated again.
LEMMA BuildInvDecoys ==
    ASSUME BuildInv, GetDecoys PROVE BuildInv'
<1> USE DEF BuildInv
<1>1. stage = "decoys" /\ Preparing /\ UNCHANGED <<call, version>>
      BY DEF GetDecoys, Preparing
<1>2. CallInv' /\ Accepts /\ CallOK(call)
      BY <1>1, CallKept DEF CallInv
<1>3. CASE version = 2 /\ call.md.type = "inscribe" /\ ~estimated
  <2>1. sel' = NoSel /\ stage' = "query" /\ todo' = todo
        BY <1>3 DEF GetDecoys
  <2>2. VersionInv'
        BY <1>1, <1>3, CallKept DEF VersionInv
  <2>3. TodoInv'
        BY <1>1, <2>1, CallKept DEF TodoInv, Preparing
  <2>4. SelInv'
        BY <2>1 DEF SelInv, NoSel
  <2>5. Todo(version) = <<PRV>> /\ todo = Todo(version)
    <3>1. Todo(version) = <<PRV>>
          BY <1>2, <1>3 DEF CallOK, Todo
    <3>2. <<PRV>> # <<PRV, call.tok.asset>>
          OBVIOUS
    <3> QED
        BY <1>1, <3>1, <3>2, TodoLeft
  <2>6. ReadyInv'
        BY <1>1, <2>1, <2>5, CallKept DEF ReadyInv
  <2> QED
      BY <1>2, <2>2, <2>3, <2>4, <2>6
<1>4. CASE ~(version = 2 /\ call.md.type = "inscribe" /\ ~estimated)
  <2> DEFINE d == IF NeedsDecoys THEN Decoys(Len(sel[asset].coins)) ELSE <<>>
  <2>1. /\ sel' = [sel EXCEPT ![asset].decoys = d]
        /\ todo' = Tail(todo) /\ fee' = fee
        /\ stage' = IF Tail(todo) = <<>> THEN "init" ELSE "query"
        /\ NeedsDecoys => Len(sel[asset].coins) > 0
        BY <1>4 DEF GetDecoys
  <2> HIDE DEF d
  <2>2. asset \in DOMAIN sel /\ IsInputs(sel[asset])
        BY <1>1 DEF ReadyInv, SelInv
  <2>3. /\ DOMAIN sel' = DOMAIN sel
        /\ \A a \in DOMAIN sel : a # asset => sel'[a] = sel[a]
        /\ sel'[asset] = [sel[asset] EXCEPT !.decoys = d]
        BY <2>1, <2>2
  <2>4. sel'[asset] = [coins |-> sel[asset].coins, mine |-> sel[asset].mine,
                       decoys |-> d]
        BY <2>2, <2>3 DEF IsInputs
  <2>5. SelInv'
        BY <2>3, <2>4 DEF SelInv, IsInputs
  <2>6. VersionInv'
        BY <1>1, <2>1, CallKept DEF VersionInv
  <2>7. version = 2 \/ asset # PRV => sel'[asset].coins # <<>>
        BY <2>1, <2>4 DEF NeedsDecoys
  <2>8. TodoInv' /\ \A a \in ToSet(todo) : a = asset \/ a \in ToSet(todo')
    <3>1. CASE todo = Todo(version) /\ todo = <<PRV, call.tok.asset>>
      <4>1. todo' = <<call.tok.asset>> /\ todo' # <<>> /\ stage' = "query"
            BY <2>1, <3>1, Tails
      <4>2. Todo(version)' = todo
            BY <1>1, <3>1, CallKept
      <4>3. TodoInv'
            BY <2>1, <4>1, <4>2 DEF TodoInv
      <4> QED
          BY <3>1, <4>1, <4>3 DEF ToSet, asset
    <3>2. CASE todo \in {<<PRV>>, <<call.tok.asset>>}
      <4>1. todo' = <<>> /\ stage' = "init"
            BY <2>1, <3>2, Tails
      <4> QED
          BY <3>2, <4>1 DEF TodoInv, Preparing, ToSet, asset
    <3> QED
        BY <1>1, <3>1, <3>2, TodoLeft
  <2>9. ReadyInv'
    <3>1. stage' # "decoys"
          BY <2>1
    <3>2. ASSUME NEW a \in ToSet(Todo(version)), Transfers
          PROVE  a \in ToSet(todo') \/ Ready(a)'
      <4>1. a \in ToSet(todo) \/ Ready(a)
            BY <1>1, <3>2 DEF ReadyInv
      <4> QED
          BY <1>1, <2>2, <2>3, <2>7, <2>8, <4>1 DEF Ready
    <3> QED
        BY <1>1, <3>1, <3>2, CallKept DEF ReadyInv
  <2> QED
      BY <1>2, <2>5, <2>6, <2>8, <2>9
<1> QED
    BY <1>3, <1>4

\* Nothing the invariant is about changes, and no attempt begins.
LEMMA BuildInvKept ==
    ASSUME BuildInv, UNCHANGED <<call, version, fee, todo, sel>>,
           \/ stage' = stage
           \/ stage = "query" /\ stage' = "choose"
           \/ ~Preparing' /\ stage' # "init"
    PROVE  BuildInv'
<1> USE DEF BuildInv
<1>1. CallInv' /\ VersionInv' /\ TodoInv' /\ SelInv'
      BY CallKept DEF CallInv, VersionInv, TodoInv, SelInv, Preparing, IsInputs
<1>2. \A a : Ready(a)' = Ready(a)
      BY DEF Ready
<1>3. asset' = asset
      BY DEF asset
<1>4. ReadyInv'
  <2>1. CASE ~Preparing' /\ stage' # "init"
        BY <2>1 DEF ReadyInv, Preparing
  <2>2. CASE stage' = stage \/ (stage = "query" /\ stage' = "choose")
    <3>1. Todo(version)' = Todo(version) /\ Transfers' = Transfers
          BY CallKept
    <3> QED
        BY <1>2, <1>3, <2>2, <3>1 DEF ReadyInv, Preparing
  <2> QED
      BY <2>1, <2>2
<1> QED
    BY <1>1, <1>4

\* The version 1 coins of a conversion.
LEMMA BuildInvConvert ==
    ASSUME BuildInv, QueryForConversion PROVE BuildInv'
<1> DEFINE v1 == OfVersion(GetUnspentOutputCoins(ledger[asset], spent), 1)
           coins == ConvertedCoins([k \in DOMAIN v1 |-> v1[k].coin])
           ins == [coins |-> coins, mine |-> <<>>, decoys |-> <<>>]
<1>1. stage = "query" /\ converting /\ Preparing
      BY DEF QueryForConversion, Preparing
<1>2. CASE FallBackOrFail
      BY <1>1, <1>2, FallBackStep
<1>3. CASE /\ sel' = WithInputs(ins) /\ todo' = <<>> /\ stage' = "init"
           /\ UNCHANGED <<call, version, fee>>
  <2> HIDE DEF coins, v1
  <2>1. ~Transfers /\ ~Transfers'
        BY <1>1, <1>3, CallKept DEF converting, Transfers
  <2>2. CallInv' /\ VersionInv' /\ TodoInv' /\ ReadyInv'
        BY <1>1, <1>3, <2>1, CallKept DEF BuildInv, CallInv, VersionInv, TodoInv,
           ReadyInv, Preparing
  <2>3. SelInv'
        BY <1>3 DEF BuildInv, SelInv, WithInputs, IsInputs
  <2> QED
      BY <2>2, <2>3 DEF BuildInv
<1> QED
    BY <1>2, <1>3 DEF QueryForConversion

\* Every step preserves BuildInv.
LEMMA BuildInvStep ==
    BuildInv /\ [TxNext]_txVars => BuildInv'
<1> SUFFICES ASSUME BuildInv, [TxNext]_txVars PROVE BuildInv'
    OBVIOUS
<1>1. CASE StartCall
      BY <1>1, BuildInvStart
<1>2. CASE RefuseCall
      BY <1>2, BuildInvKept DEF RefuseCall, Preparing
<1>3. CASE UseGivenCoins
  <2> DEFINE ins == [coins |-> Given.coins, mine |-> Given.idx, decoys |-> <<>>]
  <2>1. IsInputs(ins) /\ sel' = WithInputs(ins)
        BY <1>3 DEF UseGivenCoins, IsInputs
  <2> QED
      BY <1>3, <2>1, BuildInvInputs DEF UseGivenCoins
<1>4. CASE QueryCoins
      BY <1>4, BuildInvKept DEF QueryCoins
<1>5. CASE QueryFails
      BY <1>5, FallBackStep DEF QueryFails, Preparing
<1>6. CASE QueryForConversion
      BY <1>6, BuildInvConvert
<1>7. CASE Choose
      BY <1>7, BuildInvKept DEF Choose, callVars
<1>8. CASE CoinsChosen
  <2> DEFINE ins == [coins |-> [k \in DOMAIN chosen |-> cands[chosen[k]].coin],
                     mine  |-> [k \in DOMAIN chosen |-> cands[chosen[k]].idx],
                     decoys |-> <<>>]
  <2>1. IsInputs(ins) /\ sel' = WithInputs(ins)
        BY <1>8 DEF CoinsChosen, IsInputs
  <2> HIDE DEF ins
  <2> QED
      BY <1>8, <2>1, BuildInvInputs DEF CoinsChosen
<1>9. CASE NotEnoughCoins
      BY <1>9, FallBackStep DEF NotEnoughCoins, Preparing
<1>10. CASE GetDecoys
      BY <1>10, BuildInvDecoys
<1>11. CASE GetDecoysFails
      BY <1>11, FallBackStep DEF GetDecoysFails, Preparing
<1>12. CASE InitTx
  <2>1. CASE FallBackOrFail
        BY <1>12, <2>1, FallBackStep DEF InitTx
  <2>2. CASE stage' = "send" /\ UNCHANGED <<call, version, fee, todo, sel>>
        BY <2>2, BuildInvKept DEF Preparing
  <2> QED
      BY <1>12, <2>1, <2>2 DEF InitTx
<1>13. CASE Send
      BY <1>13, BuildInvKept DEF Send, Preparing
<1>14. CASE SendFails \/ AnswerUnreadable
      BY <1>14, BuildInvKept DEF SendFails, AnswerUnreadable, SendError, Preparing
<1>15. CASE CallAgain
      BY <1>15, BuildInvKept DEF CallAgain, Preparing
<1>16. CASE CallReturned
      BY <1>16, BuildInvKept DEF CallReturned, txVars, callVars
<1>17. CASE UNCHANGED txVars
      BY <1>17, BuildInvKept DEF txVars, callVars
<1> QED
    BY <1>1, <1>2, <1>3, <1>4, <1>5, <1>6, <1>7, <1>8, <1>9, <1>10, <1>11,
       <1>12, <1>13, <1>14, <1>15, <1>16, <1>17 DEF TxNext

-----------------------------------------------------------------------------
(* The transaction layer                                                   *)

IsTx(t) ==
    t = [ver |-> t.ver, type |-> t.type, lock |-> t.lock, fee |-> t.fee,
         md |-> t.md, mdSig |-> t.mdSig, proof |-> t.proof, ins |-> t.ins,
         outs |-> t.outs, ring |-> t.ring, sig |-> t.sig]

IsParams(p) ==
    p = [asset |-> p.asset, ins |-> p.ins, pays |-> p.pays, fee |-> p.fee,
         privacy |-> p.privacy, md |-> p.md, mine |-> p.mine,
         decoys |-> p.decoys, kind |-> p.kind, amount |-> p.amount]

\* The coins of t are those of s.
SameCoins(s, t) == s.ins = t.ins /\ s.outs = t.outs /\ s.fee = t.fee

\* The rest of what a hash covers, and the type of the proof.
SameKind(s, t) ==
    /\ s.ver = t.ver /\ s.type = t.type /\ s.lock = t.lock
    /\ s.md = t.md /\ s.mdSig = t.mdSig /\ s.proof = t.proof

IsData(d) == d = [id |-> d.id, kind |-> d.kind, sub |-> d.sub]
IsWhole(t) == t = Whole(t.base, t.data)

\* s is the transaction t with the field f set to x.
SetTo(t, s, f, x) ==
    /\ IsTx(s)
    /\ s.ver = (IF f = "ver" THEN x ELSE t.ver)
    /\ s.type = (IF f = "type" THEN x ELSE t.type)
    /\ s.lock = (IF f = "lock" THEN x ELSE t.lock)
    /\ s.fee = (IF f = "fee" THEN x ELSE t.fee)
    /\ s.md = (IF f = "md" THEN x ELSE t.md)
    /\ s.mdSig = (IF f = "mdSig" THEN x ELSE t.mdSig)
    /\ s.proof = (IF f = "proof" THEN x ELSE t.proof)
    /\ s.ins = (IF f = "ins" THEN x ELSE t.ins)
    /\ s.outs = (IF f = "outs" THEN x ELSE t.outs)
    /\ s.ring = (IF f = "ring" THEN x ELSE t.ring)
    /\ s.sig = (IF f = "sig" THEN x ELSE t.sig)

\* One field of a transaction set, the others kept.
LEMMA FieldSet ==
    ASSUME NEW t, IsTx(t), NEW x
    PROVE  /\ SetTo(t, [t EXCEPT !.ver = x], "ver", x)
           /\ SetTo(t, [t EXCEPT !.type = x], "type", x)
           /\ SetTo(t, [t EXCEPT !.lock = x], "lock", x)
           /\ SetTo(t, [t EXCEPT !.fee = x], "fee", x)
           /\ SetTo(t, [t EXCEPT !.md = x], "md", x)
           /\ SetTo(t, [t EXCEPT !.mdSig = x], "mdSig", x)
           /\ SetTo(t, [t EXCEPT !.proof = x], "proof", x)
           /\ SetTo(t, [t EXCEPT !.ins = x], "ins", x)
           /\ SetTo(t, [t EXCEPT !.outs = x], "outs", x)
           /\ SetTo(t, [t EXCEPT !.ring = x], "ring", x)
           /\ SetTo(t, [t EXCEPT !.sig = x], "sig", x)
BY DEF IsTx, SetTo

\* The result is a transaction.
LEMMA SetIsTx ==
    ASSUME NEW t, NEW s, NEW f, NEW x, SetTo(t, s, f, x) PROVE IsTx(s)
BY DEF SetTo

\* EmptyTx is a transaction.
LEMMA EmptyIsTx ==
    /\ IsTx(EmptyTx) /\ EmptyTx.ins = <<>> /\ EmptyTx.outs = <<>>
    /\ EmptyTx.lock = 0 /\ EmptyTx.fee = 0 /\ EmptyTx.md = NoMetadata
    /\ EmptyTx.mdSig = <<>> /\ EmptyTx.proof = "nil" /\ EmptyTx.ring = NoRing
BY DEF IsTx, EmptyTx

\* A fresh transaction takes its version, fee and metadata from the parameters.
LEMMA Initialized ==
    ASSUME NEW t, IsTx(t), NEW p, NEW now
    PROVE  LET s == InitializeTxAndParams(t, p, now)
           IN  /\ IsTx(s) /\ s.ver = GetTxVersionFromCoins(p.ins)
               /\ s.fee = p.fee /\ s.ins = t.ins /\ s.outs = t.outs
               /\ s.type = "n" /\ s.lock = (IF t.lock = 0 THEN now ELSE t.lock)
               /\ s.md = p.md /\ s.mdSig = t.mdSig
               /\ s.proof = t.proof /\ s.ring = t.ring
<1>1. PICK v : v = GetTxVersionFromCoins(p.ins)
      OBVIOUS
<1>2. PICK lock : lock = IF t.lock = 0 THEN now ELSE t.lock
      OBVIOUS
<1>3. PICK t1 : t1 = [t EXCEPT !.ver = v]
      OBVIOUS
<1>4. PICK t2 : t2 = [t1 EXCEPT !.type = "n"]
      OBVIOUS
<1>5. PICK t3 : t3 = [t2 EXCEPT !.lock = lock]
      OBVIOUS
<1>6. PICK t4 : t4 = [t3 EXCEPT !.fee = p.fee]
      OBVIOUS
<1>7. PICK t5 : t5 = [t4 EXCEPT !.md = p.md]
      OBVIOUS
<1>8. InitializeTxAndParams(t, p, now) = t5
      BY <1>1, <1>2, <1>3, <1>4, <1>5, <1>6, <1>7 DEF InitializeTxAndParams
<1>9. SetTo(t, t1, "ver", v) /\ SetTo(t1, t2, "type", "n")
      BY <1>3, <1>4, FieldSet, SetIsTx
<1>10. SetTo(t2, t3, "lock", lock) /\ SetTo(t3, t4, "fee", p.fee)
      BY <1>5, <1>6, <1>9, FieldSet, SetIsTx
<1>11. SetTo(t4, t5, "md", p.md)
      BY <1>7, <1>10, FieldSet, SetIsTx
<1> QED
    BY <1>1, <1>2, <1>8, <1>9, <1>10, <1>11 DEF SetTo

\* The inputs and outputs of a proof.
LEMMA ProvedCoins ==
    ASSUME NEW t, IsTx(t), NEW p, NEW proof
    PROVE  LET s == Proved(t, p, proof)
           IN  /\ IsTx(s) /\ s.ver = t.ver /\ s.fee = t.fee
               /\ s.ins = p.ins /\ s.outs = OutputCoins(p)
               /\ s.type = t.type /\ s.lock = t.lock /\ s.md = t.md
               /\ s.mdSig = t.mdSig /\ s.proof = proof /\ s.ring = t.ring
<1>1. PICK t1 : t1 = [t EXCEPT !.proof = proof]
      OBVIOUS
<1>2. PICK t2 : t2 = [t1 EXCEPT !.ins = p.ins]
      OBVIOUS
<1>3. PICK t3 : t3 = [t2 EXCEPT !.outs = OutputCoins(p)]
      OBVIOUS
<1>4. Proved(t, p, proof) = t3
      BY <1>1, <1>2, <1>3 DEF Proved
<1>5. SetTo(t, t1, "proof", proof) /\ SetTo(t1, t2, "ins", p.ins)
      BY <1>1, <1>2, FieldSet, SetIsTx
<1>6. SetTo(t2, t3, "outs", OutputCoins(p))
      BY <1>3, <1>5, FieldSet, SetIsTx
<1> QED
    BY <1>4, <1>5, <1>6 DEF SetTo

\* CalculateSentBackInfo appends the change to the payments, or nothing.
LEMMA ChangeIsLast ==
    ASSUME NEW p, IsParams(p), p.pays \in Payments
    PROVE  LET q == CalculateSentBackInfo(p)
           IN  /\ IsParams(q) /\ q.ins = p.ins /\ q.fee = p.fee
               /\ q.privacy = p.privacy /\ q.asset = p.asset
               /\ q.md = p.md /\ q.mine = p.mine /\ q.decoys = p.decoys
               /\ Pays(OutputCoins(q), p.pays)
               /\ DOMAIN OutputCoins(q) = 1..Len(OutputCoins(q))
               /\ Len(OutputCoins(q)) \in Nat
<1> DEFINE q == CalculateSentBackInfo(p)
<1>1. CASE OverBalance(p) > 0
  <2>1. PICK change : change = [to |-> Sender, val |-> OverBalance(p)]
        OBVIOUS
  <2>2. PICK pays : pays = Append(p.pays, change)
        OBVIOUS
  <2>3. PICK r : r = [p EXCEPT !.pays = pays]
        OBVIOUS
  <2>4. q = r
        BY <1>1, <2>1, <2>2, <2>3 DEF CalculateSentBackInfo
  <2>5. /\ IsParams(r) /\ r.ins = p.ins /\ r.fee = p.fee /\ r.pays = pays
        /\ r.privacy = p.privacy /\ r.asset = p.asset
        /\ r.md = p.md /\ r.mine = p.mine /\ r.decoys = p.decoys
        BY <2>3 DEF IsParams
  <2>6. /\ Len(pays) = Len(p.pays) + 1 /\ DOMAIN pays = 1..(Len(p.pays) + 1)
        /\ \A k \in DOMAIN p.pays : pays[k] = p.pays[k]
        /\ pays[Len(p.pays) + 1] = change
        /\ DOMAIN p.pays = 1..Len(p.pays) /\ Len(p.pays) \in Nat
        BY <2>2 DEF Payments
  <2>7. PICK outs : outs = OutputCoins(r)
        OBVIOUS
  <2>8. outs = [k \in 1..(Len(p.pays) + 1) |->
                   [to |-> pays[k].to, val |-> pays[k].val, asset |-> r.asset]]
        BY <2>5, <2>6, <2>7 DEF OutputCoins
  <2>9. Len(outs) = Len(p.pays) + 1 /\ DOMAIN outs = 1..(Len(p.pays) + 1)
        BY <2>6, <2>8
  <2>10. \A k \in DOMAIN p.pays : outs[k].to = p.pays[k].to
                                  /\ outs[k].val = p.pays[k].val
        BY <2>6, <2>8
  <2>11. Last(outs).to = Sender /\ Last(outs).val > 0
    <3>1. Last(outs) = [to |-> change.to, val |-> change.val, asset |-> r.asset]
          BY <2>6, <2>8, <2>9 DEF Last
    <3> QED
        BY <1>1, <2>1, <3>1
  <2>12. Pays(outs, p.pays)
        BY <2>6, <2>9, <2>10, <2>11 DEF Pays
  <2> QED
      BY <2>4, <2>5, <2>6, <2>7, <2>9, <2>12
<1>2. CASE ~(OverBalance(p) > 0)
  <2>1. q = p
        BY <1>2 DEF CalculateSentBackInfo
  <2>2. DOMAIN p.pays = 1..Len(p.pays) /\ Len(p.pays) \in Nat
        BY DEF Payments
  <2>3. PICK outs : outs = OutputCoins(p)
        OBVIOUS
  <2>4. outs = [k \in 1..Len(p.pays) |->
                   [to |-> p.pays[k].to, val |-> p.pays[k].val, asset |-> p.asset]]
        BY <2>2, <2>3 DEF OutputCoins
  <2>5. Len(outs) = Len(p.pays) /\ DOMAIN outs = 1..Len(p.pays)
        BY <2>2, <2>4
  <2>6. Pays(outs, p.pays)
        BY <2>2, <2>4, <2>5 DEF Pays
  <2> QED
      BY <2>1, <2>2, <2>3, <2>5, <2>6
<1> QED
    BY <1>1, <1>2

\* A part of a version 1 transaction, signed.
Signed1(t) ==
    /\ IsTx(t) /\ t.ver = 1 /\ t.proof \in {"nil", "ProofV1"}
    /\ t.ring = NoRing /\ t.sig = HashVer1(t)

\* A version 1 transaction holds its inputs, payments and change; it holds
\* none only if it has no input, no fee and no privacy.
LEMMA Version1Coins ==
    ASSUME NEW p, IsParams(p), p.pays \in Payments, ~Failed(InitVer1(p))
    PROVE  LET t == InitVer1(p)
               q == CalculateSentBackInfo(p)
           IN  /\ IsTx(t) /\ t.ver = 1 /\ t.fee = p.fee /\ OverBalance(p) >= 0
               /\ \/ t.ins = p.ins /\ t.outs = OutputCoins(q)
                  \/ IsNonPrivacyNonInput(p) /\ t.ins = <<>> /\ t.outs = <<>>
               /\ Signed1(t) /\ t.type = "n"
<1>1. PICK q : q = CalculateSentBackInfo(p)
      OBVIOUS
<1>2. PICK t0 : t0 = InitializeTxAndParams(EmptyTx, q, 1)
      OBVIOUS
<1>3. PICK t : t = [t0 EXCEPT !.ver = 1]
      OBVIOUS
<1>4. q.ins = p.ins /\ q.fee = p.fee /\ q.privacy = p.privacy
      BY <1>1, ChangeIsLast
<1>5. /\ IsTx(t0) /\ t0.fee = p.fee /\ t0.ins = <<>> /\ t0.outs = <<>>
      /\ t0.type = "n" /\ t0.proof = "nil" /\ t0.ring = NoRing
      BY <1>2, <1>4, Initialized, EmptyIsTx
<1>6. /\ IsTx(t) /\ t.ver = 1 /\ t.fee = p.fee /\ t.ins = <<>> /\ t.outs = <<>>
      /\ t.type = "n" /\ t.proof = "nil" /\ t.ring = NoRing
  <2>1. SetTo(t0, t, "ver", 1)
        BY <1>3, <1>5, FieldSet
  <2> QED
      BY <1>5, <2>1 DEF SetTo
<1>7. /\ ~Initializes(p) => InitVer1(p) = NoTx
      /\ Initializes(p) /\ IsNonPrivacyNonInput(q) =>
            InitVer1(p) = [t EXCEPT !.sig = HashVer1(t)]
      /\ Initializes(p) /\ ~IsNonPrivacyNonInput(q) =>
            InitVer1(p) \in {NoTx, SignVer1(ProveVer1(t, q))}
      BY <1>1, <1>2, <1>3 DEF InitVer1
<1>8. Failed(NoTx)
      BY DEF Failed, NoTx
<1>9. Initializes(p)
      BY <1>7, <1>8
<1>10. OverBalance(p) >= 0
      BY <1>9 DEF Initializes
<1>11. CASE IsNonPrivacyNonInput(q)
  <2>1. PICK s : s = [t EXCEPT !.sig = HashVer1(t)]
        OBVIOUS
  <2>2. InitVer1(p) = s
        BY <1>7, <1>9, <1>11, <2>1
  <2>3. SetTo(t, s, "sig", HashVer1(t))
        BY <1>6, <2>1, FieldSet
  <2>4. /\ IsTx(s) /\ s.ver = 1 /\ s.fee = p.fee /\ s.ins = <<>> /\ s.outs = <<>>
        /\ s.type = "n" /\ Signed1(s)
        BY <1>6, <2>3 DEF SetTo, Signed1, HashVer1
  <2>5. IsNonPrivacyNonInput(p)
        BY <1>4, <1>11 DEF IsNonPrivacyNonInput
  <2> QED
      BY <1>10, <2>2, <2>4, <2>5
<1>12. CASE ~IsNonPrivacyNonInput(q)
  <2>1. PICK r : r = ProveVer1(t, q)
        OBVIOUS
  <2>2. PICK s : s = [r EXCEPT !.sig = HashVer1(r)]
        OBVIOUS
  <2>3. InitVer1(p) = s
        BY <1>7, <1>8, <1>9, <1>12, <2>1, <2>2 DEF SignVer1
  <2>4. /\ IsTx(r) /\ r.ver = 1 /\ r.fee = p.fee /\ r.ins = p.ins
        /\ r.outs = OutputCoins(q)
        /\ r.type = "n" /\ r.proof = "ProofV1" /\ r.ring = NoRing
        BY <1>4, <1>6, <2>1, ProvedCoins DEF ProveVer1
  <2>5. SetTo(r, s, "sig", HashVer1(r))
        BY <2>2, <2>4, FieldSet
  <2>6. /\ IsTx(s) /\ s.ver = 1 /\ s.fee = p.fee /\ s.ins = p.ins
        /\ s.outs = OutputCoins(q) /\ s.type = "n" /\ Signed1(s)
        BY <2>4, <2>5 DEF SetTo, Signed1, HashVer1
  <2> QED
      BY <1>1, <1>10, <2>3, <2>6
<1> QED
    BY <1>11, <1>12

\* What the metadata signature is made on.
LEMMA MetadataHash ==
    ASSUME NEW t, IsTx(t)
    PROVE  HashWithoutMetadataSig(t) =
               <<t.md, <<t.ver, t.type, t.lock, t.fee, t.ins, t.outs,
                         NoMetadata, <<>>>>>>
<1>1. PICK r : r = [t EXCEPT !.md = NoMetadata]
      OBVIOUS
<1>2. PICK s : s = [r EXCEPT !.mdSig = <<>>]
      OBVIOUS
<1>3. SetTo(t, r, "md", NoMetadata)
      BY <1>1, FieldSet
<1>4. SetTo(r, s, "mdSig", <<>>)
      BY <1>2, <1>3, FieldSet, SetIsTx
<1>5. HashVer2(s) = <<t.ver, t.type, t.lock, t.fee, t.ins, t.outs, NoMetadata, <<>>>>
      BY <1>3, <1>4 DEF SetTo, HashVer2
<1>6. HashWithoutMetadataSig(t) = <<t.md, HashVer2(s)>>
      BY <1>1, <1>2 DEF HashWithoutMetadataSig
<1> QED
    BY <1>5, <1>6

\* The metadata is signed, if it is.
MetadataSigned(t) == t.mdSig # <<>> => t.mdSig = HashWithoutMetadataSig(t)

\* tx.prove / tx.provePRV: the metadata signature changes no coin.
LEMMA ProvedPRV ==
    ASSUME NEW t, IsTx(t), NEW p
    PROVE  LET s == ProvePRV(t, p)
           IN  /\ IsTx(s) /\ s.ver = t.ver /\ s.fee = t.fee
               /\ s.ins = p.ins /\ s.outs = OutputCoins(p)
               /\ s.type = t.type /\ s.lock = t.lock /\ s.proof = "ProofV2"
               /\ t.mdSig = <<>> => MetadataSigned(s)
<1>1. PICK r : r = Proved(t, p, "ProofV2")
      OBVIOUS
<1>2. /\ IsTx(r) /\ r.ver = t.ver /\ r.fee = t.fee
      /\ r.ins = p.ins /\ r.outs = OutputCoins(p)
      /\ r.type = t.type /\ r.lock = t.lock /\ r.proof = "ProofV2"
      /\ r.mdSig = t.mdSig
      BY <1>1, ProvedCoins
<1>3. PICK s : s = [r EXCEPT !.mdSig = HashWithoutMetadataSig(r)]
      OBVIOUS
<1>4. SetTo(r, s, "mdSig", HashWithoutMetadataSig(r))
      BY <1>2, <1>3, FieldSet
<1>5. ProvePRV(t, p) \in {r, s}
      BY <1>1, <1>3 DEF ProvePRV, SignMetadata
<1>6. /\ IsTx(s) /\ s.ver = t.ver /\ s.fee = t.fee
      /\ s.ins = p.ins /\ s.outs = OutputCoins(p)
      /\ s.type = t.type /\ s.lock = t.lock /\ s.proof = "ProofV2"
      BY <1>2, <1>4 DEF SetTo
<1>7. MetadataSigned(s)
  <2>1. HashWithoutMetadataSig(s) = HashWithoutMetadataSig(r)
    <3>1. s.md = r.md /\ s.fee = r.fee /\ s.ins = r.ins /\ s.outs = r.outs
          /\ s.ver = r.ver /\ s.type = r.type /\ s.lock = r.lock
          BY <1>4 DEF SetTo
    <3> QED
        BY <1>2, <1>6, <3>1, MetadataHash
  <2>2. s.mdSig = HashWithoutMetadataSig(r)
        BY <1>4 DEF SetTo
  <2> QED
      BY <2>1, <2>2 DEF MetadataSigned
<1>8. t.mdSig = <<>> => MetadataSigned(r)
      BY <1>2 DEF MetadataSigned
<1> QED
    BY <1>2, <1>5, <1>6, <1>7, <1>8

\* The ring signature of a part: made only if the commitments cancel.
LEMMA SignedCoins ==
    ASSUME NEW t, IsTx(t), NEW p, NEW message, NEW pi,
           ~Failed(SignOnMessage(t, p, message, pi))
    PROVE  LET s == SignOnMessage(t, p, message, pi)
           IN  /\ IsTx(s) /\ s.ver = t.ver /\ SameCoins(s, t)
               /\ CommitmentsSumToZero(t.ins, t.outs, t.fee)
               /\ SameKind(s, t) /\ s.sig = message
               /\ s.ring = GenerateRing(p, pi) /\ RingParamsOK(p)
<1>1. Failed(NoTx)
      BY DEF Failed, NoTx
<1>2. CommitmentsSumToZero(t.ins, t.outs, t.fee) /\ RingParamsOK(p)
      BY <1>1 DEF SignOnMessage
<1>3. PICK ring : ring = GenerateRing(p, pi)
      OBVIOUS
<1>4. PICK s : s = SignOnMessage(t, p, message, pi)
      OBVIOUS
<1>5. PICK r : r = [t EXCEPT !.ring = ring]
      OBVIOUS
<1>6. s = [r EXCEPT !.sig = message]
      BY <1>2, <1>3, <1>4, <1>5 DEF SignOnMessage
<1>7. SetTo(t, r, "ring", ring) /\ SetTo(r, s, "sig", message)
      BY <1>5, <1>6, FieldSet, SetIsTx
<1>8. /\ IsTx(s) /\ s.ver = t.ver /\ SameCoins(s, t) /\ SameKind(s, t)
      /\ s.sig = message /\ s.ring = ring
      BY <1>7 DEF SetTo, SameCoins, SameKind
<1> QED
    BY <1>2, <1>3, <1>4, <1>8

\* The same for the token part, asset by asset.
LEMMA SignedCoinsCA ==
    ASSUME NEW t, IsTx(t), NEW p, NEW message, NEW pi,
           ~Failed(SignCA(t, p, message, pi))
    PROVE  LET s == SignCA(t, p, message, pi)
           IN  /\ IsTx(s) /\ s.ver = t.ver /\ SameCoins(s, t)
               /\ AssetTagsSumToZero(t.ins, t.outs)
               /\ CommitmentsSumToZeroCA(t.ins, t.outs)
               /\ SameKind(s, t) /\ s.sig = message
               /\ s.ring = GenerateRing(p, pi) /\ RingParamsOK(p)
<1>1. Failed(NoTx)
      BY DEF Failed, NoTx
<1>2. /\ RingParamsOK(p) /\ AssetTagsSumToZero(t.ins, t.outs)
      /\ CommitmentsSumToZeroCA(t.ins, t.outs)
      BY <1>1 DEF SignCA
<1>3. PICK ring : ring = GenerateRing(p, pi)
      OBVIOUS
<1>4. PICK s : s = SignCA(t, p, message, pi)
      OBVIOUS
<1>5. PICK r : r = [t EXCEPT !.ring = ring]
      OBVIOUS
<1>6. s = [r EXCEPT !.sig = message]
      BY <1>2, <1>3, <1>4, <1>5 DEF SignCA
<1>7. SetTo(t, r, "ring", ring) /\ SetTo(r, s, "sig", message)
      BY <1>5, <1>6, FieldSet, SetIsTx
<1>8. /\ IsTx(s) /\ s.ver = t.ver /\ SameCoins(s, t) /\ SameKind(s, t)
      /\ s.sig = message /\ s.ring = ring
      BY <1>7 DEF SetTo, SameCoins, SameKind
<1> QED
    BY <1>2, <1>3, <1>4, <1>8

\* What the hashes cover has not changed.
LEMMA HashesKept ==
    ASSUME NEW s, NEW t, IsTx(s), IsTx(t), SameCoins(s, t), SameKind(s, t)
    PROVE  HashVer2(s) = HashVer2(t) /\ (MetadataSigned(t) => MetadataSigned(s))
<1>1. HashWithoutMetadataSig(s) = HashWithoutMetadataSig(t)
      BY MetadataHash DEF SameCoins, SameKind
<1>2. HashVer2(s) = HashVer2(t)
      BY DEF SameCoins, SameKind, HashVer2
<1> QED
    BY <1>1, <1>2 DEF MetadataSigned, SameKind

\* The ring of t was made with the parameters p.
RingMade(t, p, pi) == RingParamsOK(p) /\ t.ring = GenerateRing(p, pi)

\* The change makes no difference to a ring.
LEMMA RingWithChange ==
    ASSUME NEW p, IsParams(p), p.pays \in Payments, NEW q,
           q = CalculateSentBackInfo(p), NEW t, NEW pi, RingMade(t, q, pi)
    PROVE  RingMade(t, p, pi)
<1>1. q.ins = p.ins /\ q.mine = p.mine /\ q.decoys = p.decoys
      BY ChangeIsLast
<1> QED
    BY <1>1 DEF RingMade, RingParamsOK, GenerateRing

\* A version 2 transaction with inputs holds them, the payments and the
\* change, and they balance.
LEMMA Version2Coins ==
    ASSUME NEW p, IsParams(p), p.pays \in Payments, p.ins # <<>>, NEW pi,
           ~Failed(InitVer2(p, pi))
    PROVE  LET t == InitVer2(p, pi)
           IN  /\ IsTx(t) /\ t.ins = p.ins /\ t.fee = p.fee
               /\ t.outs = OutputCoins(CalculateSentBackInfo(p))
               /\ CommitmentsSumToZero(t.ins, t.outs, t.fee)
               /\ t.ver = GetTxVersionFromCoins(p.ins) /\ t.type = "n"
               /\ t.proof = "ProofV2" /\ MetadataSigned(t)
               /\ t.sig = HashVer2(t) /\ RingMade(t, p, pi)
<1>1. PICK q : q = CalculateSentBackInfo(p)
      OBVIOUS
<1>2. PICK t : t = InitializeTxAndParams(EmptyTx, q, 1)
      OBVIOUS
<1>3. PICK proved : proved = ProvePRV(t, q)
      OBVIOUS
<1>4. PICK signed : signed = SignOnMessage(proved, q, HashVer2(proved), pi)
      OBVIOUS
<1>5. q.ins = p.ins /\ q.fee = p.fee /\ ~IsNonPrivacyNonInput(q)
      BY <1>1, ChangeIsLast DEF IsNonPrivacyNonInput
<1>6. InitVer2(p, pi) \in {NoTx, signed}
      BY <1>1, <1>2, <1>3, <1>4, <1>5 DEF InitVer2
<1>7. InitVer2(p, pi) = signed /\ ~Failed(signed)
      BY <1>6 DEF Failed, NoTx
<1>8. /\ IsTx(t) /\ t.fee = p.fee /\ t.ver = GetTxVersionFromCoins(p.ins)
      /\ t.type = "n" /\ t.mdSig = <<>>
      BY <1>2, <1>5, Initialized, EmptyIsTx
<1>9. /\ IsTx(proved) /\ proved.fee = p.fee /\ proved.ins = p.ins
      /\ proved.outs = OutputCoins(q) /\ proved.ver = t.ver
      /\ proved.type = "n" /\ proved.proof = "ProofV2" /\ MetadataSigned(proved)
      BY <1>3, <1>5, <1>8, ProvedPRV
<1>10. /\ IsTx(signed) /\ SameCoins(signed, proved) /\ SameKind(signed, proved)
       /\ CommitmentsSumToZero(proved.ins, proved.outs, proved.fee)
       /\ signed.sig = HashVer2(proved) /\ RingMade(signed, q, pi)
      BY <1>4, <1>7, <1>9, SignedCoins DEF RingMade
<1>11. /\ signed.ins = p.ins /\ signed.fee = p.fee /\ signed.outs = OutputCoins(q)
       /\ signed.ver = GetTxVersionFromCoins(p.ins) /\ signed.type = "n"
       /\ signed.proof = "ProofV2"
      BY <1>8, <1>9, <1>10 DEF SameCoins, SameKind
<1>12. MetadataSigned(signed) /\ signed.sig = HashVer2(signed)
      BY <1>9, <1>10, HashesKept
<1>13. RingMade(signed, p, pi)
      BY <1>1, <1>10, RingWithChange
<1>14. CommitmentsSumToZero(signed.ins, signed.outs, signed.fee)
      BY <1>9, <1>10, <1>11
<1> QED
    BY <1>1, <1>7, <1>10, <1>11, <1>12, <1>13, <1>14

\* The PRV part of a token transaction of version 2.
LEMMA SignedBoth ==
    ASSUME NEW base, IsTx(base), NEW q, NEW token, NEW pi,
           ~Failed(SignBoth(base, q, token, pi))
    PROVE  LET s == SignBoth(base, q, token, pi)
           IN  /\ IsTx(s.base) /\ SameCoins(s.base, base) /\ s.data = token.data
               /\ s.base.ver = base.ver /\ ~Failed(token)
               /\ CommitmentsSumToZero(base.ins, base.outs, base.fee)
               /\ SameKind(s.base, base) /\ RingMade(s.base, q, pi)
               /\ s.base.sig = <<HashVer2(base), TokenDataHash(token.data)>>
               /\ IsWhole(s)
<1>1. PICK signed : signed = SignOnMessage(base, q,
                        <<HashVer2(base), TokenDataHash(token.data)>>, pi)
      OBVIOUS
<1>2. Failed(NoTx)
      BY DEF Failed, NoTx
<1>3. /\ ~Failed(token) /\ ~Failed(signed)
      /\ SignBoth(base, q, token, pi) = Whole(signed, token.data)
      BY <1>1, <1>2 DEF SignBoth
<1>4. /\ IsTx(signed) /\ SameCoins(signed, base) /\ signed.ver = base.ver
      /\ CommitmentsSumToZero(base.ins, base.outs, base.fee)
      /\ SameKind(signed, base) /\ RingMade(signed, q, pi)
      /\ signed.sig = <<HashVer2(base), TokenDataHash(token.data)>>
      BY <1>1, <1>3, SignedCoins DEF RingMade
<1> QED
    BY <1>3, <1>4 DEF Whole, IsWhole

\* The token part that belongs to a PRV part.
LEMMA TokenPartIsTx ==
    ASSUME NEW base
    PROVE  LET t == MakeTxToken(base)
           IN  /\ IsTx(t) /\ t.ver = base.ver /\ t.type = base.type
               /\ t.lock = base.lock /\ t.fee = 0 /\ t.md = NoMetadata
               /\ t.mdSig = <<>> /\ t.ring = NoRing
<1>1. PICK t1 : t1 = [EmptyTx EXCEPT !.ver = base.ver]
      OBVIOUS
<1>2. PICK t2 : t2 = [t1 EXCEPT !.type = base.type]
      OBVIOUS
<1>3. PICK t3 : t3 = [t2 EXCEPT !.lock = base.lock]
      OBVIOUS
<1>4. MakeTxToken(base) = t3
      BY <1>1, <1>2, <1>3 DEF MakeTxToken
<1>5. SetTo(EmptyTx, t1, "ver", base.ver)
      BY <1>1, FieldSet, EmptyIsTx
<1>6. SetTo(t1, t2, "type", base.type)
      BY <1>2, <1>5, FieldSet, SetIsTx
<1>7. SetTo(t2, t3, "lock", base.lock)
      BY <1>3, <1>6, FieldSet, SetIsTx
<1> QED
    BY <1>4, <1>5, <1>6, <1>7, EmptyIsTx DEF SetTo

\* The token part sub is signed as the token part that a reader makes of the
\* PRV part base.
PartSigned(sub, base) ==
    sub.sig = <<base.ver, base.type, base.lock, 0, sub.ins, sub.outs,
                NoMetadata, <<>>>>

\* proveCA on the parameters with their change.
LEMMA TokenPartCoins ==
    ASSUME NEW base, base.type = "tp", base.lock # 0,
           NEW tp, IsParams(tp), tp.pays \in Payments, tp.fee = 0,
           tp.md = NoMetadata, NEW pi, ~Failed(InitToken(base, tp, pi))
    PROVE  LET data == InitToken(base, tp, pi).data
           IN  /\ data.kind = "transfer" /\ data.sub.ins = tp.ins
               /\ data.sub.outs = OutputCoins(CalculateSentBackInfo(tp))
               /\ data.sub.fee = 0
               /\ AssetTagsSumToZero(data.sub.ins, data.sub.outs)
               /\ CommitmentsSumToZeroCA(data.sub.ins, data.sub.outs)
               /\ data.sub.proof = "ProofV2" /\ RingMade(data.sub, tp, pi)
               /\ GetTxVersionFromCoins(tp.ins) = base.ver =>
                     PartSigned(data.sub, base)
               /\ IsData(data)
               /\ Burned(data.sub.outs) # {} => data.id = tp.asset
<1>1. [tp EXCEPT !.fee = 0] = tp
      BY DEF IsParams
<1>2. Failed(NoTx)
      BY DEF Failed, NoTx
<1>3. PICK t0 : t0 = MakeTxToken(base)
      OBVIOUS
<1>4. PICK sub : sub = ProveToken(t0, tp, pi)
      OBVIOUS
<1>5. PICK id : /\ InitToken(base, tp, pi) \in
                       {NoTx, [ver |-> 2, data |-> TokenData(id, sub)]}
                /\ Burned(sub.outs) # {} => id = tp.asset
      BY <1>1, <1>3, <1>4 DEF InitToken
<1>6. InitToken(base, tp, pi).data = TokenData(id, sub)
      BY <1>2, <1>5
<1>7. ~Failed(sub)
      BY <1>1, <1>2, <1>3, <1>4 DEF InitToken
<1>8. PICK q : q = CalculateSentBackInfo(tp)
      OBVIOUS
<1>9. PICK t1 : t1 = InitializeTxAndParams(t0, q, 2)
      OBVIOUS
<1>10. PICK t2 : t2 = [t1 EXCEPT !.type = "tp"]
      OBVIOUS
<1>11. sub = ProveCA(t2, q, pi)
      BY <1>2, <1>4, <1>7, <1>8, <1>9, <1>10 DEF ProveToken
<1>12. PICK proved : proved = Proved(t2, q, "ProofV2")
      OBVIOUS
<1>13. sub = SignCA(proved, q, HashVer2(proved), pi)
      BY <1>2, <1>7, <1>11, <1>12 DEF ProveCA
<1>14. q.ins = tp.ins /\ q.fee = 0 /\ q.md = NoMetadata
      BY <1>8, ChangeIsLast
<1>15. /\ IsTx(t1) /\ t1.fee = 0 /\ t1.ver = GetTxVersionFromCoins(tp.ins)
       /\ t1.lock = base.lock /\ t1.md = NoMetadata /\ t1.mdSig = <<>>
  <2>1. IsTx(t0) /\ t0.lock = base.lock /\ t0.mdSig = <<>>
        BY <1>3, TokenPartIsTx
  <2> QED
      BY <1>9, <1>14, <2>1, Initialized
<1>16. SetTo(t1, t2, "type", "tp")
      BY <1>10, <1>15, FieldSet
<1>17. /\ IsTx(t2) /\ t2.fee = 0 /\ t2.ver = GetTxVersionFromCoins(tp.ins)
       /\ t2.lock = base.lock /\ t2.md = NoMetadata /\ t2.mdSig = <<>>
       /\ t2.type = "tp"
      BY <1>15, <1>16 DEF SetTo
<1>18. /\ IsTx(proved) /\ proved.fee = 0 /\ proved.ins = tp.ins
       /\ proved.outs = OutputCoins(q) /\ proved.ver = t2.ver
       /\ proved.lock = base.lock /\ proved.md = NoMetadata
       /\ proved.mdSig = <<>> /\ proved.type = "tp" /\ proved.proof = "ProofV2"
      BY <1>12, <1>14, <1>17, ProvedCoins
<1>19. /\ SameCoins(sub, proved) /\ AssetTagsSumToZero(proved.ins, proved.outs)
       /\ CommitmentsSumToZeroCA(proved.ins, proved.outs)
       /\ SameKind(sub, proved) /\ sub.sig = HashVer2(proved)
       /\ RingMade(sub, q, pi)
      BY <1>7, <1>13, <1>18, SignedCoinsCA DEF RingMade
<1>20. PICK data : data = TokenData(id, sub)
      OBVIOUS
<1>21. /\ data.kind = "transfer" /\ data.sub = sub /\ data.id = id
       /\ IsData(data)
      BY <1>20 DEF TokenData, IsData
<1>22. sub.ins = tp.ins /\ sub.outs = OutputCoins(q) /\ sub.fee = 0
      BY <1>18, <1>19 DEF SameCoins
<1>23. AssetTagsSumToZero(sub.ins, sub.outs) /\ CommitmentsSumToZeroCA(sub.ins, sub.outs)
      BY <1>18, <1>19, <1>22
<1>24. sub.proof = "ProofV2" /\ RingMade(sub, tp, pi)
      BY <1>8, <1>18, <1>19, RingWithChange DEF SameKind
<1>25. GetTxVersionFromCoins(tp.ins) = base.ver => PartSigned(sub, base)
      BY <1>17, <1>18, <1>19, <1>22 DEF PartSigned, HashVer2
<1> QED
    BY <1>5, <1>6, <1>8, <1>20, <1>21, <1>22, <1>23, <1>24, <1>25

\* What the PRV part holds, in every kind of transaction but a version 1 one
\* without input, fee and privacy: inputs, payments and change.
HoldsPayments(t, p) ==
    /\ t.ins = p.ins /\ t.fee = p.fee
    /\ t.outs = OutputCoins(CalculateSentBackInfo(p))

\* The PRV part of a version 2 token transaction is signed together with the
\* token part.
SignedWithToken(t) ==
    /\ IsTx(t.base) /\ t.base.proof = "ProofV2" /\ MetadataSigned(t.base)
    /\ t.base.sig = <<HashVer2(t.base), TokenDataHash(t.data)>>
    /\ IsData(t.data) /\ IsWhole(t)

\* A version 2 token transaction.
LEMMA TokenVersion2Coins ==
    ASSUME NEW p, IsParams(p), p.pays \in Payments,
           NEW tp, IsParams(tp), tp.pays \in Payments, tp.fee = 0,
           tp.md = NoMetadata, NEW pi, ~Failed(InitTokenVer2(p, tp, pi))
    PROVE  LET t == InitTokenVer2(p, tp, pi)
           IN  /\ IsTx(t.base) /\ HoldsPayments(t.base, p)
               /\ CommitmentsSumToZero(t.base.ins, t.base.outs, t.base.fee)
               /\ t.data.kind = "transfer" /\ HoldsPayments(t.data.sub, tp)
               /\ AssetTagsSumToZero(t.data.sub.ins, t.data.sub.outs)
               /\ CommitmentsSumToZeroCA(t.data.sub.ins, t.data.sub.outs)
               /\ t.base.ver = GetTxVersionFromCoins(p.ins)
               /\ t.base.type = "tp" /\ SignedWithToken(t)
               /\ RingMade(t.base, p, pi)
               /\ t.data.sub.proof = "ProofV2" /\ RingMade(t.data.sub, tp, pi)
               /\ GetTxVersionFromCoins(tp.ins) = t.base.ver =>
                     PartSigned(t.data.sub, t.base)
               /\ Burned(t.data.sub.outs) # {} => t.data.id = tp.asset
<1>1. PICK q : q = CalculateSentBackInfo(p)
      OBVIOUS
<1>2. PICK t0 : t0 = InitializeTxAndParams(EmptyTx, q, 1)
      OBVIOUS
<1>3. PICK t1 : t1 = [t0 EXCEPT !.type = "tp"]
      OBVIOUS
<1>4. PICK base : base = ProvePRV(t1, q)
      OBVIOUS
<1>5. PICK token : token = InitToken(base, tp, pi)
      OBVIOUS
<1>6. PICK t : t = InitTokenVer2(p, tp, pi)
      OBVIOUS
<1>7. t \in {NoTx, SignBoth(base, q, token, pi)}
      BY <1>1, <1>2, <1>3, <1>4, <1>5, <1>6 DEF InitTokenVer2
<1>8. t = SignBoth(base, q, token, pi)
      BY <1>6, <1>7 DEF Failed, NoTx
<1>9. q.ins = p.ins /\ q.fee = p.fee
      BY <1>1, ChangeIsLast
<1>10. /\ IsTx(t0) /\ t0.fee = p.fee /\ t0.ver = GetTxVersionFromCoins(p.ins)
       /\ t0.lock = 1 /\ t0.mdSig = <<>>
      BY <1>2, <1>9, Initialized, EmptyIsTx
<1>11. SetTo(t0, t1, "type", "tp")
      BY <1>3, <1>10, FieldSet
<1>12. /\ IsTx(t1) /\ t1.fee = p.fee /\ t1.ver = GetTxVersionFromCoins(p.ins)
       /\ t1.lock = 1 /\ t1.mdSig = <<>> /\ t1.type = "tp"
      BY <1>10, <1>11 DEF SetTo
<1>13. IsTx(base) /\ HoldsPayments(base, p)
      BY <1>1, <1>4, <1>9, <1>12, ProvedPRV DEF HoldsPayments
<1>17. /\ base.ver = GetTxVersionFromCoins(p.ins) /\ base.lock = 1
       /\ base.type = "tp" /\ base.proof = "ProofV2" /\ MetadataSigned(base)
      BY <1>4, <1>12, ProvedPRV
<1>14. /\ IsTx(t.base) /\ SameCoins(t.base, base) /\ t.data = token.data
       /\ ~Failed(token) /\ CommitmentsSumToZero(base.ins, base.outs, base.fee)
       /\ SameKind(t.base, base) /\ RingMade(t.base, q, pi)
       /\ t.base.sig = <<HashVer2(base), TokenDataHash(t.data)>>
       /\ IsWhole(t)
      BY <1>6, <1>8, <1>13, SignedBoth
<1>15. /\ HoldsPayments(t.base, p)
       /\ CommitmentsSumToZero(t.base.ins, t.base.outs, t.base.fee)
      BY <1>13, <1>14 DEF HoldsPayments, SameCoins
<1>23. PICK sub : sub = t.data.sub
      OBVIOUS
<1>24. /\ t.data.kind = "transfer" /\ sub.ins = tp.ins /\ sub.fee = 0
       /\ sub.outs = OutputCoins(CalculateSentBackInfo(tp))
       /\ AssetTagsSumToZero(sub.ins, sub.outs)
       /\ CommitmentsSumToZeroCA(sub.ins, sub.outs)
  <2>1. ~Failed(InitToken(base, tp, pi)) /\ base.type = "tp" /\ base.lock # 0
        BY <1>5, <1>14, <1>17
  <2>2. PICK data : data = InitToken(base, tp, pi).data
        OBVIOUS
  <2>3. /\ data.kind = "transfer" /\ data.sub.ins = tp.ins
        /\ data.sub.outs = OutputCoins(CalculateSentBackInfo(tp))
        /\ data.sub.fee = 0
        /\ AssetTagsSumToZero(data.sub.ins, data.sub.outs)
        /\ CommitmentsSumToZeroCA(data.sub.ins, data.sub.outs)
        BY <2>1, <2>2, TokenPartCoins
  <2>4. t.data = data
        BY <1>5, <1>14, <2>2
  <2> QED
      BY <1>23, <2>3, <2>4
<1>16. /\ t.data.kind = "transfer" /\ HoldsPayments(t.data.sub, tp)
       /\ AssetTagsSumToZero(t.data.sub.ins, t.data.sub.outs)
       /\ CommitmentsSumToZeroCA(t.data.sub.ins, t.data.sub.outs)
      BY <1>23, <1>24 DEF HoldsPayments
<1>18. /\ t.data.sub.proof = "ProofV2" /\ RingMade(t.data.sub, tp, pi)
       /\ GetTxVersionFromCoins(tp.ins) = base.ver => PartSigned(t.data.sub, base)
       /\ IsData(t.data) /\ (Burned(t.data.sub.outs) # {} => t.data.id = tp.asset)
      BY <1>5, <1>14, <1>17, TokenPartCoins
<1>19. /\ t.base.ver = base.ver /\ t.base.type = "tp" /\ t.base.lock = base.lock
       /\ t.base.proof = "ProofV2"
      BY <1>14, <1>17 DEF SameKind
<1>20. SignedWithToken(t)
  <2>1. HashVer2(t.base) = HashVer2(base) /\ MetadataSigned(t.base)
        BY <1>13, <1>14, <1>17, HashesKept
  <2> QED
      BY <1>14, <1>18, <1>19, <2>1 DEF SignedWithToken
<1>21. RingMade(t.base, p, pi)
      BY <1>1, <1>14, RingWithChange
<1>22. PartSigned(t.data.sub, base) => PartSigned(t.data.sub, t.base)
      BY <1>17, <1>19 DEF PartSigned
<1> QED
    BY <1>6, <1>14, <1>15, <1>16, <1>17, <1>18, <1>19, <1>20, <1>21, <1>22

\* Both parts of a version 1 token transaction are signed.
TokenSigned1(t) ==
    /\ Signed1(t.base) /\ t.base.type = "tp"
    /\ Signed1(t.data.sub) /\ t.data.sub.type = "n"
    /\ IsData(t.data) /\ IsWhole(t)

\* A version 1 token transaction: a transfer, or the creation of a token.
LEMMA TokenVersion1Coins ==
    ASSUME NEW p, IsParams(p), p.pays \in Payments,
           NEW tp, IsParams(tp), tp.pays \in Payments, tp.md = NoMetadata,
           ~Failed(InitTokenVer1(p, tp))
    PROVE  LET t == InitTokenVer1(p, tp)
           IN  /\ IsTx(t.base) /\ t.base.ver = 1 /\ ~Failed(InitVer1(p))
               /\ SameCoins(t.base, InitVer1(p))
               /\ t.data.kind = tp.kind
               /\ tp.kind = "init" =>
                     t.data.sub.outs = <<[to |-> tp.pays[1].to,
                                          val |-> tp.amount, asset |-> "new"]>>
               /\ tp.kind # "init" =>
                     /\ ~Failed(InitVer1(tp)) /\ t.data.sub = InitVer1(tp)
                     /\ t.data.id = tp.asset
               /\ TokenSigned1(t)
<1>1. [tp EXCEPT !.md = NoMetadata] = tp
      BY DEF IsParams
<1>2. Failed(NoTx)
      BY DEF Failed, NoTx
<1>3. PICK base : base = InitVer1(p)
      OBVIOUS
<1>4. PICK b : b = [base EXCEPT !.type = "tp"]
      OBVIOUS
<1>5. PICK t : t = InitTokenVer1(p, tp)
      OBVIOUS
<1>6. ~Failed(base)
      BY <1>2, <1>3 DEF InitTokenVer1
<1>7. IsTx(base) /\ base.ver = 1 /\ Signed1(base)
      BY <1>3, <1>6, Version1Coins
<1>8. SetTo(base, b, "type", "tp")
      BY <1>4, <1>7, FieldSet
<1>9. /\ IsTx(b) /\ b.ver = 1 /\ SameCoins(b, base)
      /\ Signed1(b) /\ b.type = "tp"
      BY <1>7, <1>8 DEF SetTo, SameCoins, Signed1, HashVer1
<1>10. CASE tp.kind = "init"
  <2>1. t = Whole(b, InitTokenCreation(tp))
        BY <1>3, <1>4, <1>5, <1>6, <1>10 DEF InitTokenVer1
  <2>2. PICK out : out = [to |-> tp.pays[1].to, val |-> tp.amount, asset |-> "new"]
        OBVIOUS
  <2>3. PICK s1 : s1 = [EmptyTx EXCEPT !.ver = 1]
        OBVIOUS
  <2>4. PICK s2 : s2 = [s1 EXCEPT !.type = "n"]
        OBVIOUS
  <2>5. PICK s3 : s3 = [s2 EXCEPT !.proof = "ProofV1"]
        OBVIOUS
  <2>6. PICK s4 : s4 = [s3 EXCEPT !.outs = <<out>>]
        OBVIOUS
  <2>7. PICK s5 : s5 = [s4 EXCEPT !.sig = HashVer1(s4)]
        OBVIOUS
  <2>8. InitTokenCreation(tp) = [id |-> "new", kind |-> "init", sub |-> s5]
        BY <2>2, <2>3, <2>4, <2>5, <2>6, <2>7 DEF InitTokenCreation, SignVer1
  <2>9. SetTo(EmptyTx, s1, "ver", 1)
        BY <2>3, FieldSet, EmptyIsTx
  <2>10. SetTo(s1, s2, "type", "n")
        BY <2>4, <2>9, FieldSet, SetIsTx
  <2>11. SetTo(s2, s3, "proof", "ProofV1")
        BY <2>5, <2>10, FieldSet, SetIsTx
  <2>12. SetTo(s3, s4, "outs", <<out>>)
        BY <2>6, <2>11, FieldSet, SetIsTx
  <2>13. SetTo(s4, s5, "sig", HashVer1(s4))
        BY <2>7, <2>12, FieldSet, SetIsTx
  <2>14. s5.outs = <<out>>
        BY <2>12, <2>13 DEF SetTo
  <2>15. t.base = b /\ t.data.kind = "init" /\ t.data.sub.outs = <<out>>
        BY <2>1, <2>8, <2>14 DEF Whole
  <2>16. s4.ver = 1 /\ s4.type = "n" /\ s4.proof = "ProofV1" /\ s4.ring = NoRing
        BY <2>9, <2>10, <2>11, <2>12, EmptyIsTx DEF SetTo
  <2>17. Signed1(s5) /\ s5.type = "n"
        BY <2>13, <2>16 DEF SetTo, Signed1, HashVer1
  <2>18. PICK d : d = [id |-> "new", kind |-> "init", sub |-> s5]
        OBVIOUS
  <2>19. t = Whole(b, d)
        BY <2>1, <2>8, <2>18
  <2>20. t.base = b /\ t.data = d /\ IsWhole(t)
        BY <2>19 DEF Whole, IsWhole
  <2>21. d.sub = s5 /\ IsData(d)
        BY <2>18 DEF IsData
  <2>22. TokenSigned1(t)
        BY <1>9, <2>17, <2>20, <2>21 DEF TokenSigned1
  <2> QED
      BY <1>3, <1>5, <1>6, <1>9, <1>10, <2>2, <2>15, <2>22
<1>11. CASE tp.kind # "init"
  <2>1. PICK sub : sub = InitVer1(tp)
        OBVIOUS
  <2>2. /\ ~Failed(sub)
        /\ t = Whole(b, [id |-> tp.asset, kind |-> tp.kind, sub |-> sub])
        BY <1>1, <1>2, <1>3, <1>4, <1>5, <1>6, <1>11, <2>1 DEF InitTokenVer1
  <2>3. /\ t.base = b /\ t.data.kind = tp.kind /\ t.data.sub = sub
        /\ t.data.id = tp.asset
        BY <2>2 DEF Whole
  <2>4. Signed1(sub) /\ sub.type = "n"
        BY <2>1, <2>2, Version1Coins
  <2>5. PICK d : d = [id |-> tp.asset, kind |-> tp.kind, sub |-> sub]
        OBVIOUS
  <2>6. t = Whole(b, d)
        BY <2>2, <2>5
  <2>7. t.data = d /\ IsWhole(t)
        BY <2>6 DEF Whole, IsWhole
  <2>8. IsData(d)
        BY <2>5 DEF IsData
  <2>9. TokenSigned1(t)
        BY <1>9, <2>3, <2>4, <2>7, <2>8 DEF TokenSigned1
  <2> QED
      BY <1>3, <1>5, <1>6, <1>9, <1>11, <2>1, <2>2, <2>3, <2>9
<1> QED
    BY <1>10, <1>11

\* The proof of a conversion.
LEMMA ConvertedPart ==
    ASSUME NEW t, IsTx(t), NEW p, NEW now
    PROVE  LET s == InitializeTxConversion(t, p, now)
           IN  /\ IsTx(s) /\ s.ver = 2 /\ s.fee = p.fee /\ s.type = "cv"
               /\ s.lock = (IF t.lock = 0 THEN now ELSE t.lock) /\ s.md = p.md
               /\ s.mdSig = t.mdSig /\ s.ring = t.ring
<1>1. PICK lock : lock = IF t.lock = 0 THEN now ELSE t.lock
      OBVIOUS
<1>2. PICK t1 : t1 = [t EXCEPT !.ver = 2]
      OBVIOUS
<1>3. PICK t2 : t2 = [t1 EXCEPT !.type = "cv"]
      OBVIOUS
<1>4. PICK t3 : t3 = [t2 EXCEPT !.fee = p.fee]
      OBVIOUS
<1>5. PICK t4 : t4 = [t3 EXCEPT !.md = p.md]
      OBVIOUS
<1>6. PICK t5 : t5 = [t4 EXCEPT !.lock = lock]
      OBVIOUS
<1>7. InitializeTxConversion(t, p, now) = t5
      BY <1>1, <1>2, <1>3, <1>4, <1>5, <1>6
         DEF InitializeTxConversion, ConversionVersion
<1>8. SetTo(t, t1, "ver", 2)
      BY <1>2, FieldSet
<1>9. SetTo(t1, t2, "type", "cv")
      BY <1>3, <1>8, FieldSet, SetIsTx
<1>10. SetTo(t2, t3, "fee", p.fee)
      BY <1>4, <1>9, FieldSet, SetIsTx
<1>11. SetTo(t3, t4, "md", p.md)
      BY <1>5, <1>10, FieldSet, SetIsTx
<1>12. SetTo(t4, t5, "lock", lock)
      BY <1>6, <1>11, FieldSet, SetIsTx
<1> QED
    BY <1>1, <1>7, <1>8, <1>9, <1>10, <1>11, <1>12 DEF SetTo

\* A conversion shows its inputs and pays without change.
LEMMA ConversionProved ==
    ASSUME NEW t, IsTx(t), NEW p
    PROVE  LET s == ProveConversion(t, p)
           IN  /\ IsTx(s) /\ s.ver = t.ver /\ s.fee = t.fee
               /\ s.ins = p.ins /\ s.outs = OutputCoins(p)
               /\ s.type = t.type /\ s.lock = t.lock /\ s.md = t.md
               /\ s.mdSig = t.mdSig /\ s.proof = "ProofForConversion"
               /\ s.ring = t.ring /\ s.sig = HashVer2(s)
<1>1. PICK proved : proved = Proved(t, p, "ProofForConversion")
      OBVIOUS
<1>2. PICK s : s = [proved EXCEPT !.sig = HashVer2(proved)]
      OBVIOUS
<1>3. ProveConversion(t, p) = s
      BY <1>1, <1>2 DEF ProveConversion
<1>4. /\ IsTx(proved) /\ proved.ver = t.ver /\ proved.fee = t.fee
      /\ proved.ins = p.ins /\ proved.outs = OutputCoins(p)
      /\ proved.type = t.type /\ proved.lock = t.lock /\ proved.md = t.md
      /\ proved.mdSig = t.mdSig /\ proved.proof = "ProofForConversion"
      /\ proved.ring = t.ring
      BY <1>1, ProvedCoins
<1>5. SetTo(proved, s, "sig", HashVer2(proved))
      BY <1>2, <1>4, FieldSet
<1>6. HashVer2(s) = HashVer2(proved)
      BY <1>5 DEF SetTo, HashVer2
<1> QED
    BY <1>3, <1>4, <1>5, <1>6 DEF SetTo

\* A PRV conversion.
LEMMA ConversionCoins ==
    ASSUME NEW p, ~Failed(InitConversion(p))
    PROVE  LET t == InitConversion(p)
           IN  /\ IsTx(t) /\ t.ver = 2 /\ t.fee = p.fee /\ t.ins = p.ins
               /\ t.outs = OutputCoins(p) /\ ValidConversion(p)
               /\ t.type = "cv" /\ t.proof = "ProofForConversion"
               /\ t.mdSig = <<>> /\ t.ring = NoRing /\ t.sig = HashVer2(t)
<1>1. Failed(NoTx)
      BY DEF Failed, NoTx
<1>2. PICK t0 : t0 = InitializeTxConversion(EmptyTx, p, 1)
      OBVIOUS
<1>3. PICK t : t = ProveConversion(t0, p)
      OBVIOUS
<1>4. InitConversion(p) = t /\ ValidConversion(p)
      BY <1>1, <1>2, <1>3 DEF InitConversion
<1>5. /\ IsTx(t0) /\ t0.ver = 2 /\ t0.fee = p.fee
      /\ t0.type = "cv" /\ t0.mdSig = <<>> /\ t0.ring = NoRing
      BY <1>2, ConvertedPart, EmptyIsTx
<1>6. /\ IsTx(t) /\ t.ver = 2 /\ t.fee = p.fee /\ t.ins = p.ins
      /\ t.outs = OutputCoins(p) /\ t.type = "cv"
      /\ t.proof = "ProofForConversion" /\ t.mdSig = <<>>
      /\ t.ring = NoRing /\ t.sig = HashVer2(t)
      BY <1>3, <1>5, ConversionProved
<1> QED
    BY <1>4, <1>6

\* A token conversion: its PRV part pays the fee, its token part is shown.
LEMMA TokenConversionCoins ==
    ASSUME NEW p, IsParams(p), p.pays \in Payments, NEW tp, NEW pi,
           ~Failed(InitTokenConversion(p, tp, pi))
    PROVE  LET t == InitTokenConversion(p, tp, pi)
           IN  /\ IsTx(t.base) /\ t.base.ver = 2 /\ HoldsPayments(t.base, p)
               /\ CommitmentsSumToZero(t.base.ins, t.base.outs, t.base.fee)
               /\ t.data.kind = "transfer" /\ t.data.sub.ins = tp.ins
               /\ t.data.sub.outs = OutputCoins(tp) /\ t.data.sub.fee = tp.fee
               /\ ValidConversion(tp) /\ ValidTokenConversion(p, tp)
               /\ t.base.type = "tcv" /\ SignedWithToken(t)
               /\ RingMade(t.base, p, pi)
               /\ t.data.sub.proof = "ProofForConversion"
               /\ t.data.sub.ring = NoRing
               /\ tp.fee = 0 /\ tp.md = NoMetadata =>
                     PartSigned(t.data.sub, t.base)
<1>1. Failed(NoTx)
      BY DEF Failed, NoTx
<1>2. PICK q : q = CalculateSentBackInfo(p)
      OBVIOUS
<1>3. PICK t0 : t0 = InitializeTxAndParams(EmptyTx, q, 1)
      OBVIOUS
<1>4. PICK t1 : t1 = [t0 EXCEPT !.ver = 2]
      OBVIOUS
<1>5. PICK t2 : t2 = [t1 EXCEPT !.type = "tcv"]
      OBVIOUS
<1>6. PICK base : base = ProvePRV(t2, q)
      OBVIOUS
<1>7. PICK token : token = InitTokenConversionData(base, tp)
      OBVIOUS
<1>8. PICK t : t = InitTokenConversion(p, tp, pi)
      OBVIOUS
<1>9. [t0 EXCEPT !.ver = 2, !.type = "tcv"] = t2
      BY <1>4, <1>5
<1>10. t = SignBoth(base, q, token, pi) /\ ValidTokenConversion(p, tp)
      BY <1>1, <1>2, <1>3, <1>6, <1>7, <1>8, <1>9
         DEF InitTokenConversion, ConversionVersion
<1>11. q.ins = p.ins /\ q.fee = p.fee
      BY <1>2, ChangeIsLast
<1>12. IsTx(t0) /\ t0.fee = p.fee /\ t0.lock = 1 /\ t0.mdSig = <<>>
      BY <1>3, <1>11, Initialized, EmptyIsTx
<1>13. SetTo(t0, t1, "ver", 2) /\ SetTo(t1, t2, "type", "tcv")
      BY <1>4, <1>5, <1>12, FieldSet, SetIsTx
<1>14. /\ IsTx(t2) /\ t2.ver = 2 /\ t2.fee = p.fee
       /\ t2.lock = 1 /\ t2.mdSig = <<>> /\ t2.type = "tcv"
      BY <1>12, <1>13 DEF SetTo
<1>15. IsTx(base) /\ base.ver = 2 /\ HoldsPayments(base, p)
      BY <1>2, <1>6, <1>11, <1>14, ProvedPRV DEF HoldsPayments
<1>27. /\ base.lock = 1 /\ base.type = "tcv" /\ base.proof = "ProofV2"
       /\ MetadataSigned(base)
      BY <1>6, <1>14, ProvedPRV
<1>16. /\ IsTx(t.base) /\ SameCoins(t.base, base) /\ t.data = token.data
       /\ t.base.ver = base.ver /\ ~Failed(token)
       /\ CommitmentsSumToZero(base.ins, base.outs, base.fee)
       /\ SameKind(t.base, base) /\ RingMade(t.base, q, pi)
       /\ t.base.sig = <<HashVer2(base), TokenDataHash(t.data)>>
       /\ IsWhole(t)
      BY <1>8, <1>10, <1>15, SignedBoth
<1>17. PICK s0 : s0 = InitializeTxConversion(MakeTxToken(base), tp, 2)
      OBVIOUS
<1>18. PICK s1 : s1 = [s0 EXCEPT !.type = "tcv"]
      OBVIOUS
<1>19. PICK sub : sub = ProveConversion(s1, tp)
      OBVIOUS
<1>20. ValidConversion(tp) /\ token.data = TokenData(tp.asset, sub)
  <2>1. ValidConversion(tp)
        BY <1>1, <1>7, <1>16 DEF InitTokenConversionData
  <2>2. token = [ver |-> 2, data |-> TokenData(tp.asset, sub)]
        BY <1>7, <1>17, <1>18, <1>19, <2>1 DEF InitTokenConversionData
  <2> QED
      BY <2>1, <2>2
<1>21. /\ IsTx(s0) /\ s0.fee = tp.fee /\ s0.ver = 2 /\ s0.lock = base.lock
       /\ s0.md = tp.md /\ s0.mdSig = <<>> /\ s0.ring = NoRing
  <2>1. PICK m : m = MakeTxToken(base)
        OBVIOUS
  <2>2. IsTx(m) /\ m.lock = base.lock /\ m.mdSig = <<>> /\ m.ring = NoRing
        BY <2>1, TokenPartIsTx
  <2> QED
      BY <1>17, <1>27, <2>1, <2>2, ConvertedPart
<1>22. SetTo(s0, s1, "type", "tcv")
      BY <1>18, <1>21, FieldSet
<1>23. /\ IsTx(s1) /\ s1.fee = tp.fee /\ s1.ver = 2 /\ s1.lock = base.lock
       /\ s1.md = tp.md /\ s1.mdSig = <<>> /\ s1.ring = NoRing /\ s1.type = "tcv"
      BY <1>21, <1>22 DEF SetTo
<1>24. /\ sub.fee = tp.fee /\ sub.ins = tp.ins /\ sub.outs = OutputCoins(tp)
       /\ sub.ver = 2 /\ sub.type = "tcv" /\ sub.lock = base.lock
       /\ sub.md = tp.md /\ sub.mdSig = <<>> /\ sub.ring = NoRing
       /\ sub.proof = "ProofForConversion" /\ sub.sig = HashVer2(sub)
      BY <1>19, <1>23, ConversionProved
<1>25. /\ t.data.kind = "transfer" /\ t.data.sub = sub
       /\ IsData(t.data)
      BY <1>16, <1>20 DEF TokenData, IsData
<1>28. /\ t.base.type = "tcv" /\ t.base.lock = base.lock
       /\ t.base.proof = "ProofV2"
      BY <1>16, <1>27 DEF SameKind
<1>29. SignedWithToken(t)
  <2>1. HashVer2(t.base) = HashVer2(base) /\ MetadataSigned(t.base)
        BY <1>15, <1>16, <1>27, HashesKept
  <2> QED
      BY <1>16, <1>25, <1>28, <2>1 DEF SignedWithToken
<1>30. RingMade(t.base, p, pi)
      BY <1>2, <1>16, RingWithChange
<1>31. tp.fee = 0 /\ tp.md = NoMetadata => PartSigned(t.data.sub, t.base)
      BY <1>15, <1>16, <1>24, <1>25, <1>28 DEF PartSigned, HashVer2
<1>26. /\ HoldsPayments(t.base, p) /\ t.base.ver = 2
       /\ CommitmentsSumToZero(t.base.ins, t.base.outs, t.base.fee)
      BY <1>15, <1>16 DEF HoldsPayments, SameCoins
<1> QED
    BY <1>8, <1>10, <1>16, <1>20, <1>24, <1>25, <1>26, <1>28, <1>29, <1>30, <1>31

-----------------------------------------------------------------------------
(* Values, the fold of a sequence's amounts, by its partial sums           *)

Summand(v, g, s) == IF s = {} THEN 0 ELSE g[s \ {Max(s)}] + v[Max(s)].val
IsFold(v, g, S) == g = [s \in SUBSET S |-> Summand(v, g, s)]
IsPartial(v, h, n) ==
    /\ h[0] = 0
    /\ \A k \in 1..n : h[k] = h[k - 1] + v[k].val

\* The fold that Values stands for.
LEMMA ValuesIs ==
    ASSUME NEW v
    PROVE  Values(v) = (CHOOSE g : IsFold(v, g, DOMAIN v))[DOMAIN v]
BY DEF Values, FoldLeft, MapThenFoldSet, Summand, IsFold

\* The greatest number of an interval.
LEMMA MaxIs ==
    ASSUME NEW n \in Nat, NEW s \in SUBSET (1..n), n \in s PROVE Max(s) = n
<1>1. \A y \in s : n >= y
      OBVIOUS
<1>2. Max(s) \in s /\ \A y \in s : Max(s) >= y
      BY <1>1 DEF Max
<1>3. PICK m : m = Max(s)
      OBVIOUS
<1>4. m \in s
      BY <1>2, <1>3, Zenon
<1>5. m >= n
      BY <1>2, <1>3, Zenon
<1>6. m \in 1..n
      BY <1>4
<1> QED
    BY <1>3, <1>5, <1>6

\* It exists: the subsets of 1..n+1 are those of 1..n, with and without n+1.
LEMMA FoldExists ==
    ASSUME NEW v PROVE \A n \in Nat : \E g : IsFold(v, g, 1..n)
<1> DEFINE P == {n \in Nat : \E g : IsFold(v, g, 1..n)}
<1>1. 0 \in P
  <2> DEFINE g == [s \in SUBSET (1..0) |-> 0]
  <2>1. \A s \in SUBSET (1..0) : s = {}
        OBVIOUS
  <2>2. g = [s \in SUBSET (1..0) |-> Summand(v, g, s)]
        BY <2>1 DEF Summand
  <2> HIDE DEF g
  <2>3. IsFold(v, g, 1..0)
        BY <2>2 DEF IsFold
  <2> QED
      BY <2>3
<1>2. ASSUME NEW n \in Nat, n \in P PROVE n + 1 \in P
  <2>1. PICK f : IsFold(v, f, 1..n)
        BY <1>2
  <2> DEFINE g == [s \in SUBSET (1..(n + 1)) |->
                      IF n + 1 \in s THEN f[s \ {n + 1}] + v[n + 1].val ELSE f[s]]
  <2>2. ASSUME NEW s \in SUBSET (1..(n + 1)) PROVE g[s] = Summand(v, g, s)
    <3>1. CASE n + 1 \in s
      <4>1. Max(s) = n + 1 /\ s # {}
            BY <3>1, MaxIs
      <4>2. s \ {n + 1} \in SUBSET (1..(n + 1)) /\ n + 1 \notin s \ {n + 1}
            OBVIOUS
      <4>3. g[s \ {n + 1}] = f[s \ {n + 1}]
            BY <4>2
      <4>4. g[s] = f[s \ {n + 1}] + v[n + 1].val
            BY <3>1
      <4> HIDE DEF g
      <4> QED
          BY <4>1, <4>3, <4>4 DEF Summand
    <3>2. CASE n + 1 \notin s
      <4>1. s \in SUBSET (1..n)
            BY <3>2
      <4>2. f[s] = Summand(v, f, s)
            BY <2>1, <4>1 DEF IsFold
      <4>3. g[s] = f[s]
            BY <3>2
      <4>4. s \ {Max(s)} \in SUBSET (1..(n + 1)) /\ n + 1 \notin s \ {Max(s)}
            BY <3>2
      <4>5. g[s \ {Max(s)}] = f[s \ {Max(s)}]
            BY <4>4
      <4> HIDE DEF g
      <4> QED
          BY <4>2, <4>3, <4>5 DEF Summand
    <3> QED
        BY <3>1, <3>2
  <2>3. g = [s \in SUBSET (1..(n + 1)) |-> g[s]]
        OBVIOUS
  <2> HIDE DEF g
  <2>4. IsFold(v, g, 1..(n + 1))
        BY <2>2, <2>3 DEF IsFold
  <2> QED
      BY <2>4
<1>3. Nat \subseteq P
  <2> HIDE DEF P
  <2> QED
      BY <1>1, <1>2, SetInduction
<1> QED
    BY <1>3

\* The sum is the last of the partial sums.
LEMMA ValuesArePartial ==
    ASSUME NEW v, NEW n \in Nat, DOMAIN v = 1..n, NEW h, IsPartial(v, h, n)
    PROVE  Values(v) = h[n]
<1> DEFINE g == CHOOSE g : IsFold(v, g, DOMAIN v)
<1>1. IsFold(v, g, 1..n) /\ Values(v) = g[1..n]
  <2>1. \E f : IsFold(v, f, DOMAIN v)
        BY FoldExists
  <2>2. IsFold(v, g, DOMAIN v) /\ Values(v) = g[DOMAIN v]
        BY <2>1, ValuesIs
  <2> HIDE DEF g
  <2> QED
      BY <2>2
<1> HIDE DEF g
<1> DEFINE P == {k \in Nat : k <= n => g[1..k] = h[k]}
<1>2. \A s \in SUBSET (1..n) : g[s] = Summand(v, g, s)
      BY <1>1 DEF IsFold
<1>3. 0 \in P
  <2>1. 1..0 = {} /\ 1..0 \in SUBSET (1..n)
        OBVIOUS
  <2>2. g[1..0] = 0
        BY <1>2, <2>1 DEF Summand
  <2> QED
      BY <2>2 DEF IsPartial
<1>4. ASSUME NEW k \in Nat, k \in P PROVE k + 1 \in P
  <2> SUFFICES ASSUME k + 1 <= n PROVE g[1..(k + 1)] = h[k + 1]
      OBVIOUS
  <2>1. g[1..k] = h[k]
        BY <1>4
  <2>2. Max(1..(k + 1)) = k + 1
        BY MaxIs
  <2>3. /\ 1..(k + 1) \in SUBSET (1..n) /\ 1..(k + 1) # {}
        /\ (1..(k + 1)) \ {k + 1} = 1..k
        OBVIOUS
  <2>4. g[1..(k + 1)] = g[1..k] + v[k + 1].val
        BY <1>2, <2>2, <2>3 DEF Summand
  <2>5. k + 1 \in 1..n /\ (k + 1) - 1 = k
        OBVIOUS
  <2>6. h[k + 1] = h[k] + v[k + 1].val
        BY <2>5 DEF IsPartial
  <2> QED
      BY <2>1, <2>4, <2>6
<1>5. n \in P
  <2> HIDE DEF P
  <2> QED
      BY <1>3, <1>4, SetInduction
<1> QED
    BY <1>1, <1>5

\* Partial sums exist, as natural numbers.
LEMMA PartialExists ==
    ASSUME NEW v
    PROVE  \A n \in Nat : (\A k \in 1..n : v[k].val \in Nat) =>
               \E h \in [0..n -> Nat] : IsPartial(v, h, n)
<1> DEFINE P == {n \in Nat : (\A k \in 1..n : v[k].val \in Nat) =>
                     \E h \in [0..n -> Nat] : IsPartial(v, h, n)}
<1>1. 0 \in P
  <2>1. [k \in 0..0 |-> 0] \in [0..0 -> Nat] /\ IsPartial(v, [k \in 0..0 |-> 0], 0)
        BY DEF IsPartial
  <2> QED
      BY <2>1
<1>2. ASSUME NEW n \in Nat, n \in P PROVE n + 1 \in P
  <2> SUFFICES ASSUME \A k \in 1..(n + 1) : v[k].val \in Nat
               PROVE  \E h \in [0..(n + 1) -> Nat] : IsPartial(v, h, n + 1)
      OBVIOUS
  <2>1. \A k \in 1..n : v[k].val \in Nat
        OBVIOUS
  <2>2. PICK f \in [0..n -> Nat] : IsPartial(v, f, n)
        BY <1>2, <2>1
  <2> DEFINE h == [k \in 0..(n + 1) |-> IF k = n + 1 THEN f[n] + v[n + 1].val ELSE f[k]]
  <2>3. h \in [0..(n + 1) -> Nat]
        OBVIOUS
  <2>4. \A k \in 0..n : h[k] = f[k]
        OBVIOUS
  <2>5. h[n + 1] = f[n] + v[n + 1].val
        OBVIOUS
  <2> HIDE DEF h
  <2>6. h[0] = 0
        BY <2>2, <2>4 DEF IsPartial
  <2>7. ASSUME NEW k \in 1..(n + 1) PROVE h[k] = h[k - 1] + v[k].val
    <3>1. CASE k = n + 1
          BY <2>4, <2>5, <3>1
    <3>2. CASE k \in 1..n
      <4>1. k - 1 \in 0..n /\ k \in 0..n
            BY <3>2
      <4> QED
          BY <2>2, <2>4, <3>2, <4>1 DEF IsPartial
    <3> QED
        BY <3>1, <3>2
  <2>8. IsPartial(v, h, n + 1)
        BY <2>6, <2>7 DEF IsPartial
  <2> QED
      BY <2>3, <2>8
<1>3. Nat \subseteq P
  <2> HIDE DEF P
  <2> QED
      BY <1>1, <1>2, SetInduction
<1> QED
    BY <1>3

\* A sequence of amounts has a natural sum, and one that extends it by an
\* amount has the sum with that amount.
LEMMA ValuesExtended ==
    ASSUME NEW n \in Nat, NEW v, DOMAIN v = 1..n, \A k \in 1..n : v[k].val \in Nat
    PROVE  /\ Values(v) \in Nat
           /\ \A w : /\ DOMAIN w = 1..n
                     /\ \A k \in 1..n : w[k].val = v[k].val
                     => Values(w) = Values(v)
           /\ \A w : /\ DOMAIN w = 1..(n + 1) /\ w[n + 1].val \in Nat
                     /\ \A k \in 1..n : w[k].val = v[k].val
                     => Values(w) = Values(v) + w[n + 1].val
<1>1. PICK h \in [0..n -> Nat] : IsPartial(v, h, n)
      BY PartialExists
<1>2. Values(v) = h[n] /\ h[n] \in Nat
      BY <1>1, ValuesArePartial
<1>3. ASSUME NEW w, DOMAIN w = 1..n, \A k \in 1..n : w[k].val = v[k].val
      PROVE  Values(w) = Values(v)
  <2>1. IsPartial(w, h, n)
        BY <1>1, <1>3 DEF IsPartial
  <2> QED
      BY <1>2, <1>3, <2>1, ValuesArePartial
<1>4. ASSUME NEW w, DOMAIN w = 1..(n + 1), w[n + 1].val \in Nat,
             \A k \in 1..n : w[k].val = v[k].val
      PROVE  Values(w) = Values(v) + w[n + 1].val
  <2>1. \A k \in 1..(n + 1) : w[k].val \in Nat
    <3> SUFFICES ASSUME NEW k \in 1..(n + 1) PROVE w[k].val \in Nat
        OBVIOUS
    <3>1. k = n + 1 \/ k \in 1..n
          OBVIOUS
    <3> QED
        BY <1>4, <3>1
  <2>2. PICK f \in [0..(n + 1) -> Nat] : IsPartial(w, f, n + 1)
    <3>1. n + 1 \in Nat
          OBVIOUS
    <3> QED
        BY <2>1, <3>1, PartialExists, Zenon
  <2>3. \A k \in 1..(n + 1) : f[k] = f[k - 1] + w[k].val
        BY <2>2 DEF IsPartial
  <2>4. IsPartial(v, f, n)
    <3> SUFFICES ASSUME NEW k \in 1..n PROVE f[k] = f[k - 1] + v[k].val
        BY <2>2 DEF IsPartial
    <3>1. k \in 1..(n + 1) /\ w[k].val = v[k].val
          BY <1>4
    <3> QED
        BY <2>3, <3>1
  <2>5. Values(v) = f[n]
        BY <2>4, ValuesArePartial
  <2>6. Values(w) = f[n + 1]
        BY <1>4, <2>2, ValuesArePartial
  <2>7. f[n + 1] = f[n] + w[n + 1].val
        BY <2>3
  <2> QED
      BY <2>5, <2>6, <2>7
<1> QED
    BY <1>2, <1>3, <1>4

\* No coins, and one.
LEMMA ValuesOfFew ==
    /\ Values(<<>>) = 0
    /\ \A x : x.val \in Nat => Values(<<x>>) = x.val
<1>1. Values(<<>>) = 0
  <2>1. IsPartial(<<>>, [k \in 0..0 |-> 0], 0)
        BY DEF IsPartial
  <2>2. DOMAIN <<>> = 1..0
        OBVIOUS
  <2> QED
      BY <2>1, <2>2, ValuesArePartial
<1>2. ASSUME NEW x, x.val \in Nat PROVE Values(<<x>>) = x.val
  <2>1. PICK v : v = <<x>>
        OBVIOUS
  <2>2. DOMAIN v = 1..1 /\ v[1] = x /\ 1 \in Nat
        BY <2>1
  <2> DEFINE h == [k \in 0..1 |-> IF k = 0 THEN 0 ELSE x.val]
  <2>3. h[0] = 0 /\ h[1] = x.val
        OBVIOUS
  <2> HIDE DEF h
  <2>4. \A k \in 1..1 : k = 1
        OBVIOUS
  <2>5. IsPartial(v, h, 1)
        BY <1>2, <2>2, <2>3, <2>4 DEF IsPartial
  <2>6. Values(v) = h[1]
        BY <2>2, <2>5, ValuesArePartial, Zenon
  <2> QED
      BY <2>1, <2>3, <2>6
<1> QED
    BY <1>1, <1>2

-----------------------------------------------------------------------------
(* What is built                                                           *)

\* The parameters of an attempt.
LEMMA ParamsShape ==
    ASSUME CallOK(call)
    PROVE  /\ IsParams(PRVParams) /\ PRVParams.pays = call.pays
           /\ PRVParams.pays \in Payments
           /\ PRVParams.fee = (IF version = 1 /\ HasTokenFee THEN 0 ELSE fee)
           /\ PRVParams.ins = Inputs(PRV).coins /\ PRVParams.asset = PRV
           /\ IsParams(TokenParams) /\ TokenParams.pays = call.tok.pays
           /\ TokenParams.fee = (IF version = 1 /\ HasTokenFee THEN TokenFee ELSE 0)
           /\ TokenParams.ins = Inputs(call.tok.asset).coins
           /\ TokenParams.asset = call.tok.asset
           /\ TokenParams.md = NoMetadata /\ TokenParams.kind = call.tok.kind
           /\ TokenParams.amount = Wrap(Values(call.tok.pays) + TokenParams.fee)
BY DEF PRVParams, TokenParams, Params, IsParams, CallOK

\* The outputs of a part are a list that pays what is asked for.
PaidInOrder(outs, pays) ==
    Pays(outs, pays) /\ DOMAIN outs = 1..Len(outs) /\ Len(outs) \in Nat

\* Where a version 1 part could be without coins, nothing is to be paid.
LEMMA Version1Pays ==
    ASSUME NEW p, IsParams(p), p.pays \in Payments, ~Failed(InitVer1(p)),
           IsNonPrivacyNonInput(p) => p.pays = <<>>
    PROVE  PaidInOrder(InitVer1(p).outs, p.pays)
<1>1. PaidInOrder(<<>>, <<>>)
      BY DEF Pays, PaidInOrder
<1>2. \/ InitVer1(p).outs = OutputCoins(CalculateSentBackInfo(p))
      \/ IsNonPrivacyNonInput(p) /\ InitVer1(p).outs = <<>>
      BY Version1Coins
<1>3. PaidInOrder(OutputCoins(CalculateSentBackInfo(p)), p.pays)
      BY ChangeIsLast DEF PaidInOrder
<1> QED
    BY <1>1, <1>2, <1>3

\* A PRV transaction.
LEMMA PRVIsPaid ==
    ASSUME BuildInv, stage = "init", call.route = "prv", NEW pi,
           ~Failed(BuildTx(pi))
    PROVE  PaidInOrder(BuildTx(pi).base.outs, call.pays)
<1>1. CallOK(call) /\ Accepts /\ version \in {1, 2}
      BY DEF BuildInv, CallInv, VersionInv, Transfers
<1>2. /\ IsParams(PRVParams) /\ PRVParams.pays = call.pays
      /\ PRVParams.pays \in Payments /\ PRVParams.ins = Inputs(PRV).coins
      /\ PRVParams.fee = (IF version = 1 /\ HasTokenFee THEN 0 ELSE fee)
      BY <1>1, ParamsShape
<1>3. Failed(NoTx)
      BY DEF Failed, NoTx
<1>4. CASE version = 1
  <2>1. PICK t : t = InitVer1(PRVParams)
        OBVIOUS
  <2>2. BuildTx(pi) = Plain(t)
        BY <1>4, <2>1 DEF BuildTx, CreateVer1
  <2>3. ~Failed(t) /\ BuildTx(pi).base = t
        BY <1>3, <2>2 DEF Plain, Whole
  <2>4. ~HasTokenFee
        BY <1>1 DEF Accepts, HasTokenFee
  <2>5. PRVParams.fee # 0
        BY <1>2, <1>4, <2>4 DEF BuildInv, VersionInv
  <2>6. ~IsNonPrivacyNonInput(PRVParams)
        BY <2>5 DEF IsNonPrivacyNonInput
  <2> QED
      BY <1>2, <2>1, <2>3, <2>6, Version1Pays
<1>5. CASE version = 2
  <2>1. PICK t : t = InitVer2(PRVParams, pi)
        OBVIOUS
  <2>2. BuildTx(pi) = Plain(t)
        BY <1>5, <2>1 DEF BuildTx, CreateVer2
  <2>3. ~Failed(t) /\ BuildTx(pi).base = t
        BY <1>3, <2>2 DEF Plain, Whole
  <2>4. PRVParams.ins # <<>>
    <3>1. Todo(version) = <<PRV>>
          BY DEF Todo
    <3>2. PRV \in ToSet(Todo(version)) /\ ToSet(todo) = {}
          BY <3>1 DEF ToSet, BuildInv, TodoInv
    <3>3. Ready(PRV)
          BY <3>2 DEF BuildInv, ReadyInv, Transfers
    <3> QED
        BY <1>2, <1>5, <3>3 DEF Ready, Inputs
  <2>5. t.outs = OutputCoins(CalculateSentBackInfo(PRVParams))
        BY <1>2, <2>1, <2>3, <2>4, Version2Coins
  <2> QED
      BY <1>2, <2>3, <2>5, ChangeIsLast DEF PaidInOrder
<1> QED
    BY <1>1, <1>4, <1>5

\* A version 1 token transaction: the PRV part pays nothing when it is empty,
\* the token part has inputs unless it creates the token.
LEMMA TokenVersion1IsPaid ==
    ASSUME BuildInv, stage = "init", call.route = "token", version = 1, NEW t,
           t = InitTokenVer1(PRVParams, TokenParams), ~Failed(t)
    PROVE  /\ PaidInOrder(t.base.outs, call.pays)
           /\ PaidInOrder(t.data.sub.outs, call.tok.pays)
<1>1. /\ CallOK(call) /\ Accepts /\ call.tok.pays \in Payments
      /\ call.tok.asset # PRV /\ fee # 0
      BY DEF BuildInv, CallInv, CallOK, VersionInv
<1>2. /\ IsParams(PRVParams) /\ PRVParams.pays = call.pays
      /\ PRVParams.pays \in Payments
      /\ PRVParams.fee = (IF version = 1 /\ HasTokenFee THEN 0 ELSE fee)
      /\ IsParams(TokenParams) /\ TokenParams.pays = call.tok.pays
      /\ TokenParams.ins = Inputs(call.tok.asset).coins
      /\ TokenParams.md = NoMetadata /\ TokenParams.kind = call.tok.kind
      /\ TokenParams.fee = (IF version = 1 /\ HasTokenFee THEN TokenFee ELSE 0)
      /\ TokenParams.amount = Wrap(Values(call.tok.pays) + TokenParams.fee)
      BY <1>1, ParamsShape
<1>3. /\ ~Failed(InitVer1(PRVParams)) /\ SameCoins(t.base, InitVer1(PRVParams))
      /\ TokenParams.kind = "init" =>
            t.data.sub.outs = <<[to |-> TokenParams.pays[1].to,
                                 val |-> TokenParams.amount, asset |-> "new"]>>
      /\ TokenParams.kind # "init" =>
            ~Failed(InitVer1(TokenParams)) /\ t.data.sub = InitVer1(TokenParams)
  <2>1. PICK p, tp : p = PRVParams /\ tp = TokenParams
        OBVIOUS
  <2>2. /\ IsParams(p) /\ p.pays \in Payments
        /\ IsParams(tp) /\ tp.pays \in Payments /\ tp.md = NoMetadata
        BY <1>1, <1>2, <2>1
  <2>3. PICK r : r = InitTokenVer1(p, tp)
        OBVIOUS
  <2>4. t = r /\ ~Failed(InitTokenVer1(p, tp))
        BY <2>1, <2>3
  <2>5. /\ ~Failed(InitVer1(p)) /\ SameCoins(r.base, InitVer1(p))
        /\ tp.kind = "init" =>
              r.data.sub.outs = <<[to |-> tp.pays[1].to, val |-> tp.amount,
                                   asset |-> "new"]>>
        /\ tp.kind # "init" => ~Failed(InitVer1(tp)) /\ r.data.sub = InitVer1(tp)
        BY <2>2, <2>3, <2>4, TokenVersion1Coins
  <2> QED
      BY <2>1, <2>4, <2>5
<1>4. PaidInOrder(t.base.outs, call.pays)
  <2>1. IsNonPrivacyNonInput(PRVParams) => call.pays = <<>>
        BY <1>1, <1>2 DEF IsNonPrivacyNonInput, HasTokenFee, CallOK
  <2> QED
      BY <1>2, <1>3, <2>1, Version1Pays DEF SameCoins
<1>5. CASE call.tok.kind = "init"
  <2>1. ~HasTokenFee /\ Len(call.tok.pays) = 1 /\ call.tok.pays[1].val < Modulus
        BY <1>1, <1>5 DEF CallOK, HasTokenFee
  <2>2. PICK x : x = call.tok.pays[1]
        OBVIOUS
  <2>3. x \in [to : STRING, val : Nat] /\ call.tok.pays = <<x>>
    <3>1. PICK pays : pays = call.tok.pays
          OBVIOUS
    <3>2. pays \in Seq([to : STRING, val : Nat]) /\ Len(pays) = 1 /\ x = pays[1]
          BY <1>1, <2>1, <2>2, <3>1 DEF Payments
    <3>3. x \in [to : STRING, val : Nat]
      <4>1. 1 \in 1..Len(pays)
            BY <3>2
      <4> QED
          BY <3>2, <4>1, ElementOfSeq, Zenon
    <3>4. pays = <<x>>
      <4>1. \A S : pays \in Seq(S) /\ Len(pays) = 1 => pays = <<pays[1]>>
            OBVIOUS
      <4> QED
          BY <3>2, <4>1, Zenon
    <3> QED
        BY <3>1, <3>3, <3>4
  <2>4. x.val \in Nat /\ Values(call.tok.pays) = x.val
        BY <2>3, ValuesOfFew
  <2>5. TokenParams.amount = x.val
        BY <1>2, <2>1, <2>2, <2>4, CallsAssumption DEF Wrap
  <2>6. t.data.sub.outs = <<[to |-> x.to, val |-> x.val, asset |-> "new"]>>
        BY <1>2, <1>3, <1>5, <2>2, <2>5
  <2> QED
      BY <1>4, <2>3, <2>6 DEF Pays, PaidInOrder
<1>6. CASE call.tok.kind # "init"
  <2>1. call.tok.asset \in ToSet(Todo(version)) /\ ToSet(todo) = {}
    <3>1. Todo(version) \in {<<call.tok.asset>>, <<PRV, call.tok.asset>>}
          BY <1>6 DEF Todo
    <3>2. \A a, b : b \in ToSet(<<b>>) /\ b \in ToSet(<<a, b>>)
          BY DEF ToSet
    <3> QED
        BY <3>1, <3>2 DEF ToSet, BuildInv, TodoInv
  <2>2. Ready(call.tok.asset)
        BY <2>1 DEF BuildInv, ReadyInv, Transfers
  <2>3. ~IsNonPrivacyNonInput(TokenParams)
        BY <1>1, <1>2, <2>2 DEF Ready, Inputs, IsNonPrivacyNonInput
  <2> QED
      BY <1>1, <1>2, <1>3, <1>4, <1>6, <2>3, Version1Pays
<1> QED
    BY <1>5, <1>6

\* A token transaction.
LEMMA TokenIsPaid ==
    ASSUME BuildInv, stage = "init", call.route = "token", NEW pi,
           ~Failed(BuildTx(pi))
    PROVE  /\ PaidInOrder(BuildTx(pi).base.outs, call.pays)
           /\ PaidInOrder(BuildTx(pi).data.sub.outs, call.tok.pays)
<1>1. /\ CallOK(call) /\ version \in {1, 2} /\ call.tok.pays \in Payments
      BY DEF BuildInv, CallInv, CallOK, VersionInv, Transfers
<1>2. CASE version = 1
  <2>1. BuildTx(pi) = InitTokenVer1(PRVParams, TokenParams)
        BY <1>2 DEF BuildTx, CreateTokenVer1
  <2> QED
      BY <1>2, <2>1, TokenVersion1IsPaid
<1>3. CASE version = 2
  <2>1. BuildTx(pi) = InitTokenVer2(PRVParams, TokenParams, pi)
        BY <1>3 DEF BuildTx, CreateTokenVer2
  <2>2. /\ IsParams(PRVParams) /\ PRVParams.pays = call.pays
        /\ PRVParams.pays \in Payments
        /\ IsParams(TokenParams) /\ TokenParams.pays = call.tok.pays
        /\ TokenParams.fee = 0 /\ TokenParams.md = NoMetadata
        BY <1>1, <1>3, ParamsShape
  <2>3. /\ HoldsPayments(BuildTx(pi).base, PRVParams)
        /\ HoldsPayments(BuildTx(pi).data.sub, TokenParams)
        BY <1>1, <2>1, <2>2, TokenVersion2Coins
  <2>4. /\ PaidInOrder(OutputCoins(CalculateSentBackInfo(PRVParams)), call.pays)
        /\ PaidInOrder(OutputCoins(CalculateSentBackInfo(TokenParams)),
                       call.tok.pays)
        BY <1>1, <2>2, ChangeIsLast DEF PaidInOrder
  <2> QED
      BY <2>3, <2>4 DEF HoldsPayments
<1> QED
    BY <1>1, <1>2, <1>3

\* Outputs that pay nobody are at most the change.
LEMMA ChangeOnly ==
    ASSUME NEW outs, DOMAIN outs = 1..Len(outs), Len(outs) \in Nat,
           Pays(outs, <<>>)
    PROVE  \A c \in ToSet(outs) : c.to = Sender
<1> SUFFICES ASSUME NEW k \in 1..Len(outs) PROVE outs[k].to = Sender
    BY DEF ToSet
<1>1. Len(<<>>) = 0
      OBVIOUS
<1>2. Len(outs) = 1 /\ k = 1
      BY <1>1 DEF Pays
<1> QED
    BY <1>1, <1>2 DEF Pays, Last

\* A conversion pays nobody but the sender.
LEMMA ConversionIsPaid ==
    ASSUME BuildInv, stage = "init", call.route \in {"convert", "tokenConvert"},
           NEW pi, ~Failed(BuildTx(pi))
    PROVE  /\ call.route # "convert" => Pays(BuildTx(pi).base.outs, call.pays)
           /\ \A c \in ToSet(BuildTx(pi).base.outs) : c.to = Sender
<1>1. CallOK(call) /\ call.pays = <<>>
      BY DEF BuildInv, CallInv, CallOK
<1>2. /\ IsParams(PRVParams) /\ PRVParams.pays = <<>>
      /\ PRVParams.pays \in Payments
      BY <1>1, ParamsShape
<1>3. Failed(NoTx)
      BY DEF Failed, NoTx
<1>4. CASE call.route = "convert"
  <2>1. PICK amount : amount = Wrap(Values(PRVParams.ins) - fee)
        OBVIOUS
  <2>2. PICK p : p = [PRVParams EXCEPT !.pays = ToSelf(amount)]
        OBVIOUS
  <2>3. PICK t : t = InitConversion(p)
        OBVIOUS
  <2>4. BuildTx(pi) = Plain(t)
        BY <1>4, <2>1, <2>2, <2>3 DEF BuildTx, CreateConversion
  <2>5. ~Failed(t) /\ BuildTx(pi).base = t
        BY <1>3, <2>4 DEF Plain, Whole
  <2>6. t.outs = OutputCoins(p)
        BY <2>3, <2>5, ConversionCoins
  <2>7. p.pays = <<[to |-> Sender, val |-> amount]>>
        BY <1>2, <2>2 DEF IsParams, ToSelf
  <2>8. \A k \in DOMAIN OutputCoins(p) : OutputCoins(p)[k].to = Sender
        BY <2>7 DEF OutputCoins
  <2> QED
      BY <1>4, <2>5, <2>6, <2>8 DEF ToSet
<1>5. CASE call.route = "tokenConvert"
  <2>1. PICK tp : tp = [TokenParams EXCEPT !.pays = ToSelf(Wrap(Values(TokenParams.ins)))]
        OBVIOUS
  <2>2. BuildTx(pi) = InitTokenConversion(PRVParams, tp, pi)
        BY <1>5, <2>1 DEF BuildTx, CreateTokenConversion
  <2>3. HoldsPayments(BuildTx(pi).base, PRVParams)
        BY <1>2, <2>2, TokenConversionCoins
  <2>4. PICK outs : outs = OutputCoins(CalculateSentBackInfo(PRVParams))
        OBVIOUS
  <2>5. BuildTx(pi).base.outs = outs
        BY <2>3, <2>4 DEF HoldsPayments
  <2>6. Pays(outs, <<>>) /\ DOMAIN outs = 1..Len(outs)
        BY <1>2, <2>4, ChangeIsLast
  <2>7. Len(outs) \in Nat
        BY <2>6 DEF Pays
  <2> QED
      BY <1>1, <2>5, <2>6, <2>7, ChangeOnly
<1> QED
    BY <1>4, <1>5

\* The outputs of a transaction are those asked for.
Keeps(t) ==
    /\ call.route # "convert" => Pays(t.base.outs, call.pays)
    /\ call.route = "token" => Pays(t.data.sub.outs, call.tok.pays)
    /\ call.route \in {"convert", "tokenConvert"} =>
          \A c \in ToSet(t.base.outs) : c.to = Sender

\* Whatever the route and the version.
LEMMA BuiltAsAsked ==
    ASSUME BuildInv, stage = "init", NEW pi, ~Failed(BuildTx(pi))
    PROVE  Keeps(BuildTx(pi))
<1>1. call.route \in {"prv", "token", "convert", "tokenConvert"}
      BY DEF BuildInv, CallInv, CallOK
<1> QED
    BY <1>1, PRVIsPaid, TokenIsPaid, ConversionIsPaid DEF Keeps, PaidInOrder

\* A step that makes no transaction and does not come to "send" or "ok", or
\* starts from "send" and changes neither the request nor the transaction,
\* leaves PaymentsKept as it is.
LEMMA PaymentsUntouched ==
    ASSUME PaymentsKept, call' = call,
           \/ stage' \notin {"send", "ok"}
           \/ stage \in {"send", "ok"} /\ tx' = tx
    PROVE  PaymentsKept'
<1>1. CASE stage' \notin {"send", "ok"}
      BY <1>1 DEF PaymentsKept, Built
<1>2. CASE stage \in {"send", "ok"} /\ tx' = tx
      BY <1>2 DEF PaymentsKept, Built, Failed, Pays
<1> QED
    BY <1>1, <1>2

\* Only InitTx makes a transaction.
LEMMA OtherSteps ==
    ASSUME [TxNext]_txVars, ~InitTx
    PROVE  /\ call' = call
           /\ \/ stage' \notin {"send", "ok"}
              \/ stage \in {"send", "ok"} /\ tx' = tx
<1>1. CASE StartCall
      BY <1>1 DEF StartCall
<1>2. CASE RefuseCall
      BY <1>2 DEF RefuseCall
<1>3. CASE UseGivenCoins
      BY <1>3 DEF UseGivenCoins
<1>4. CASE QueryCoins
      BY <1>4 DEF QueryCoins
<1>5. CASE QueryFails
      BY <1>5 DEF QueryFails, FallBackOrFail
<1>6. CASE QueryForConversion
      BY <1>6 DEF QueryForConversion, FallBackOrFail
<1>7. CASE Choose
      BY <1>7 DEF Choose, callVars
<1>8. CASE CoinsChosen
      BY <1>8 DEF CoinsChosen
<1>9. CASE NotEnoughCoins
      BY <1>9 DEF NotEnoughCoins, FallBackOrFail
<1>10. CASE GetDecoys
      BY <1>10 DEF GetDecoys
<1>11. CASE GetDecoysFails
      BY <1>11 DEF GetDecoysFails, FallBackOrFail
<1>12. CASE Send
      BY <1>12 DEF Send
<1>13. CASE SendFails \/ AnswerUnreadable
      BY <1>13 DEF SendFails, AnswerUnreadable
<1>14. CASE CallAgain
      BY <1>14 DEF CallAgain
<1>15. CASE CallReturned
      BY <1>15 DEF CallReturned, txVars, callVars
<1>16. CASE UNCHANGED txVars
      BY <1>16 DEF txVars, callVars
<1> QED
    BY <1>1, <1>2, <1>3, <1>4, <1>5, <1>6, <1>7, <1>8, <1>9, <1>10, <1>11,
       <1>12, <1>13, <1>14, <1>15, <1>16 DEF TxNext

\* Every step preserves PaymentsKept.
LEMMA PaymentsStep ==
    BuildInv /\ PaymentsKept /\ [TxNext]_txVars => PaymentsKept'
<1> SUFFICES ASSUME BuildInv, PaymentsKept, [TxNext]_txVars PROVE PaymentsKept'
    OBVIOUS
<1>1. CASE InitTx
  <2>1. PICK pi : IF Failed(BuildTx(pi)) THEN FallBackOrFail
                  ELSE tx' = BuildTx(pi) /\ stage' = "send" /\ call' = call
        BY <1>1 DEF InitTx
  <2>2. CASE FallBackOrFail
        BY <2>2, PaymentsUntouched DEF FallBackOrFail
  <2>3. CASE ~Failed(BuildTx(pi)) /\ tx' = BuildTx(pi) /\ call' = call
    <3>1. Keeps(BuildTx(pi))
          BY <1>1, <2>3, BuiltAsAsked DEF InitTx
    <3>2. PICK t : t = BuildTx(pi)
          OBVIOUS
    <3>3. tx' = t /\ Keeps(t)
          BY <2>3, <3>1, <3>2
    <3> QED
        BY <2>3, <3>3 DEF PaymentsKept, Keeps, Pays
  <2> QED
      BY <2>1, <2>2, <2>3
<1>2. CASE ~InitTx
      BY <1>2, OtherSteps, PaymentsUntouched
<1> QED
    BY <1>1, <1>2

\* PaymentsKept: the outputs of every transaction built are the payments asked
\* for, in their order, and at most one more, to the sender (the change that
\* CalculateSentBackInfo appends); whichever version was tried first, whatever
\* failed, and however often the caller called again.
THEOREM PaymentsAreKept == TxSpec => []PaymentsKept
<1>1. TxInit => PaymentsKept
      BY DEF TxInit, PaymentsKept, Built
<1> QED
    BY <1>1, BuildInvInit, BuildInvStep, PaymentsStep, PTL DEF TxSpec

-----------------------------------------------------------------------------
(* Version 2 conserves value                                               *)

IsSeq(s) == s = [k \in 1..Len(s) |-> s[k]]

\* The lists that inputs are made of are sequences.
ShapeInv ==
    /\ i \in Nat /\ chosen \in Seq(Nat)
    /\ Transfers => \A a \in DOMAIN sel : IsSeq(sel[a].coins)

\* A call to chooseBestCoinsByAmount keeps positions in a sequence.
LEMMA ChosenIsSeq ==
    ASSUME i \in Nat, chosen \in Seq(Nat), Next
    PROVE  i' \in Nat /\ chosen' \in Seq(Nat)
<1>1. Len(coinList) \in Nat
      OBVIOUS
<1>2. [k \in 1..Len(coinList) |-> k] \in Seq(Nat)
      BY <1>1
<1>3. i + 1 \in Nat
      OBVIOUS
<1>4. Append(chosen, i + 1) \in Seq(Nat) /\ Append(chosen, Len(coinList)) \in Seq(Nat)
      BY <1>1, <1>3
<1>5. CASE SumCoin \/ TotalTooSmall \/ SkipCoin \/ LoopEnds \/ Covered \/ Returned
      BY <1>3, <1>5 DEF SumCoin, TotalTooSmall, SkipCoin, LoopEnds, Covered,
         Returned, vars
<1>6. CASE TotalExact
      BY <1>2, <1>6, Zenon DEF TotalExact
<1>7. CASE StartChoosing
      BY <1>7 DEF StartChoosing
<1>8. CASE TakeAndBreak
      BY <1>4, <1>8, Zenon DEF TakeAndBreak
<1>9. CASE TakeCoin
      BY <1>3, <1>4, <1>9, Zenon DEF TakeCoin, Take
<1>10. CASE AddLastCoin
      BY <1>4, <1>10, Zenon DEF AddLastCoin
<1> QED
    BY <1>5, <1>6, <1>7, <1>8, <1>9, <1>10 DEF Next

\* Inputs added to those prepared.
LEMMA ShapeInputs ==
    ASSUME ShapeInv, NEW ins, IsSeq(ins.coins), sel' = WithInputs(ins),
           call' = call, i' = i, chosen' = chosen
    PROVE  ShapeInv'
<1>1. ASSUME Transfers, NEW a \in DOMAIN sel' PROVE IsSeq(sel'[a].coins)
  <2>1. sel'[a] = (IF a = asset THEN ins ELSE sel[a]) /\ (a # asset => a \in DOMAIN sel)
        BY DEF WithInputs
  <2> QED
      BY <1>1, <2>1 DEF ShapeInv
<1> QED
    BY <1>1 DEF ShapeInv, Transfers, IsSeq

\* Nothing prepared, or nothing changed.
LEMMA ShapeKept ==
    ASSUME ShapeInv, call' = call, i' \in Nat, chosen' \in Seq(Nat),
           sel' = NoSel \/ sel' = sel
    PROVE  ShapeInv'
BY DEF ShapeInv, Transfers, IsSeq, NoSel

\* The decoys change no list of coins.
LEMMA ShapeDecoys ==
    ASSUME BuildInv, ShapeInv, GetDecoys PROVE ShapeInv'
<1>1. call' = call /\ i' \in Nat /\ chosen' \in Seq(Nat)
      BY DEF GetDecoys, vars, ShapeInv
<1>2. CASE sel' = NoSel
      BY <1>1, <1>2, ShapeKept
<1>3. CASE \E d : sel' = [sel EXCEPT ![asset].decoys = d]
  <2>1. PICK d : sel' = [sel EXCEPT ![asset].decoys = d]
        BY <1>3
  <2>2. asset \in DOMAIN sel /\ IsInputs(sel[asset])
        BY DEF GetDecoys, BuildInv, ReadyInv, SelInv
  <2>3. /\ DOMAIN sel' = DOMAIN sel
        /\ \A a \in DOMAIN sel : a # asset => sel'[a] = sel[a]
        /\ sel'[asset] = [sel[asset] EXCEPT !.decoys = d]
        BY <2>1, <2>2
  <2>4. sel'[asset].coins = sel[asset].coins
        BY <2>2, <2>3 DEF IsInputs
  <2>5. \A a \in DOMAIN sel' : sel'[a].coins = sel[a].coins
        BY <2>3, <2>4
  <2>6. ASSUME Transfers, NEW a \in DOMAIN sel' PROVE IsSeq(sel'[a].coins)
    <3>1. IsSeq(sel[a].coins)
          BY <2>3, <2>6 DEF ShapeInv
    <3> QED
        BY <2>5, <3>1
  <2> QED
      BY <1>1, <2>6 DEF ShapeInv, Transfers, IsSeq
<1> QED
    BY <1>2, <1>3 DEF GetDecoys

\* Every step keeps them sequences.
LEMMA ShapeStep ==
    BuildInv /\ ShapeInv /\ [TxNext]_txVars => ShapeInv'
<1> SUFFICES ASSUME BuildInv, ShapeInv, [TxNext]_txVars PROVE ShapeInv'
    OBVIOUS
<1>0. i \in Nat /\ chosen \in Seq(Nat)
      BY DEF ShapeInv
<1>1. CASE StartCall
      BY <1>0, <1>1, ShapeKept DEF StartCall, vars
<1>2. CASE RefuseCall
      BY <1>0, <1>2, ShapeKept DEF RefuseCall, vars
<1>3. CASE UseGivenCoins
  <2>1. PICK ins : /\ ins = [coins |-> Given.coins, mine |-> Given.idx, decoys |-> <<>>]
                   /\ sel' = WithInputs(ins)
        BY <1>3 DEF UseGivenCoins
  <2>2. ins.coins \in Seq(CoinType)
    <3>1. Given \in CoinsIn
          BY DEF Given, BuildInv, CallInv, CallOK
    <3> QED
        BY <2>1, <3>1 DEF CoinsIn
  <2>3. \A S : \A s \in Seq(S) : s = [k \in 1..Len(s) |-> s[k]]
        OBVIOUS
  <2>4. IsSeq(ins.coins)
        BY <2>2, <2>3, Zenon DEF IsSeq
  <2> QED
      BY <1>3, <2>1, <2>4, ShapeInputs DEF UseGivenCoins, vars
<1>4. CASE QueryCoins
  <2>1. i' = 0 /\ chosen' = <<>> /\ sel' = sel /\ call' = call
        BY <1>4 DEF QueryCoins
  <2>2. i' \in Nat /\ chosen' \in Seq(Nat)
        BY <2>1
  <2> QED
      BY <2>1, <2>2, ShapeKept
<1>5. CASE QueryFails
      BY <1>0, <1>5, ShapeKept DEF QueryFails, FallBackOrFail, vars
<1>6. CASE QueryForConversion
      BY <1>6 DEF QueryForConversion, FallBackOrFail, ShapeInv, Transfers, vars,
         converting
<1>7. CASE Choose
      BY <1>0, <1>7, ShapeKept, ChosenIsSeq DEF Choose, callVars
<1>8. CASE CoinsChosen
  <2>1. PICK ins : /\ ins = [coins |-> [k \in DOMAIN chosen |-> cands[chosen[k]].coin],
                             mine  |-> [k \in DOMAIN chosen |-> cands[chosen[k]].idx],
                             decoys |-> <<>>]
                   /\ sel' = WithInputs(ins)
        BY <1>8 DEF CoinsChosen
  <2>2. ins.coins = [k \in 1..Len(chosen) |-> cands[chosen[k]].coin]
        BY <1>0, <2>1
  <2>3. IsSeq(ins.coins)
        BY <1>0, <2>2 DEF IsSeq
  <2> QED
      BY <1>8, <2>1, <2>3, ShapeInputs DEF CoinsChosen, vars
<1>9. CASE NotEnoughCoins
      BY <1>0, <1>9, ShapeKept DEF NotEnoughCoins, FallBackOrFail, vars
<1>10. CASE GetDecoys
      BY <1>10, ShapeDecoys
<1>11. CASE GetDecoysFails
      BY <1>0, <1>11, ShapeKept DEF GetDecoysFails, FallBackOrFail, vars
<1>12. CASE InitTx
      BY <1>0, <1>12, ShapeKept DEF InitTx, FallBackOrFail, vars
<1>13. CASE Send
      BY <1>0, <1>13, ShapeKept DEF Send, vars
<1>14. CASE SendFails \/ AnswerUnreadable
      BY <1>0, <1>14, ShapeKept DEF SendFails, AnswerUnreadable, vars
<1>15. CASE CallAgain
      BY <1>0, <1>15, ShapeKept DEF CallAgain, vars
<1>16. CASE CallReturned
      BY <1>0, <1>16, ShapeKept DEF CallReturned, txVars, callVars, vars
<1>17. CASE UNCHANGED txVars
      BY <1>0, <1>17, ShapeKept DEF txVars, callVars, vars
<1> QED
    BY <1>1, <1>2, <1>3, <1>4, <1>5, <1>6, <1>7, <1>8, <1>9, <1>10, <1>11,
       <1>12, <1>13, <1>14, <1>15, <1>16, <1>17 DEF TxNext

\* The coins of a sequence that has one asset are those of that asset.
LEMMA ValuesOfOne ==
    ASSUME NEW s, IsSeq(s), NEW T, \A k \in DOMAIN s : s[k].asset = T
    PROVE  ValuesOf(s, T) = Values(s)
<1>1. PICK f : f = [k \in DOMAIN s |-> IF s[k].asset = T THEN s[k] ELSE [val |-> 0]]
      OBVIOUS
<1>2. f = [k \in DOMAIN s |-> s[k]]
      BY <1>1
<1>3. DOMAIN s = 1..Len(s)
      BY DEF IsSeq
<1>4. s = f
      BY <1>2, <1>3 DEF IsSeq
<1> QED
    BY <1>1, <1>4 DEF ValuesOf

\* Outputs of one asset: the asset tags only cancel if the inputs are of that
\* asset, and then the commitments only cancel if their values do.
LEMMA OneAsset ==
    ASSUME NEW ins, NEW outs, IsSeq(ins), IsSeq(outs), Len(outs) # 0,
           NEW T, \A k \in DOMAIN outs : outs[k].asset = T,
           AssetTagsSumToZero(ins, outs), CommitmentsSumToZeroCA(ins, outs)
    PROVE  Values(ins) = Values(outs)
<1>1. /\ Len(ins) \in Nat /\ Len(outs) \in Nat \ {0}
      /\ DOMAIN ins = 1..Len(ins) /\ DOMAIN outs = 1..Len(outs)
      BY DEF IsSeq
<1>2. ASSUME NEW k \in DOMAIN ins, ins[k].asset # T PROVE FALSE
  <2>1. PICK a : a = ins[k].asset
        OBVIOUS
  <2>2. a \in Assets(ins)
        BY <2>1 DEF Assets, ToSet
  <2>3. CountOf(outs, a) = 0
    <3>1. {m \in DOMAIN outs : outs[m].asset = a} = {}
          BY <1>2, <2>1
    <3> QED
        BY <3>1, FS_EmptySet DEF CountOf
  <2>4. CountOf(ins, a) \in Nat \ {0}
    <3> DEFINE S == {m \in DOMAIN ins : ins[m].asset = a}
    <3>1. IsFiniteSet(1..Len(ins))
          BY <1>1, FS_Interval
    <3>2. IsFiniteSet(S) /\ k \in S
          BY <1>1, <2>1, <3>1, FS_Subset
    <3>3. Cardinality(S) \in Nat /\ Cardinality(S) # 0
          BY <3>2, FS_CardinalityType, FS_EmptySet
    <3> QED
        BY <3>3 DEF CountOf
  <2>5. Len(outs) * CountOf(ins, a) = Len(ins) * CountOf(outs, a)
        BY <2>2 DEF AssetTagsSumToZero
  <2>6. \A x, y \in Nat \ {0} : \A z \in Nat : x * y # z * 0
    <3> SUFFICES ASSUME NEW x \in Nat \ {0}, NEW y \in Nat \ {0}, NEW z \in Nat
                 PROVE  x * y # z * 0
        OBVIOUS
    <3>1. z * 0 = 0
          OBVIOUS
    <3>2. x * y > 0
          BY SMT
    <3> QED
        BY <3>1, <3>2
  <2> QED
      BY <1>1, <2>3, <2>4, <2>5, <2>6, Zenon
<1>3. T \in Assets(outs)
  <2>1. 1 \in DOMAIN outs
        BY <1>1
  <2> QED
      BY <2>1 DEF Assets, ToSet
<1>4. ValuesOf(ins, T) = ValuesOf(outs, T)
      BY <1>3 DEF CommitmentsSumToZeroCA
<1> QED
    BY <1>2, <1>4, ValuesOfOne

\* Of the transactions that are not of version 1: the PRV part's inputs are
\* worth its outputs and its fee, PRV conversions apart; so are, without a fee,
\* those of the token part of a transfer that has outputs.
Balances(t) ==
    /\ call.route # "convert" =>
          Values(t.base.ins) = Values(t.base.outs) + t.base.fee
    /\ call.route = "token" /\ Len(t.data.sub.outs) # 0 =>
          Values(t.data.sub.ins) = Values(t.data.sub.outs) /\ t.data.sub.fee = 0

Version2Balances == Built /\ tx.base.ver # 1 => Balances(tx)

\* The token part of a version 2 transfer.
LEMMA TokenPartBalances ==
    ASSUME BuildInv, ShapeInv, stage = "init", call.route = "token", NEW sub,
           IsParams(TokenParams), TokenParams.pays \in Payments,
           TokenParams.fee = 0, HoldsPayments(sub, TokenParams),
           AssetTagsSumToZero(sub.ins, sub.outs),
           CommitmentsSumToZeroCA(sub.ins, sub.outs), Len(sub.outs) # 0
    PROVE  Values(sub.ins) = Values(sub.outs) /\ sub.fee = 0
<1>1. PICK q : q = CalculateSentBackInfo(TokenParams)
      OBVIOUS
<1>2. /\ sub.fee = 0 /\ sub.outs = OutputCoins(q)
      /\ sub.ins = Inputs(call.tok.asset).coins
      BY <1>1 DEF HoldsPayments, TokenParams, Params
<1>3. DOMAIN OutputCoins(q) = 1..Len(OutputCoins(q))
      BY <1>1, ChangeIsLast
<1>4. IsSeq(sub.outs)
  <2>1. OutputCoins(q) = [k \in DOMAIN OutputCoins(q) |-> OutputCoins(q)[k]]
        BY DEF OutputCoins
  <2> QED
      BY <1>2, <1>3, <2>1 DEF IsSeq
<1>5. \A k \in DOMAIN sub.outs : sub.outs[k].asset = q.asset
      BY <1>2 DEF OutputCoins
<1>6. IsSeq(sub.ins)
  <2>1. IsSeq(<<>>)
        BY DEF IsSeq
  <2> QED
      BY <1>2, <2>1 DEF Inputs, ShapeInv, Transfers
<1>7. Values(sub.ins) = Values(sub.outs)
      BY <1>4, <1>5, <1>6, OneAsset
<1> QED
    BY <1>2, <1>7

\* Whatever is built as anything but version 1 balances.
LEMMA BuiltBalanced ==
    ASSUME BuildInv, ShapeInv, stage = "init", NEW pi, ~Failed(BuildTx(pi)),
           BuildTx(pi).base.ver # 1
    PROVE  Balances(BuildTx(pi))
<1>1. /\ CallOK(call) /\ (Transfers => version \in {1, 2})
      /\ call.route \in {"prv", "token", "convert", "tokenConvert"}
      BY DEF BuildInv, CallInv, CallOK, VersionInv
<1>2. /\ IsParams(PRVParams) /\ PRVParams.pays \in Payments
      /\ PRVParams.ins = Inputs(PRV).coins
      /\ IsParams(TokenParams) /\ TokenParams.pays = call.tok.pays
      /\ TokenParams.md = NoMetadata
      /\ TokenParams.fee = (IF version = 1 /\ HasTokenFee THEN TokenFee ELSE 0)
      BY <1>1, ParamsShape
<1>3. Failed(NoTx)
      BY DEF Failed, NoTx
<1>4. CASE call.route = "prv"
  <2>1. CASE version = 1
    <3>1. PICK t : t = InitVer1(PRVParams)
          OBVIOUS
    <3>2. BuildTx(pi) = Plain(t)
          BY <1>4, <2>1, <3>1 DEF BuildTx, CreateVer1
    <3>3. ~Failed(t) /\ BuildTx(pi).base = t
          BY <1>3, <3>2 DEF Plain, Whole
    <3> QED
        BY <1>2, <3>1, <3>3, Version1Coins
  <2>2. CASE version = 2
    <3>1. PICK t : t = InitVer2(PRVParams, pi)
          OBVIOUS
    <3>2. BuildTx(pi) = Plain(t)
          BY <1>4, <2>2, <3>1 DEF BuildTx, CreateVer2
    <3>3. ~Failed(t) /\ BuildTx(pi).base = t
          BY <1>3, <3>2 DEF Plain, Whole
    <3>4. PRVParams.ins # <<>>
      <4>1. Todo(version) = <<PRV>>
            BY <1>4 DEF Todo
      <4>2. PRV \in ToSet(Todo(version)) /\ ToSet(todo) = {}
            BY <4>1 DEF ToSet, BuildInv, TodoInv
      <4>3. Ready(PRV)
            BY <1>4, <4>2 DEF BuildInv, ReadyInv, Transfers
      <4> QED
          BY <1>2, <2>2, <4>3 DEF Ready, Inputs
    <3>5. CommitmentsSumToZero(t.ins, t.outs, t.fee)
          BY <1>2, <3>1, <3>3, <3>4, Version2Coins
    <3> QED
        BY <1>4, <3>3, <3>5 DEF Balances, CommitmentsSumToZero
  <2> QED
      BY <1>1, <1>4, <2>1, <2>2 DEF Transfers
<1>5. CASE call.route = "token"
  <2>0. TokenParams.pays \in Payments
        BY <1>1, <1>2, <1>5 DEF CallOK
  <2>1. CASE version = 1
    <3>1. PICK t : t = BuildTx(pi)
          OBVIOUS
    <3>2. t = InitTokenVer1(PRVParams, TokenParams)
          BY <1>5, <2>1, <3>1 DEF BuildTx, CreateTokenVer1
    <3>3. ~Failed(InitTokenVer1(PRVParams, TokenParams))
          BY <3>1, <3>2
    <3>4. t.base.ver = 1
          BY <1>2, <2>0, <3>2, <3>3, TokenVersion1Coins
    <3> QED
        BY <3>1, <3>4
  <2>2. CASE version = 2
    <3>1. PICK t : t = BuildTx(pi)
          OBVIOUS
    <3>2. t = InitTokenVer2(PRVParams, TokenParams, pi)
          BY <1>5, <2>2, <3>1 DEF BuildTx, CreateTokenVer2
    <3>3. TokenParams.fee = 0
          BY <1>2, <2>2
    <3>4. /\ CommitmentsSumToZero(t.base.ins, t.base.outs, t.base.fee)
          /\ HoldsPayments(t.data.sub, TokenParams)
          /\ AssetTagsSumToZero(t.data.sub.ins, t.data.sub.outs)
          /\ CommitmentsSumToZeroCA(t.data.sub.ins, t.data.sub.outs)
          BY <1>2, <2>0, <3>1, <3>2, <3>3, TokenVersion2Coins
    <3>5. PICK sub : sub = t.data.sub
          OBVIOUS
    <3>6. Len(sub.outs) # 0 => Values(sub.ins) = Values(sub.outs) /\ sub.fee = 0
          BY <1>2, <1>5, <2>0, <3>3, <3>4, <3>5, TokenPartBalances
    <3> QED
        BY <3>1, <3>4, <3>5, <3>6 DEF Balances, CommitmentsSumToZero
  <2> QED
      BY <1>1, <1>5, <2>1, <2>2 DEF Transfers
<1>6. CASE call.route = "tokenConvert"
  <2>1. PICK tp : tp = [TokenParams EXCEPT !.pays = ToSelf(Wrap(Values(TokenParams.ins)))]
        OBVIOUS
  <2>2. BuildTx(pi) = InitTokenConversion(PRVParams, tp, pi)
        BY <1>6, <2>1 DEF BuildTx, CreateTokenConversion
  <2>3. PICK t : t = BuildTx(pi)
        OBVIOUS
  <2>4. CommitmentsSumToZero(t.base.ins, t.base.outs, t.base.fee)
        BY <1>2, <2>2, <2>3, TokenConversionCoins
  <2> QED
      BY <1>6, <2>3, <2>4 DEF Balances, CommitmentsSumToZero
<1>7. CASE call.route = "convert"
      BY <1>7 DEF Balances
<1> QED
    BY <1>1, <1>4, <1>5, <1>6, <1>7

\* A step that makes no transaction.
LEMMA BalancesUntouched ==
    ASSUME Version2Balances, call' = call,
           \/ stage' \notin {"send", "ok"}
           \/ stage \in {"send", "ok"} /\ tx' = tx
    PROVE  Version2Balances'
<1>1. CASE stage' \notin {"send", "ok"}
      BY <1>1 DEF Version2Balances, Built
<1>2. CASE stage \in {"send", "ok"} /\ tx' = tx
      BY <1>2 DEF Version2Balances, Built, Failed, Balances
<1> QED
    BY <1>1, <1>2

\* Every step preserves Version2Balances.
LEMMA BalancesStep ==
    BuildInv /\ ShapeInv /\ Version2Balances /\ [TxNext]_txVars => Version2Balances'
<1> SUFFICES ASSUME BuildInv, ShapeInv, Version2Balances, [TxNext]_txVars
             PROVE  Version2Balances'
    OBVIOUS
<1>1. CASE InitTx
  <2>1. PICK pi : IF Failed(BuildTx(pi)) THEN FallBackOrFail
                  ELSE tx' = BuildTx(pi) /\ stage' = "send" /\ call' = call
        BY <1>1 DEF InitTx
  <2>2. CASE FallBackOrFail
        BY <2>2, BalancesUntouched DEF FallBackOrFail
  <2>3. CASE ~Failed(BuildTx(pi)) /\ tx' = BuildTx(pi) /\ call' = call
    <3>1. PICK t : t = BuildTx(pi)
          OBVIOUS
    <3>2. tx' = t /\ (t.base.ver # 1 => Balances(t))
          BY <1>1, <2>3, <3>1, BuiltBalanced DEF InitTx
    <3> QED
        BY <2>3, <3>2 DEF Version2Balances, Balances
  <2> QED
      BY <2>1, <2>2, <2>3
<1>2. CASE ~InitTx
  <2>1. /\ call' = call
        /\ \/ stage' \notin {"send", "ok"}
           \/ stage \in {"send", "ok"} /\ tx' = tx
        BY <1>2, OtherSteps
  <2> QED
      BY <2>1, BalancesUntouched
<1> QED
    BY <1>1, <1>2

\* Version 2 creates and destroys no value, whatever the amounts, whatever
\* coins were handed in and whichever RPC failed: createPrivateKeyMlsag and
\* createPrivateKeyMlsagCA recompute what the ring signature commits to, so
\* that a PRV part (other than a PRV conversion) has outputs and a fee worth
\* its inputs, and the token part of a transfer has outputs worth its inputs.
THEOREM Version2Conserves == TxSpec => []Version2Balances
<1>1. TxInit => ShapeInv /\ Version2Balances
      BY DEF TxInit, ShapeInv, Version2Balances, Built, NoSel
<1> QED
    BY <1>1, BuildInvInit, BuildInvStep, ShapeStep, BalancesStep, PTL DEF TxSpec
=============================================================================
