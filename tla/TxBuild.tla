------------------------------ MODULE TxBuild ------------------------------
(***************************************************************************)
(* Creating and sending a transaction (incclient/tx.go, txtoken.go,        *)
(* tx_convert.go, initParams* in tx_utils.go): a call queries the unspent  *)
(* coins of each asset it spends, chooses among them (the steps of         *)
(* ChooseCoins), asks for the decoys of its ring signatures, initializes   *)
(* the transaction (TxLayer) and submits it.  Version -1 tries version 1   *)
(* and then version 2.  Every RPC may fail; the submission, or the answer  *)
(* to it, may be lost.  A caller that gets an error may call again.        *)
(***************************************************************************)
EXTENDS Requests, ChooseCoins, Utxos, TxView

CONSTANTS Cases,           \* [call, ledger]: the calls, and the coins at hand
          MaxInputSize,    \* 30: bound on coins provided by the caller
          InscMinFeePerTx, InscMinFeePerKB,
          TokenFeePerKb,   \* the node's answer to GetTokenFee
          MaxFaults,       \* bound on failed RPCs
          MaxRetries       \* bound on calls made again after an error

Payments == Seq([to : STRING, val : Nat])
CoinType == [id : Nat, asset : STRING, ver : {1, 2}, val : Nat, idx : Nat,
             ok : BOOLEAN]
CoinsIn == [coins : Seq(CoinType), idx : Seq(Nat)]
IndexesOf(coins) == [k \in DOMAIN coins |-> coins[k].idx]

\* Own coins have indices up to this bound, decoys larger ones.
MaxOwnIndex == 1000

\* Coins of an account: each has a public key and an index of its own.
OwnCoins(coins) ==
    /\ coins \in Seq(CoinType)
    /\ \A k \in DOMAIN coins : coins[k].idx <= MaxOwnIndex
    /\ \A k, m \in DOMAIN coins :
          k # m => coins[k].id # coins[m].id /\ coins[k].idx # coins[m].idx

\* What the request functions hand to the builder: payments of uint64
\* amounts, coins of version 1 or 2 with their indices or with none, as the
\* queries return them; a token request names a token, a version
\* 1 token creation mints one amount and pays its fee in PRV, only a request
\* without PRV payments pays its fee in the token, and a conversion is of
\* version 2 and pays the default fee.
CallOK(c) ==
    /\ c.route \in {"prv", "token", "convert", "tokenConvert"}
    /\ c.version \in {-1, 1, 2}
    /\ c.fee \in Nat
    /\ c.pays \in Payments
    /\ \A in \in {c.prvIn, c.tokIn} :
          in \in CoinsIn /\ OwnCoins(in.coins)
          /\ in.idx \in {<<>>, IndexesOf(in.coins)}
    /\ c.md.type = "inscribe" => c.route = "prv"
    /\ c.route \in {"convert", "tokenConvert"} =>
          c.pays = <<>> /\ c.version = 2 /\ c.fee = DefaultPRVFee
    /\ c.route \in {"token", "tokenConvert"} =>
          c.tok.asset \notin {"none", PRV} /\ c.tok.pays \in Payments
          /\ c.tok.fee \in Nat
    /\ c.route = "token" =>
          /\ c.tok.hasFee \/ c.withCoins => c.pays = <<>>
          /\ c.tok.kind = "init" =>
                /\ c.version = 1 /\ ~c.tok.hasFee /\ ~c.withCoins
                /\ Len(c.tok.pays) = 1 /\ c.tok.pays[1].val < Modulus

\* The ledger knows the assets that are spent, and lists a coin under its own.
LedgerOK(l, c) ==
    /\ IsFiniteSet(DOMAIN l)
    /\ PRV \in DOMAIN l
    /\ c.route = "tokenConvert" \/ (c.route = "token" /\ c.tok.kind # "init") =>
          c.tok.asset \in DOMAIN l
    /\ \A a \in DOMAIN l :
          OwnCoins(l[a]) /\ \A k \in DOMAIN l[a] : l[a][k].asset = a

ASSUME CallsAssumption ==
    /\ \A case \in Cases : CallOK(case.call) /\ LedgerOK(case.ledger, case.call)
    /\ Modulus \in Nat \ {0} /\ DefaultPRVFee \in Nat \ {0}
    /\ RingSize \in Nat \ {0} /\ BatchSize \in Nat \ {0} /\ TokenFeePerKb \in Nat
    /\ InscMinFeePerTx \in Nat /\ InscMinFeePerKB \in Nat

VARIABLES call,      \* the request
          ledger,    \* the sender's output coins, by asset
          spent,     \* ids of the coins spent on chain
          stage,
          version,   \* the version being tried
          fee,       \* the PRV fee of the attempt
          estimated, \* the inscription fee has been re-estimated
          todo,      \* assets whose inputs are still to be prepared
          sel,       \* the inputs prepared: asset -> [coins, mine, decoys]
          cands,     \* divideCoins' list for the asset being prepared
          tx,
          received,  \* transactions that reached the node, in order
          accepted,  \* how many it accepted
          misread,   \* how many of those the client got no readable answer to
          faults, retries

callVars == <<call, ledger, spent, stage, version, fee, estimated, todo, sel,
              cands, tx, received, accepted, misread, faults, retries>>
txVars == <<callVars, vars>>

NoSel == [a \in {} |-> NoCoins]
isToken == call.tok.asset # "none"
hasMetadata == call.md.type # "none"

TxInit ==
    /\ \E case \in Cases : call = case.call /\ ledger = case.ledger
    /\ coinList = <<>> /\ requiredAmount = 0 /\ pc = "sum" /\ i = 0
    /\ totalInputAmount = 0 /\ remainAmount = 0 /\ totalChosenAmount = 0
    /\ chosen = <<>> /\ prefix = <<0>>
    /\ spent = {} /\ stage = "start" /\ version = 0 /\ fee = 0
    /\ estimated = FALSE /\ todo = <<>> /\ sel = NoSel /\ cands = <<>>
    /\ tx = NoTx /\ received = <<>> /\ accepted = 0 /\ misread = 0
    /\ faults = 0 /\ retries = 0

-----------------------------------------------------------------------------
(* The call                                                                *)

\* CreateRawTransactionWithInputCoins.
CoinsAccepted ==
    LET v == GetVersionFromInputCoins(call.prvIn.coins)
    IN  /\ ~isToken
        /\ v # 0
        /\ v = 2 => call.prvIn.idx # <<>>
        /\ Len(call.prvIn.coins) <= MaxInputSize

\* CreateRawTokenTransactionWithInputCoins.
TokenCoinsAccepted ==
    LET v == GetVersionFromInputCoins(call.tokIn.coins)
    IN  /\ v # 0
        /\ v = 2 => call.tokIn.idx # <<>> /\ call.prvIn.coins # <<>>
        /\ call.prvIn.coins # <<>> =>
              /\ GetVersionFromInputCoins(call.prvIn.coins) = v
              /\ v = 2 => call.prvIn.idx # <<>>
        /\ Len(call.tokIn.coins) <= MaxInputSize
        /\ Len(call.prvIn.coins) <= MaxInputSize

\* CreateConversionTransactionWithInputCoins and its token variant.
ConversionCoinsAccepted ==
    /\ GetVersionFromInputCoins(call.tokIn.coins) = 1
    /\ Len(call.tokIn.coins) <= MaxInputSize
    /\ call.route = "tokenConvert" =>
          /\ GetVersionFromInputCoins(call.prvIn.coins) = 2
          /\ Len(call.prvIn.coins) <= MaxInputSize
          /\ Len(call.prvIn.idx) = Len(call.prvIn.coins)
          /\ Wrap(Values(call.prvIn.coins)) >= DefaultPRVFee

\* The checks before anything is queried.
Accepts ==
    /\ call.route = "prv" => ~isToken
    /\ call.withCoins => CASE call.route = "prv"   -> CoinsAccepted
                           [] call.route = "token" -> TokenCoinsAccepted
                           [] OTHER                -> ConversionCoinsAccepted

\* The version the WithInputCoins functions pass on is that of the coins.
CallVersion ==
    IF ~call.withCoins \/ call.route \notin {"prv", "token"}
    THEN call.version
    ELSE GetVersionFromInputCoins(IF call.route = "prv" THEN call.prvIn.coins
                                  ELSE call.tokIn.coins)

\* Version 1 pays a token fee if asked to, or if it is given no PRV coins.
HasTokenFee ==
    /\ isToken
    /\ \/ call.tok.hasFee
       \/ call.withCoins /\ CallVersion = 1 /\ call.prvIn.coins = <<>>

\* Metadata over 100 KB costs five times the default fee.
StartFee(v) ==
    IF v = 2 /\ call.md.type = "inscribe" THEN InscMinFeePerTx
    ELSE IF call.route = "prv" /\ hasMetadata /\ call.md.big
         THEN 5 * DefaultPRVFee
    ELSE IF call.fee = 0 THEN DefaultPRVFee ELSE call.fee

\* The assets initParamsV1/V2 prepares inputs for, in order.
Todo(v) ==
    CASE call.route \in {"prv", "convert"} -> <<PRV>>
      [] call.route = "tokenConvert"       -> <<PRV, call.tok.asset>>
      [] OTHER                             ->
            IF v = 1 /\ call.tok.kind = "init" THEN <<PRV>>
            ELSE IF v = 1 /\ HasTokenFee THEN <<call.tok.asset>>
            ELSE <<PRV, call.tok.asset>>

StartCall ==
    LET v == IF CallVersion = -1 THEN 1 ELSE CallVersion
    IN  /\ stage = "start"
        /\ Accepts
        /\ stage' = "query" /\ version' = v /\ fee' = StartFee(v)
        /\ todo' = Todo(v) /\ sel' = NoSel /\ estimated' = FALSE
        /\ UNCHANGED <<call, ledger, spent, cands, tx, received, accepted, misread,
                       faults, retries, vars>>

RefuseCall ==
    /\ stage = "start"
    /\ ~Accepts
    /\ stage' = "error"
    /\ UNCHANGED <<call, ledger, spent, version, fee, estimated, todo, sel,
                   cands, tx, received, accepted, misread, faults, retries, vars>>

\* An attempt ends in an error: version -1 goes on with version 2.
FallBackOrFail ==
    /\ IF CallVersion = -1 /\ version = 1
       THEN stage' = "query" /\ version' = 2 /\ todo' = Todo(2)
       ELSE stage' = "error" /\ UNCHANGED <<version, todo>>
    /\ sel' = NoSel
    /\ UNCHANGED <<call, ledger, spent, fee, estimated, cands, tx, received,
                   accepted, misread, retries>>

RPCFails == faults < MaxFaults /\ faults' = faults + 1

-----------------------------------------------------------------------------
(* initParamsV1, initParamsV2                                              *)

asset == Head(todo)
Given == IF asset = PRV THEN call.prvIn ELSE call.tokIn

\* Provided coins are taken only if they are of the version being built.
UsesGiven ==
    call.withCoins /\ GetVersionFromInputCoins(Given.coins) = version

converting == \/ call.route = "convert"
              \/ call.route = "tokenConvert" /\ asset # PRV

\* The inputs prepared, with those of the asset at hand.
WithInputs(ins) ==
    [a \in DOMAIN sel \cup {asset} |-> IF a = asset THEN ins ELSE sel[a]]

\* What the asset's inputs must cover; the sum is a uint64.
TokenFee == IF call.tok.fee = 0 THEN TokenFeePerKb ELSE call.tok.fee

\* Mutant of Required: the fee is left out.
FeeForgotten == IF asset = PRV THEN Wrap(Values(call.pays))
                ELSE Wrap(Values(call.tok.pays))

Required ==
    IF asset = PRV THEN Wrap(fee + Values(call.pays))
    ELSE Wrap(Values(call.tok.pays)
              + IF version = 1 /\ HasTokenFee THEN TokenFee ELSE 0)

UseGivenCoins ==
    /\ stage = "query" /\ ~converting /\ UsesGiven
    /\ sel' = WithInputs([coins |-> Given.coins, mine |-> Given.idx,
                          decoys |-> <<>>])
    /\ stage' = "decoys"
    /\ UNCHANGED <<call, ledger, spent, version, fee, estimated, todo, cands,
                   tx, received, accepted, misread, faults, retries, vars>>

QueryCoins ==
    /\ stage = "query" /\ ~converting /\ ~UsesGiven
    /\ \E utxos \in {GetUnspentOutputCoins(ledger[asset], spent)} :
       \E list \in DivideCoins(utxos, version) :
          /\ cands' = list
          /\ coinList' = [k \in DOMAIN list |-> list[k].coin.val]
    /\ requiredAmount' = Required /\ pc' = "sum" /\ i' = 0
    /\ totalInputAmount' = 0 /\ remainAmount' = 0 /\ totalChosenAmount' = 0
    /\ chosen' = <<>> /\ prefix' = <<0>>
    /\ stage' = "choose"
    /\ UNCHANGED <<call, ledger, spent, version, fee, estimated, todo, sel,
                   tx, received, accepted, misread, faults, retries>>

QueryFails ==
    /\ stage = "query"
    /\ RPCFails
    /\ FallBackOrFail
    /\ UNCHANGED vars

\* A step of chooseBestCoinsByAmount.
Choose == stage = "choose" /\ Next /\ pc \notin {"done", "insufficient",
                                                "notEnough"}
          /\ UNCHANGED callVars

CoinsChosen ==
    /\ stage = "choose" /\ pc = "done"
    /\ sel' = WithInputs(
          [coins |-> [k \in DOMAIN chosen |-> cands[chosen[k]].coin],
           mine  |-> [k \in DOMAIN chosen |-> cands[chosen[k]].idx],
           decoys |-> <<>>])
    /\ stage' = "decoys"
    /\ UNCHANGED <<call, ledger, spent, version, fee, estimated, todo, cands,
                   tx, received, accepted, misread, faults, retries, vars>>

NotEnoughCoins ==
    /\ stage = "choose" /\ pc \in {"insufficient", "notEnough"}
    /\ FallBackOrFail
    /\ UNCHANGED <<faults, vars>>

-----------------------------------------------------------------------------
(* Decoys; the inscription fee is estimated from the first selection       *)

privacy == ~hasMetadata

\* getRandomCommitmentV1 is called for PRV only with privacy, for tokens
\* always; getRandomCommitmentV2 always.
NeedsDecoys == version = 2 \/ privacy \/ asset # PRV

\* One ring row per input less the own one; indices no own coin has.
Decoys(n) == [k \in 1..(n * (RingSize - 1)) |-> MaxOwnIndex + k]

EstimatedFee ==
    LET size == EstimateTxSizeV2(Len(sel[PRV].coins), Len(call.pays), 0)
        est  == (size \div 1024) * InscMinFeePerKB
    IN  IF est < InscMinFeePerTx THEN InscMinFeePerTx ELSE est

GetDecoys ==
    LET n == Len(sel[asset].coins)
    IN  /\ stage = "decoys"
        /\ NeedsDecoys => n > 0
        /\ IF version = 2 /\ call.md.type = "inscribe" /\ ~estimated
           THEN /\ fee' = EstimatedFee /\ estimated' = TRUE
                /\ sel' = NoSel /\ stage' = "query" /\ UNCHANGED todo
           ELSE /\ sel' = [sel EXCEPT ![asset].decoys =
                              IF NeedsDecoys THEN Decoys(n) ELSE <<>>]
                /\ todo' = Tail(todo)
                /\ stage' = IF Tail(todo) = <<>> THEN "init" ELSE "query"
                /\ UNCHANGED <<fee, estimated>>
        /\ UNCHANGED <<call, ledger, spent, version, cands, tx, received,
                       accepted, misread, faults, retries, vars>>

\* "no input coin to retrieve random commitments", or the RPC fails.
GetDecoysFails ==
    /\ stage = "decoys" /\ NeedsDecoys
    /\ \/ Len(sel[asset].coins) = 0 /\ UNCHANGED faults
       \/ RPCFails
    /\ FallBackOrFail
    /\ UNCHANGED vars

-----------------------------------------------------------------------------
(* Conversion: every version 1 coin of the asset                           *)

ConvertedCoins(list) == IF call.withCoins THEN call.tokIn.coins ELSE list

Convertible(coins) ==
    asset = PRV => coins # <<>> /\ Wrap(Values(coins)) >= DefaultPRVFee

QueryForConversion ==
    LET v1 == OfVersion(GetUnspentOutputCoins(ledger[asset], spent), 1)
        coins == ConvertedCoins([k \in DOMAIN v1 |-> v1[k].coin])
    IN  /\ stage = "query" /\ converting
        /\ IF Convertible(coins)
           THEN /\ sel' = WithInputs([coins |-> coins, mine |-> <<>>,
                                      decoys |-> <<>>])
                /\ todo' = <<>> /\ stage' = "init"
                /\ UNCHANGED <<call, ledger, spent, version, fee, estimated,
                               cands, tx, received, accepted, misread, retries>>
           ELSE FallBackOrFail
        /\ UNCHANGED <<faults, vars>>

-----------------------------------------------------------------------------
(* tx.Init                                                                 *)

Inputs(a) == IF a \in DOMAIN sel THEN sel[a]
             ELSE [coins |-> <<>>, mine |-> <<>>, decoys |-> <<>>]

Params(a, pays, paid, private, md, kind) ==
    [asset |-> a, ins |-> Inputs(a).coins, pays |-> pays, fee |-> paid,
     privacy |-> private, md |-> md, mine |-> Inputs(a).mine,
     decoys |-> Inputs(a).decoys, kind |-> kind,
     amount |-> Wrap(Values(pays) + paid)]

PRVParams ==
    Params(PRV, call.pays, IF version = 1 /\ HasTokenFee THEN 0 ELSE fee,
           privacy \/ (version = 2 /\ isToken), call.md, "prv")

TokenParams ==
    Params(call.tok.asset, call.tok.pays,
           IF version = 1 /\ HasTokenFee THEN TokenFee ELSE 0,
           privacy \/ version = 2, NoMetadata, call.tok.kind)

Plain(t) == IF Failed(t) THEN NoTx ELSE Whole(t, NoData)
ToSelf(amount) == <<[to |-> Sender, val |-> amount]>>

CreateVer1 == Plain(InitVer1(PRVParams))
CreateVer2(pi) == Plain(InitVer2(PRVParams, pi))
CreateTokenVer1 == InitTokenVer1(PRVParams, TokenParams)
CreateTokenVer2(pi) == InitTokenVer2(PRVParams, TokenParams, pi)

\* All the coins less the fee, or all the coins, to the sender.
CreateConversion ==
    Plain(InitConversion([PRVParams EXCEPT
              !.pays = ToSelf(Wrap(Values(PRVParams.ins) - fee))]))
CreateTokenConversion(pi) ==
    InitTokenConversion(PRVParams,
        [TokenParams EXCEPT !.pays = ToSelf(Wrap(Values(TokenParams.ins)))], pi)

BuildTx(pi) ==
    CASE call.route = "prv" /\ version = 1   -> CreateVer1
      [] call.route = "prv" /\ version = 2   -> CreateVer2(pi)
      [] call.route = "token" /\ version = 1 -> CreateTokenVer1
      [] call.route = "token" /\ version = 2 -> CreateTokenVer2(pi)
      [] call.route = "convert"              -> CreateConversion
      [] call.route = "tokenConvert"         -> CreateTokenConversion(pi)

InitTx ==
    /\ stage = "init"
    /\ \E pi \in 1..RingSize :
          IF Failed(BuildTx(pi))
          THEN FallBackOrFail
          ELSE /\ tx' = BuildTx(pi) /\ stage' = "send"
               /\ UNCHANGED <<call, ledger, spent, version, fee, estimated,
                              todo, sel, cands, received, accepted, misread, retries>>
    /\ UNCHANGED <<faults, vars>>

-----------------------------------------------------------------------------
(* SendRawTx, SendRawTokenTx, and the node                                 *)

RingNames(t) == t.ring.pi > 0 => t.ring.rows[t.ring.pi] = IndexesOf(t.ins)

\* The node accepts a transaction sent by the RPC of its kind, whose inputs
\* are unspent, whose rings refer to the coins they were made with and whose
\* one-time addresses are new (external).
NodeAccepts(t) ==
    /\ HasData(t) <=> call.send = "token"
    /\ ToSet(ListSerialNumbers(t)) \cap spent = {}
    /\ \A n \in DOMAIN Parts(t) : RingNames(Parts(t)[n])
    /\ LET otas == FlattenSeq([n \in DOMAIN Parts(t) |-> ListOTA(Parts(t)[n])])
       IN  \A k, m \in DOMAIN otas : k # m => otas[k] # otas[m]

Reaches(t) ==
    /\ received' = Append(received, t)
    /\ IF NodeAccepts(t)
       THEN /\ accepted' = accepted + 1
            /\ spent' = spent \cup ToSet(ListSerialNumbers(t))
       ELSE UNCHANGED <<accepted, spent>>

Send ==
    /\ stage = "send"
    /\ Reaches(tx)
    /\ stage' = IF NodeAccepts(tx) THEN "ok" ELSE "error"
    /\ UNCHANGED <<call, ledger, version, fee, estimated, todo, sel, cands,
                   tx, misread, faults, retries, vars>>

\* Mutant of SendError: the error of the connection is returned.
ReturnsError == "error"

\* "if err != nil { return nil }": the call reports success.
SendError == "ok"

\* The connection fails before the request arrives, or before its answer.
SendFails ==
    /\ stage = "send"
    /\ RPCFails
    /\ \/ UNCHANGED <<received, accepted, spent>>
       \/ Reaches(tx)
    /\ stage' = SendError
    /\ UNCHANGED <<call, ledger, version, fee, estimated, todo, sel, cands,
                   tx, misread, retries, vars>>

\* ParseResponse cannot read the answer: it is empty, or no JSON.  That is
\* returned as an error, whatever the node has done with the transaction.
AnswerUnreadable ==
    /\ stage = "send"
    /\ RPCFails
    /\ \/ UNCHANGED <<received, accepted, misread, spent>>
       \/ /\ Reaches(tx)
          /\ misread' = IF NodeAccepts(tx) THEN misread + 1 ELSE misread
    /\ stage' = "error"
    /\ UNCHANGED <<call, ledger, version, fee, estimated, todo, sel, cands,
                   tx, retries, vars>>

CallAgain ==
    /\ stage = "error" /\ retries < MaxRetries
    /\ retries' = retries + 1 /\ stage' = "start" /\ tx' = NoTx
    /\ UNCHANGED <<call, ledger, spent, version, fee, estimated, todo, sel,
                   cands, received, accepted, misread, faults, vars>>

CallReturned == stage \in {"ok", "error"} /\ UNCHANGED txVars

TxNext == \/ StartCall \/ RefuseCall
          \/ UseGivenCoins \/ QueryCoins \/ QueryFails \/ QueryForConversion
          \/ Choose \/ CoinsChosen \/ NotEnoughCoins
          \/ GetDecoys \/ GetDecoysFails
          \/ InitTx \/ Send \/ SendFails \/ AnswerUnreadable
          \/ CallAgain \/ CallReturned

TxSpec == TxInit /\ [][TxNext]_txVars

-----------------------------------------------------------------------------
(* Properties                                                              *)

Built == stage \in {"send", "ok"} /\ ~Failed(tx)
Decrypts(a) == \A c \in ToSet(ledger[a]) : c.ok

CellsDiffer(rows) ==
    \A r1, r2 \in DOMAIN rows : \A k1 \in DOMAIN rows[r1] :
        \A k2 \in DOMAIN rows[r2] :
            <<r1, k1>> # <<r2, k2>> => rows[r1][k1] # rows[r2][k2]

\* Every ring holds the coins spent, coin by coin, in its secret row, and no
\* coin twice.  The index list goes through the filter of the query,
\* divideCoins' sort and the selection (coin.go:186, getListIdx); the decoys
\* are taken with one position in their list (generateMlsagRing).  For every
\* account whose coins all decrypt.
RingsAreSound ==
    Built => \A n \in DOMAIN Parts(tx) :
        LET t == Parts(tx)[n]
            a == IF n = 1 THEN PRV ELSE call.tok.asset
        IN  (t.ring.pi > 0 /\ Decrypts(a)) =>
                RingNames(t) /\ CellsDiffer(t.ring.rows)

\* A transaction read back from its JSON is the one that was sent, and every
\* signature verifies on it: each part is parsed with the type of proof it was
\* made with, nothing a hash covers (type, lock time, metadata signature,
\* token part) is assigned after signing, and the token part is signed as a
\* reader rebuilds it from the PRV part (TxToken.UnmarshalJSON, makeTxToken).
SignaturesReadBack ==
    Built =>
        LET r == DeserializeTransactionJSON(MarshalJSON(tx))
        IN  /\ ~Failed(r) /\ r.base = tx.base
            /\ HasData(tx) <=> HasData(r)
            /\ HasData(tx) => r.data.id = tx.data.id
            /\ IF r.base.ver = 1
               THEN \A n \in DOMAIN Parts(r) :
                        Parts(r)[n].sig = HashVer1(Parts(r)[n])
               ELSE /\ r.base.sig = IF HasData(r)
                                    THEN <<HashVer2(r.base), TokenDataHash(r.data)>>
                                    ELSE HashVer2(r.base)
                    /\ HasData(r) => r.data.sub.sig = HashVer2(r.data.sub)
                    /\ r.base.mdSig # <<>> =>
                          r.base.mdSig = HashWithoutMetadataSig(r.base)

\* Amounts whose sums fit into a uint64.
NoWrap == Values(call.pays) + fee < Modulus
          /\ (isToken => Values(call.tok.pays) + call.tok.fee < Modulus)

\* Amounts whose sums fit into an int64.
Fits(ins, pays, paid) ==
    Values(ins) < Modulus \div 2 /\ Values(pays) + paid < Modulus \div 2
AmountsFit == Fits(tx.base.ins, call.pays, fee)
              /\ (isToken => Fits(tx.data.sub.ins, call.tok.pays, TokenFee))

\* A transaction creates and destroys no value: its inputs are its outputs
\* and the fee, in PRV and in the token.  Version 2 transfers guarantee it
\* whatever the amounts (createPrivateKeyMlsag and createPrivateKeyMlsagCA
\* recompute the sums of the commitments); version 1 and conversions have no
\* such check.  They rely on sums that neither wrap nor change their sign when
\* overBalance is read as an int64.
ValueConserved ==
    (Built /\ (AmountsFit \/ (tx.base.ver # 1 /\ call.route \in {"prv", "token"}))) =>
        /\ Values(tx.base.ins) = Values(tx.base.outs) + tx.base.fee
        /\ HasData(tx) /\ tx.data.kind # "init" =>
              Values(tx.data.sub.ins) = Values(tx.data.sub.outs)
                                        + tx.data.sub.fee

Pays(outs, pays) ==
    /\ Len(outs) >= Len(pays) /\ Len(outs) <= Len(pays) + 1
    /\ \A k \in DOMAIN pays : outs[k].to = pays[k].to /\ outs[k].val = pays[k].val
    /\ Len(outs) > Len(pays) =>
          Last(outs).to = Sender /\ Last(outs).val > 0

\* The outputs are the payments asked for, in their order, and at most one
\* more, to the sender; also when version 1 was tried first and failed after
\* it had worked on the same parameters.
PaymentsKept ==
    Built =>
        /\ call.route # "convert" => Pays(tx.base.outs, call.pays)
        /\ call.route = "token" => Pays(tx.data.sub.outs, call.tok.pays)
        /\ call.route \in {"convert", "tokenConvert"} =>
              \A c \in ToSet(tx.base.outs) : c.to = Sender

Declared(a) == IF a \in DOMAIN call.md.burns THEN call.md.burns[a] ELSE 0
BurnFound(a) ==
    LET found == GetTxFullBurnData(tx)
    IN  CASE a = PRV      -> found.prv
          [] a # PRV /\ a = found.id -> found.token
          [] OTHER        -> 0

\* What a node finds burned in a request (the first output to the burning
\* address of each part, the token under the ID the transaction shows) is
\* what its metadata declares, asset by asset, and every asset burned has a
\* receiver in the metadata that a refund can be minted to.  As long as the
\* sum of amount and trading fee fits into a uint64: nothing checks that.
BurnsAsDeclared ==
    (/\ Built /\ hasMetadata
     /\ \A a \in DOMAIN call.md.burns : call.md.burns[a] < Modulus) =>
        \A a \in DOMAIN ledger :
            /\ BurnFound(a) = Declared(a)
            /\ BurnFound(a) > 0 => a \in call.md.receivers

V2(coins) == Kept(coins, {k \in DOMAIN coins : coins[k].ver = 2})
CoinsOf(pairs) == {e.coin : e \in ToSet(pairs)}

\* Spent and unspent coins of an asset partition those worth anything, the
\* cache gives the coins the node gives, and each comes with its index; a
\* version 1 coin has none when the cache is asked.
AssetQueriesAgree(a) ==
    LET out     == ledger[a]
        unspent == GetUnspentOutputCoins(out, spent)
        cached  == GetUnspentOutputCoinsFromCache(V2(out), out, spent)
        known   == {c \in ToSet(GetListDecryptedCoins(out)) : c.val # 0}
    IN  /\ CoinsOf(unspent) = {c \in known : c.id \notin spent}
        /\ CoinsOf(GetSpentOutputCoins(out, spent)) = known \ CoinsOf(unspent)
        /\ {c.id : c \in CoinsOf(cached)} = {c.id : c \in CoinsOf(unspent)}
        /\ Decrypts(a) =>
              /\ \A e \in ToSet(unspent) : e.idx = e.coin.idx
              /\ \A e \in ToSet(cached) :
                    e.idx = IF e.coin.ver = 1 THEN -1 ELSE e.coin.idx

\* What the node lists under the umbrella asset: the version 2 coins of every
\* token, one token after the other.
UmbrellaCoins ==
    FlattenSeq(SetToSeq({V2(ledger[a]) : a \in DOMAIN ledger \ {PRV}}))

\* Asking for all assets at once gives each token the version 2 coins of its
\* own query, in their order, and PRV the coins of both versions.
UmbrellaAgrees ==
    LET all == GetAllUTXOsV2(ledger[PRV], UmbrellaCoins, spent, DOMAIN ledger)
        own(a) == GetUnspentOutputCoins(ledger[a], spent)
    IN  \A a \in DOMAIN ledger :
           (IF a \in DOMAIN all THEN all[a] ELSE <<>>)
              = IF a = PRV THEN own(a) ELSE OfVersion(own(a), 2)

\* The three unspent-coin queries and the spent-coin query agree on every
\* reachable ledger: spent and unspent coins partition the coins that are
\* worth anything, batched and unbatched checks give the same answer, and the
\* cache and the umbrella asset give the coins the node gives, with their
\* indices.
QueriesAgree ==
    stage \in {"start", "ok"} =>
    /\ \A a \in DOMAIN ledger : AssetQueriesAgree(a)
    /\ (\A a \in DOMAIN ledger : Decrypts(a)) => UmbrellaAgrees

\* What the coins at hand cover, for the version being tried.
Covers(a, v, amount) ==
    Values([k \in DOMAIN OfVersion(GetUnspentOutputCoins(ledger[a], {}), v) |->
               OfVersion(GetUnspentOutputCoins(ledger[a], {}), v)[k].coin])
        >= amount

Affordable(v) ==
    \A a \in ToSet(Todo(v)) :
        Covers(a, v, IF a = PRV THEN StartFee(v) + Values(call.pays)
                     ELSE Values(call.tok.pays)
                          + IF v = 1 /\ HasTokenFee THEN TokenFee ELSE 0)

\* A transfer or request of an account that can pay for it (in coins of one
\* version the call may use) is built and accepted, if no RPC fails: the
\* choice of coins, the ring parameters, the change and the checks of the
\* transaction layer never get in each other's way.  Provided coins, a fee
\* that is estimated again, conversions and coins that do not decrypt apart.
AffordableIsBuilt ==
    (/\ stage = "error" /\ faults = 0 /\ retries = 0 /\ Accepts
     /\ call.route \in {"prv", "token"} /\ ~call.withCoins /\ NoWrap
     /\ call.md.type # "inscribe"
     /\ isToken => Values(call.tok.pays) > 0
     /\ \A a \in DOMAIN ledger : Decrypts(a)
     /\ ~(isToken /\ call.tok.hasFee /\ CallVersion = 2))
    => \A v \in IF CallVersion = -1 THEN {1, 2} ELSE {CallVersion} :
           ~Affordable(v)

\* An error, of any RPC of the call, may be answered with another call: the
\* payment is made again only after the answer to an accepted submission could
\* not be read (SendRawTx returns ParseResponse's error, tx.go:254).  A
\* connection that fails at any point of any RPC never causes it.
NoDoublePay == accepted <= 1 + misread

Paid(a, others) ==
    Values(OfAsset(FlattenSeq([n \in DOMAIN Parts(tx) |->
        SelectSeq(Parts(tx)[n].outs, LAMBDA c : c.to \in others)]), a))
Held(a) == {c \in ToSet(ledger[a]) : c.val # 0}

\* The history of an accepted transaction adds up, in PRV and in a token
\* whose ID the transaction shows: what left the sender is what the others
\* (and the burning address) were paid, the change is no income, and the
\* receiver's history and GetReceivingInfo show what it was paid.  A token
\* under the umbrella ID is found by its receiver only: for its sender
\* getListKeyImagesFromTx compares the wrong ID and the amount wraps.
HistoryAddsUp ==
    (stage = "ok" /\ accepted = 1 /\ received = <<tx>> /\ NoWrap) =>
    \A a \in {PRV} \cup (IF isToken /\ tx.data.kind # "init"
                          THEN {call.tok.asset} ELSE {}) :
        /\ (a = PRV \/ a = GetTokenID(tx)) =>
              LET out == GetListTxsOut(<<tx>>, a, Sender, Held(a))
              IN  /\ Values(out) = Paid(a, {"bob", Burning})
                  /\ \A k \in DOMAIN out : out[k].fee = tx.base.fee
                                             + GetTxFeeToken(tx)
                  /\ GetListTxsIn(<<tx>>, a, Sender, Held(a)) = <<>>
        /\ Values(GetListTxsIn(<<tx>>, a, "bob", {})) = Paid(a, {"bob"})
        /\ LET info == GetReceivingInfo(tx, "bob")
           IN  (IF a \in DOMAIN info THEN info[a] ELSE 0) = Paid(a, {"bob"})

\* CreateAndSendRawTransaction "submits it to the Incognito network. It
\* returns the transaction's hash, and an error (if any)" (tx.go:188): when
\* the call reports no error the node has received the transaction.
SubmittedWhenReported == stage = "ok" => tx \in ToSet(received)
=============================================================================
