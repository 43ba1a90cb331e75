---------------------------- MODULE BatchRounds ----------------------------
(***************************************************************************)
(* Consolidation and conversion of an account's UTXOs in rounds of         *)
(* concurrent transactions: ConsolidatePRVs, ConsolidateTokenV1s,          *)
(* ConsolidateTokenV2s (incclient/tx_consolidate.go), convertAllPRVs and   *)
(* convertAllTokens (tx_convert_enhanced.go) with their worker goroutines, *)
(* splitPRVForFees and waitingCheckTxInBlock (tx_consolidate_utils.go).    *)
(*                                                                         *)
(* The five functions share one loop: list the UTXOs, start a worker for   *)
(* each batch, count the workers' reports, list again.  kind selects what  *)
(* differs.  Reports go over unbuffered channels: a report is one step of  *)
(* the worker and the main goroutine together.  The full node is external: *)
(* it lists the unspent coins in any order, and may mine a transaction     *)
(* late or never.                                                          *)
(***************************************************************************)
EXTENDS Integers, Sequences, FiniteSets, FiniteSetsExt

CONSTANTS Kinds,         \* the functions that may be called
          Counts,        \* kind -> numbers of UTXOs the account may have at the start
          Values,        \* kind -> what a UTXO may be worth
          Fee,           \* DefaultPRVFee, or the token fee of TokenV1
          MaxInputSize,
          NumThreads,
          MaxUTXOs,      \* maxUTXOsAfterConsolidated
          MaxFaults,     \* kind -> bound on failures of the node and on slow transactions
          TimerKinds     \* the functions in which the 30-minute timer may fire

ASSUME RoundsAssumption ==
    /\ Kinds \subseteq {"PRV", "TokenV1", "TokenV2", "ConvertPRV", "ConvertToken"}
    /\ Counts \in [Kinds -> SUBSET Nat] /\ Values \in [Kinds -> SUBSET Nat]
    /\ Fee \in Nat \ {0}
    /\ MaxInputSize \in Nat \ {0} /\ NumThreads \in Nat \ {0} /\ MaxUTXOs \in Nat
    /\ MaxFaults \in [Kinds -> Nat] /\ TimerKinds \subseteq Kinds

VARIABLES kind,       \* which of the functions this is a call of
          coins,      \* ids of the account's unspent coins of the version asked for
          value,      \* [ids given to such coins so far -> their values]
          nextId,     \* the id of the next coin
          prv,        \* PRV coins worth at least the fee
          mempool,    \* workers whose transaction the node has taken
          mined,      \* workers whose transaction is in a block
          pc,
          rest,       \* coins of utxoList not handed to a worker yet
          feeList,    \* coins of prvUTXOList not handed to a worker yet
          workers,    \* all goroutines started, oldest first
          first,      \* position of the first worker of the round
          numDone, numErr,
          timeOut,    \* the timer: "set" or "fired"
          txList,
          outcome,    \* how the call returned
          faults

vars == <<kind, coins, value, nextId, prv, mempool, mined, pc, rest, feeList, workers, first,
          numDone, numErr, timeOut, txList, outcome, faults>>
chainVars == <<coins, value, nextId, prv, mempool, mined>>
mainVars == <<kind, pc, rest, feeList, first, numDone, numErr, timeOut, txList, outcome>>

Converts == kind \in {"ConvertPRV", "ConvertToken"}
FeeInPRV == kind \in {"TokenV2", "ConvertToken"}

numWORKERS == Len(workers) - first + 1
Round == first .. Len(workers)

\* Mutant of Threshold: the loop goes on also for an empty list.
NoThreshold == -1

\* The loops run while there are more UTXOs than this.
Threshold == IF Converts THEN 0 ELSE MaxUTXOs
Total(ids) == MapThenSumSet(LAMBDA id : value[id], ids)

Init ==
    /\ kind \in Kinds
    /\ \E n \in Counts[kind] : /\ coins = 1..n
                               /\ value \in [1..n -> Values[kind]]
                               /\ nextId = n + 1
    /\ prv \in IF FeeInPRV THEN {{}, {0}} ELSE {{}}
    /\ mempool = {} /\ mined = {}
    /\ pc = "start"
    /\ rest = {} /\ feeList = {}
    /\ workers = <<>> /\ first = 1
    /\ numDone = 0 /\ numErr = 0
    /\ timeOut = "set"
    /\ txList = <<>>
    /\ outcome = "none"
    /\ faults = 0

Fault == /\ faults < MaxFaults[kind]
         /\ faults' = faults + 1

Return(how) == /\ pc' = "returned"
               /\ outcome' = how

-----------------------------------------------------------------------------
(* The main goroutine.                                                     *)

\* The first listing decides whether there is anything to do in rounds.
StartConsolidating ==
    /\ pc = "start"
    /\ ~Converts
    /\ \/ Cardinality(coins) <= MaxUTXOs /\ Return("ok")
       \/ Cardinality(coins) > MaxUTXOs /\ pc' = "list" /\ UNCHANGED outcome
    /\ UNCHANGED <<kind, chainVars, rest, feeList, workers, first, numDone, numErr,
                   timeOut, txList, faults>>

StartConverting ==
    /\ pc = "start"
    /\ Converts
    /\ \/ coins = {} /\ Return("nothing")
       \/ Cardinality(coins) > MaxInputSize /\ pc' = "list" /\ UNCHANGED outcome
    /\ UNCHANGED <<kind, chainVars, rest, feeList, workers, first, numDone, numErr,
                   timeOut, txList, faults>>

\* Few UTXOs are converted by one transaction without workers.
ConvertDirectly ==
    /\ pc = "start"
    /\ Converts
    /\ Cardinality(coins) \in 1..MaxInputSize
    /\ \/ /\ kind = "ConvertPRV" /\ Total(coins) < Fee
          /\ Return("nothing")
          /\ UNCHANGED <<coins, txList, faults>>
       \/ /\ kind = "ConvertPRV" => Total(coins) >= Fee
          /\ coins' = {}
          /\ txList' = <<0>>
          /\ Return("ok")
          /\ UNCHANGED faults
       \/ /\ Fault
          /\ Return("error")
          /\ UNCHANGED <<coins, txList>>
    /\ UNCHANGED <<kind, value, nextId, prv, mempool, mined, rest, feeList, workers,
                   first, numDone, numErr, timeOut>>

\* The loop condition on a fresh listing, and the start of a round.
List ==
    /\ pc = "list"
    /\ \/ /\ Cardinality(coins) <= Threshold
          /\ Return("ok")
          /\ UNCHANGED <<rest, first, numDone, numErr>>
       \/ /\ Cardinality(coins) > Threshold
          /\ pc' = IF FeeInPRV THEN "split" ELSE "launch"
          /\ rest' = coins
          /\ first' = Len(workers) + 1
          /\ numDone' = 0 /\ numErr' = 0
          /\ UNCHANGED outcome
    /\ UNCHANGED <<kind, chainVars, feeList, workers, timeOut, txList, faults>>

\* getUTXOsListByVersion, CreateAndSendRawTransaction or the wait for the
\* splitting transaction fails.
ListOrSplitFails ==
    /\ pc \in {"start", "list", "split", "listPRV"}
    /\ Fault
    /\ Return("error")
    /\ UNCHANGED <<kind, chainVars, rest, feeList, workers, first, numDone, numErr,
                   timeOut, txList>>

\* What is left of a PRV coin may be worth a fee again.
Change(id) == {{}, {id}}

\* Mutant of EnoughFeeCoins: one coin too few.
AlmostEnoughFeeCoins == Cardinality(prv) >= NumThreads - 1

EnoughFeeCoins == Cardinality(prv) >= NumThreads

\* splitPRVForFees: with fewer than NumThreads usable PRV coins, a transaction
\* makes NumThreads new ones out of some of the others; it is waited for.
SplitPRVForFees ==
    /\ pc = "split"
    /\ \/ /\ EnoughFeeCoins
          /\ UNCHANGED <<prv, nextId, txList>>
       \/ /\ ~EnoughFeeCoins
          /\ \E kept \in SUBSET prv, change \in Change(nextId + NumThreads) :
                prv' = kept \cup change \cup nextId .. nextId + NumThreads - 1
          /\ nextId' = nextId + NumThreads + 1
          /\ txList' = Append(txList, 0)
    /\ pc' = "listPRV"
    /\ UNCHANGED <<kind, coins, value, mempool, mined, rest, feeList, workers, first,
                   numDone, numErr, timeOut, outcome, faults>>

\* An account whose PRV, small coins included, does not cover NumThreads + 1
\* fees is refused.
TooLittlePRV ==
    /\ pc = "split"
    /\ Cardinality(prv) <= NumThreads
    /\ Return("error")
    /\ UNCHANGED <<kind, chainVars, rest, feeList, workers, first, numDone, numErr,
                   timeOut, txList, faults>>

\* The PRV coins are listed a second time.
ListPRV ==
    /\ pc = "listPRV"
    /\ feeList' = prv
    /\ pc' = "launch"
    /\ UNCHANGED <<kind, chainVars, rest, workers, first, numDone, numErr, timeOut,
                   txList, outcome, faults>>

NewWorker(batch, feeCoin) ==
    [at |-> "start", ins |-> batch, amount |-> Total(batch), fee |-> feeCoin]

\* Mutant of After: current is not advanced.
NotAdvanced(batch) == rest

\* What is left of utxoList behind the batch.
After(batch) == rest \ batch

\* The next k coins of a list.  Coins are numbered in the order of the first
\* listing; later listings come in any order.
NextOf(list, k) ==
    {batch \in kSubset(k, list) :
        first = 1 => \A c \in batch, d \in list \ batch : c < d}

\* go consolidate...(batch): the next MaxInputSize coins of the list.
Launch ==
    LET size == IF Cardinality(rest) < MaxInputSize THEN Cardinality(rest)
                ELSE MaxInputSize
    IN  /\ pc = "launch"
        /\ numWORKERS < NumThreads
        /\ size >= 2
        /\ \E batch \in NextOf(rest, size) :
              \/ /\ ~FeeInPRV
                 /\ workers' = Append(workers, NewWorker(batch, {}))
                 /\ rest' = After(batch)
                 /\ UNCHANGED feeList
              \/ /\ FeeInPRV
                 /\ \E feeCoin \in NextOf(feeList, 1) :
                       /\ workers' = Append(workers, NewWorker(batch, feeCoin))
                       /\ feeList' = feeList \ feeCoin
                 /\ rest' = After(batch)
        /\ UNCHANGED <<kind, chainVars, pc, first, numDone, numErr, timeOut, txList,
                       outcome, faults>>

NoFeeCoin ==
    /\ pc = "launch"
    /\ FeeInPRV
    /\ numWORKERS < NumThreads
    /\ Cardinality(rest) >= 2
    /\ feeList = {}
    /\ Return("noFeeCoin")
    /\ UNCHANGED <<kind, chainVars, rest, feeList, workers, first, numDone, numErr,
                   timeOut, txList, faults>>

\* A batch of fewer than two coins ends the loop, as does the thread limit.
AllLaunched ==
    /\ pc = "launch"
    /\ \/ numWORKERS >= NumThreads
       \/ Cardinality(rest) < 2
    /\ pc' = "collect"
    /\ UNCHANGED <<kind, chainVars, rest, feeList, workers, first, numDone, numErr,
                   timeOut, txList, outcome, faults>>

-----------------------------------------------------------------------------

SetWorker(w, label) == workers' = [workers EXCEPT ![w].at = label]

Reporting == {w \in DOMAIN workers : workers[w].at \in {"done", "err", "feeErr"}}

\* txDoneCh and errCh; a worker of an earlier round may be the sender.
ReceiveDone(w) ==
    /\ pc = "collect"
    /\ workers[w].at = "done"
    /\ numDone' = numDone + 1
    /\ txList' = Append(txList, w)
    /\ SetWorker(w, "end")
    /\ UNCHANGED <<kind, chainVars, pc, rest, feeList, first, numErr, timeOut, outcome, faults>>

\* Mutant of ReceiveErr: the error is not counted.
IgnoreErr(w) ==
    /\ pc = "collect"
    /\ workers[w].at \in {"err", "feeErr"}
    /\ SetWorker(w, IF workers[w].at = "err" THEN "end" ELSE "free")
    /\ UNCHANGED <<chainVars, mainVars, faults>>

ReceiveErr(w) ==
    /\ pc = "collect"
    /\ workers[w].at \in {"err", "feeErr"}
    /\ numErr' = numErr + 1
    /\ SetWorker(w, IF workers[w].at = "err" THEN "end" ELSE "free")
    /\ UNCHANGED <<kind, chainVars, pc, rest, feeList, first, numDone, timeOut, txList,
                   outcome, faults>>

TimerExpires ==
    /\ kind \in TimerKinds
    /\ timeOut = "set"
    /\ pc \notin {"start", "returned"}
    /\ timeOut' = "fired"
    /\ UNCHANGED <<kind, chainVars, pc, rest, feeList, workers, first, numDone, numErr,
                   txList, outcome, faults>>

ReceiveTimeOut ==
    /\ pc = "collect"
    /\ timeOut = "fired"
    /\ Return("time-out")
    /\ UNCHANGED <<kind, chainVars, rest, feeList, workers, first, numDone, numErr,
                   timeOut, txList, faults>>

\* Mutant of AllReported: one report is not waited for.
AllButOneReported == numDone + numErr >= numWORKERS - 1

AllReported == numDone + numErr = numWORKERS

\* The default case of the select: no channel is ready.
Settle ==
    /\ pc = "collect"
    /\ Reporting = {}
    /\ timeOut = "set"
    /\ \/ /\ numDone = numWORKERS
          /\ pc' = "list" /\ UNCHANGED outcome
       \/ /\ numDone # numWORKERS /\ numErr = numWORKERS
          /\ Return("allFailed")
       \/ /\ numDone # numWORKERS /\ numErr # numWORKERS
          /\ AllReported
          /\ pc' = "list" /\ UNCHANGED outcome
    /\ UNCHANGED <<kind, chainVars, rest, feeList, workers, first, numDone, numErr,
                   timeOut, txList, faults>>

\* The default case with reports still to come, or with more than expected.
Spin ==
    /\ pc = "collect"
    /\ Reporting = {}
    /\ timeOut = "set"
    /\ numDone # numWORKERS /\ numErr # numWORKERS /\ ~AllReported
    /\ UNCHANGED vars

-----------------------------------------------------------------------------
(* The workers.                                                            *)

\* What a worker takes off its batch for the fee, and whether it can.
FeeTaken == IF FeeInPRV THEN 0 ELSE Fee

\* Mutant of Affords: the amount is not compared with the fee.
AlwaysAffords(w) == TRUE

Affords(w) == FeeInPRV \/ workers[w].amount > FeeTaken

TooPoor(w) ==
    /\ workers[w].at = "start"
    /\ ~Affords(w)
    /\ SetWorker(w, "err")
    /\ UNCHANGED <<chainVars, mainVars, faults>>

\* consolidateTokenV1s: GetTokenFee fails; the worker reports that and goes
\* on, with a fee of zero.
TokenFeeFails(w) ==
    /\ kind = "TokenV1"
    /\ workers[w].at = "start"
    /\ Fault
    /\ SetWorker(w, "feeErr")
    /\ UNCHANGED <<chainVars, mainVars>>

\* With a fee of zero the worker asks for all of its batch as an output.  The
\* transaction is made with a fee that is asked for again, which fails or
\* gives one the inputs do not cover: a second error is reported.
FeeNotCovered(w) ==
    /\ workers[w].at = "free"
    /\ SetWorker(w, "err")
    /\ UNCHANGED <<chainVars, mainVars, faults>>

\* The inputs of the transaction are still there to be spent.
Spendable(w) == workers[w].ins \subseteq coins /\ workers[w].fee \subseteq prv

TxMade(w, label) ==
    workers' = [workers EXCEPT ![w].at = label, ![w].amount = @ - FeeTaken]

\* The transaction is made and sent.  An error of the connection is not seen,
\* so the worker waits also for a transaction the node never got.
Send(w) ==
    /\ workers[w].at = "start"
    /\ Affords(w)
    /\ \/ /\ mempool' = mempool \cup {w}
          /\ UNCHANGED faults
       \/ /\ Fault
          /\ UNCHANGED mempool
    /\ TxMade(w, "wait")
    /\ UNCHANGED <<coins, value, nextId, prv, mined, mainVars>>

\* The node has taken the transaction but its answer is empty or no JSON:
\* the worker gives up on a transaction that may be put into a block.
AnswerUnreadable(w) ==
    /\ workers[w].at = "start"
    /\ Affords(w)
    /\ Fault
    /\ mempool' = mempool \cup {w}
    /\ TxMade(w, "err")
    /\ UNCHANGED <<coins, value, nextId, prv, mined, mainVars>>

\* The transaction cannot be made, or the node refuses it.
SendFails(w) ==
    /\ workers[w].at = "start"
    /\ Affords(w)
    /\ \/ Fault
       \/ ~Spendable(w) /\ UNCHANGED faults
    /\ SetWorker(w, "err")
    /\ UNCHANGED <<chainVars, mainVars>>

\* waitingCheckTxInBlock
InBlock(w) ==
    /\ workers[w].at = "wait"
    /\ w \in mined
    /\ SetWorker(w, "done")
    /\ UNCHANGED <<chainVars, mainVars, faults>>

\* CheckTxInBlock fails, or five minutes have passed; the transaction may be
\* in a block already or get there later.  One the node does not have, or
\* cannot put into a block, always ends this way.
WaitFails(w) ==
    /\ workers[w].at = "wait"
    /\ \/ Fault
       \/ w \notin mined /\ ~(w \in mempool /\ Spendable(w)) /\ UNCHANGED faults
    /\ SetWorker(w, "err")
    /\ UNCHANGED <<chainVars, mainVars>>

-----------------------------------------------------------------------------
(* The full node (external).                                               *)

\* A transaction all of whose inputs are unspent is put into a block: its
\* inputs become one coin, of version 2 in a conversion.
Mine(w) ==
    /\ w \in mempool
    /\ Spendable(w)
    /\ mempool' = mempool \ {w}
    /\ mined' = mined \cup {w}
    /\ IF Converts
       THEN coins' = coins \ workers[w].ins /\ UNCHANGED value
       ELSE /\ coins' = (coins \ workers[w].ins) \cup {nextId}
            /\ value' = [id \in DOMAIN value \cup {nextId} |->
                            IF id = nextId THEN workers[w].amount ELSE value[id]]
    /\ \E change \in IF FeeInPRV THEN Change(nextId + 1) ELSE {{}} :
          prv' = (prv \ workers[w].fee) \cup change
    /\ nextId' = nextId + 2
    /\ UNCHANGED <<workers, mainVars, faults>>

\* A transaction that has lost an input to another one is dropped.
Drop(w) ==
    /\ w \in mempool
    /\ ~Spendable(w)
    /\ mempool' = mempool \ {w}
    /\ UNCHANGED <<coins, value, nextId, prv, mined, workers, mainVars, faults>>

-----------------------------------------------------------------------------

Main == \/ StartConsolidating \/ StartConverting \/ ConvertDirectly
        \/ List \/ SplitPRVForFees \/ ListPRV
        \/ Launch \/ NoFeeCoin \/ AllLaunched
        \/ \E w \in Reporting : ReceiveDone(w) \/ ReceiveErr(w)
        \/ ReceiveTimeOut \/ Settle

Worker(w) == TooPoor(w) \/ FeeNotCovered(w) \/ Send(w) \/ InBlock(w) \/ WaitFails(w)

Node(w) == Mine(w) \/ Drop(w)

\* The call is over; workers it left behind may still be blocked.
Finished == pc = "returned" /\ UNCHANGED vars

Next == \/ Main \/ ListOrSplitFails \/ TooLittlePRV \/ TimerExpires
        \/ \E w \in DOMAIN workers :
              Worker(w) \/ TokenFeeFails(w) \/ SendFails(w) \/ AnswerUnreadable(w) \/ Node(w)
        \/ Spin \/ Finished

Spec == Init /\ [][Next]_vars

\* Goroutines that can run do run, the node mines what it has taken, and
\* thirty minutes pass.
FairSpec ==
    /\ Spec
    /\ WF_vars(Main)
    /\ WF_vars(\E w \in DOMAIN workers : Worker(w))
    /\ WF_vars(\E w \in DOMAIN workers : Node(w))
    /\ WF_vars(TimerExpires)

-----------------------------------------------------------------------------

WorkerType ==
    [at : {"start", "feeErr", "free", "wait", "done", "err", "end"},
     ins : SUBSET (Nat \ {0}), amount : Nat, fee : SUBSET Nat]

\* Types.
TypeOK ==
    /\ kind \in Kinds
    /\ coins \subseteq DOMAIN value /\ nextId \in Nat
    /\ \A id \in DOMAIN value : id < nextId /\ value[id] \in Nat
    /\ \A id \in prv : id < nextId
    /\ mempool \subseteq DOMAIN workers /\ mined \subseteq DOMAIN workers
    /\ pc \in {"start", "list", "split", "listPRV", "launch", "collect", "returned"}
    /\ rest \subseteq DOMAIN value /\ feeList \subseteq Nat
    /\ workers \in Seq(WorkerType)
    /\ first \in 1 .. Len(workers) + 1
    /\ numDone \in Nat /\ numErr \in Nat
    /\ timeOut \in {"set", "fired"}
    /\ txList \in Seq(Nat)
    /\ outcome \in {"none", "ok", "nothing", "error", "allFailed", "noFeeCoin",
                   "time-out"}
    /\ (pc = "returned") = (outcome # "none")

Ended == {w \in DOMAIN workers : workers[w].at = "end"}
Listed == {txList[k] : k \in DOMAIN txList} \ {0}

\* The main goroutine goes on to the next round, or gives up because every
\* worker failed, only when no worker is at work any more: each round's
\* listing is taken after all transactions of the round were reported.
RoundQuiescent ==
    pc \in {"list", "split", "listPRV"} \/ outcome \in {"ok", "allFailed"}
        => Ended = DOMAIN workers

\* A token fee that could not be had is reported by a worker that goes on and
\* reports again; its round is not quiescent when it ends.
ReportsTwice == kind = "TokenV1" /\ faults > 0

\* In every call in which no worker reports twice, a round begins, or the call
\* gives up, only when no worker is at work any more.
RoundsApart == ReportsTwice \/ RoundQuiescent

\* While a round is collected, the two counters have counted each worker of
\* the round that has ended once, and nothing else, unless one reports twice;
\* and the hashes to be returned are of transactions in a block, each once,
\* also when the call returns an error.
ReportsMatch ==
    /\ pc = "collect" /\ ~ReportsTwice => numDone + numErr = Cardinality(Ended \cap Round)
    /\ Listed \subseteq mined
    /\ \A j, k \in DOMAIN txList : j # k /\ txList[j] # 0 => txList[j] # txList[k]

\* Two transactions of one call spend the same coin, or the same fee coin,
\* only if the worker of the earlier one has given up on it before, or
\* workers report twice.
NoDoubleSpend ==
    \A w, v \in mempool \cup mined :
        /\ w < v /\ ~ReportsTwice
        /\ workers[w].ins \cap workers[v].ins # {} \/ workers[w].fee \cap workers[v].fee # {}
        => w \in Ended \ Listed

\* splitPRVForFees provides a fee coin for every worker: one is missing only
\* if a transaction given up in an earlier round got into a block between the
\* check and the listing.
FeeCoinsSuffice == outcome = "noFeeCoin" => faults > 0

\* The call returns.
Returns == <>(pc = "returned")

\* Every UTXO of version 1 is converted.
AllConverted == <>(coins = {})
=============================================================================
