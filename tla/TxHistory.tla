----------------------------- MODULE TxHistory -----------------------------
(***************************************************************************)
(* TxHistoryProcessor and its TxHistoryWorkers (tx_history_worker.go in    *)
(* incclient): the transactions of an account, retrieved by goroutines     *)
(* that answer over two channels which the processor keeps for its life.   *)
(*                                                                         *)
(* A query is one run of GetTxsIn or GetTxsOut.  GetTokenHistory makes     *)
(* four of them and GetAllHistory makes these four for every token.  The   *)
(* items of a query are the hashes, public keys or serial numbers it looks *)
(* up, and the answer to an item is one transaction, named by the item.    *)
(* One goroutine calls the processor at a time, as in the repository's     *)
(* tests.  The full node is external: it answers a request or fails.       *)
(***************************************************************************)
EXTENDS Integers, Sequences, FiniteSets

CONSTANTS Tokens,         \* without PRV
          NumWorkers,
          ClientVersion,  \* client.version
          ItemCounts,     \* numbers of items a query may have
          MaxCalls,       \* bound on the number of calls of the processor
          MaxFaults       \* bound on failed requests

ASSUME HistoryAssumption ==
    /\ IsFiniteSet(Tokens)
    /\ NumWorkers \in Nat \ {0} /\ ClientVersion \in {1, 2}
    /\ ItemCounts \subseteq Nat /\ MaxCalls \in Nat /\ MaxFaults \in Nat

PRV == "prv"
TokenIDs == Tokens \cup {PRV}
Directions == {"in", "out"}
Query == [dir : Directions, tok : TokenIDs, version : {1, 2}]

VARIABLES count,       \* [Directions -> number of items of such a query]
          history,     \* [TokenIDs -> [Directions -> items answered]]
          txChan,
          errChan,     \* number of errors in the channel
          tasks,       \* the worker goroutines
          todo,        \* queries left of the call, the current one first
          waiting,     \* whether the current query's goroutines are started
          numWorkers, numSuccess,
          answer,      \* what the last query returned
          failed,      \* history: some query has returned an error
          calls, faults

vars == <<count, history, txChan, errChan, tasks, todo, waiting, numWorkers,
          numSuccess, answer, failed, calls, faults>>

Items(q) == {[query |-> q, n |-> n] : n \in 1..count[q.dir]}
NoAnswer == [how |-> "none"]

Init ==
    /\ count \in [Directions -> ItemCounts]
    /\ history = [t \in TokenIDs |-> [d \in Directions |-> {}]]
    /\ txChan = <<>> /\ errChan = 0
    /\ tasks = {}
    /\ todo = <<>>
    /\ waiting = FALSE
    /\ numWorkers = 0 /\ numSuccess = 0
    /\ answer = NoAnswer
    /\ failed = FALSE
    /\ calls = 0 /\ faults = 0

Fault == /\ faults < MaxFaults
         /\ faults' = faults + 1

-----------------------------------------------------------------------------
(* The processor.                                                          *)

\* GetTokenHistory: the four queries, in this order.
TokenQueries(tok) ==
    [k \in 1..4 |-> [dir |-> IF k \in {1, 3} THEN "in" ELSE "out", tok |-> tok,
                     version |-> IF k <= 2 THEN 1 ELSE 2]]

\* GetAllHistory: the tokens in any order, PRV last.
AllTokens ==
    LET n == Cardinality(Tokens)
    IN  {Append(order, PRV) : order \in
            {f \in [1..n -> Tokens] : \A i, j \in 1..n : i # j => f[i] # f[j]}}

AllQueries(order) ==
    [k \in 1 .. 4 * Len(order) |->
        TokenQueries(order[((k - 1) \div 4) + 1])[((k - 1) % 4) + 1]]

Begin(queries) ==
    /\ todo = <<>>
    /\ calls < MaxCalls
    /\ calls' = calls + 1
    /\ todo' = queries
    /\ UNCHANGED <<count, history, txChan, errChan, tasks, waiting, numWorkers,
                   numSuccess, answer, failed, faults>>

GetTxs(q) == Begin(<<q>>)
GetTokenHistory(tok) == Begin(TokenQueries(tok))
GetAllHistory == \E order \in AllTokens : Begin(AllQueries(order))

\* Mutant of Return: the query is not taken off todo.
ReturnSameQuery(how, txs) ==
    /\ answer' = [how |-> how, query |-> Head(todo), txs |-> txs]
    /\ todo' = IF how = "ok" THEN todo ELSE <<>>
    /\ failed' = (failed \/ how # "ok")
    /\ waiting' = FALSE

\* The query returns; an error ends the whole call.
Return(how, txs) ==
    /\ answer' = [how |-> how, query |-> Head(todo), txs |-> txs]
    /\ todo' = IF how = "ok" THEN Tail(todo) ELSE <<>>
    /\ failed' = (failed \/ how # "ok")
    /\ waiting' = FALSE

\* GetListDecryptedOutCoin, GetTransactionHashesByReceiver or
\* GetSpentOutputCoins fails.
ListFails ==
    /\ todo # <<>> /\ ~waiting
    /\ Fault
    /\ Return("error", {})
    /\ UNCHANGED <<count, history, txChan, errChan, tasks, numWorkers,
                   numSuccess, calls>>

\* GetTxsOut returns nil at once when no coin has been spent.
NothingSpent ==
    /\ todo # <<>> /\ ~waiting
    /\ Head(todo).dir = "out" /\ count["out"] = 0
    /\ Return("ok", {})
    /\ UNCHANGED <<count, history, txChan, errChan, tasks, numWorkers,
                   numSuccess, calls, faults>>

\* Mutant of Slice: the slice ends one item too early.
SliceTooShort(q, i) ==
    LET each == count[q.dir] \div NumWorkers
        end == IF i = NumWorkers THEN count[q.dir] ELSE i * each
    IN  {item \in Items(q) : (i - 1) * each < item.n /\ item.n < end}

\* The items a worker gets; the last worker also gets the remainder.
Slice(q, i) ==
    LET each == count[q.dir] \div NumWorkers
        end == IF i = NumWorkers THEN count[q.dir] ELSE i * each
    IN  {item \in Items(q) : (i - 1) * each < item.n /\ item.n <= end}

\* getTxsInV2 starts with an empty answer unless the client is of version 2.
Task(q, i, items) ==
    [serial |-> <<calls, Len(todo), i>>, query |-> q, items |-> items,
     at |-> IF q.dir = "in" /\ q.version = 2 /\ ClientVersion # 2
            THEN "empty" ELSE "request"]

Few(q) == count[q.dir] < NumWorkers

\* Mutant of WorkersOf: the first answer is taken for all of them.
OneWorker(q) == 1

WorkersOf(q) == IF Few(q) THEN 1 ELSE NumWorkers

StartWorkers ==
    LET q == Head(todo)
    IN  /\ todo # <<>> /\ ~waiting
        /\ q.dir = "out" => count["out"] > 0
        /\ tasks' = tasks \cup
               (IF Few(q) THEN {Task(q, 1, Items(q))}
                ELSE {Task(q, i, Slice(q, i)) : i \in 1..NumWorkers})
        /\ numWorkers' = WorkersOf(q)
        /\ numSuccess' = 0
        /\ waiting' = TRUE
        /\ UNCHANGED <<count, history, txChan, errChan, todo, answer, failed,
                       calls, faults>>

\* Mutant of AddHistory: both lists get all transactions.
AddToBoth(h, txs) == [d \in Directions |-> h[d] \cup txs]

\* addHistory appends the transactions that are not there yet, which arrive
\* as TxInList or as TxOutList.
AddHistory(h, txs) ==
    [d \in Directions |-> h[d] \cup {tx \in txs : tx.query.dir = d}]

\* An answer is filed under the token of the current query, whatever query
\* it is an answer to.
ReceiveTxs ==
    LET q == Head(todo)
        txs == Head(txChan)
    IN  /\ waiting
        /\ txChan # <<>>
        /\ txChan' = Tail(txChan)
        /\ history' = [history EXCEPT ![q.tok] = AddHistory(@, txs)]
        /\ numSuccess' = numSuccess + 1
        /\ IF numSuccess' = numWorkers THEN Return("ok", history'[q.tok][q.dir])
           ELSE UNCHANGED <<answer, todo, failed, waiting>>
        /\ UNCHANGED <<count, errChan, tasks, numWorkers, calls, faults>>

ReceiveError ==
    /\ waiting
    /\ errChan > 0
    /\ errChan' = errChan - 1
    /\ Return("error", history[Head(todo).tok][Head(todo).dir])
    /\ UNCHANGED <<count, history, txChan, tasks, numWorkers, numSuccess, calls, faults>>

-----------------------------------------------------------------------------
(* The workers.                                                            *)

Move(task, label) == tasks' = (tasks \ {task}) \cup {[task EXCEPT !.at = label]}

\* A request fails; getTxsOut reports "Method not found" twice.
RequestFails(task) ==
    /\ task.at = "request"
    /\ Fault
    /\ \E label \in {"error", "twice"} :
          /\ label = "twice" => task.query.dir = "out"
          /\ Move(task, label)
    /\ UNCHANGED <<count, history, txChan, errChan, todo, waiting, numWorkers,
                   numSuccess, answer, failed, calls>>

\* The requests of the worker were answered, and it sends what it found.
SendTxs(task) ==
    /\ Len(txChan) < NumWorkers
    /\ \/ /\ task.at = "empty"
          /\ txChan' = Append(txChan, {})
          /\ Move(task, "request")
       \/ /\ task.at = "request"
          /\ txChan' = Append(txChan, task.items)
          /\ tasks' = tasks \ {task}
    /\ UNCHANGED <<count, history, errChan, todo, waiting, numWorkers,
                   numSuccess, answer, failed, calls, faults>>

SendError(task) ==
    /\ errChan < NumWorkers
    /\ task.at \in {"error", "twice"}
    /\ errChan' = errChan + 1
    /\ IF task.at = "twice" THEN Move(task, "error") ELSE tasks' = tasks \ {task}
    /\ UNCHANGED <<count, history, txChan, todo, waiting, numWorkers,
                   numSuccess, answer, failed, calls, faults>>

-----------------------------------------------------------------------------

Processor == NothingSpent \/ StartWorkers \/ ReceiveTxs \/ ReceiveError

Worker == \E task \in tasks : SendTxs(task) \/ SendError(task)

\* No call is under way; goroutines of earlier ones may be blocked.
Finished == todo = <<>> /\ UNCHANGED vars

Next ==
    \/ \E q \in Query : GetTxs(q)
    \/ \E tok \in TokenIDs : GetTokenHistory(tok)
    \/ GetAllHistory
    \/ Processor \/ ListFails
    \/ Worker \/ \E task \in tasks : RequestFails(task)
    \/ Finished

Spec == Init /\ [][Next]_vars

\* Goroutines that can run do run, and requests end.
FairSpec == Spec /\ WF_vars(Processor) /\ WF_vars(Worker)

-----------------------------------------------------------------------------

AllItems == UNION {Items(q) : q \in Query}

\* Types.
TypeOK ==
    /\ count \in [Directions -> Nat]
    /\ history \in [TokenIDs -> [Directions -> SUBSET AllItems]]
    /\ txChan \in Seq(SUBSET AllItems) /\ errChan \in 0..NumWorkers
    /\ tasks \subseteq [serial : Seq(Nat), query : Query, items : SUBSET AllItems,
                        at : {"empty", "request", "error", "twice"}]
    /\ todo \in Seq(Query)
    /\ waiting \in BOOLEAN /\ (waiting => todo # <<>>)
    /\ numWorkers \in 0..NumWorkers /\ numSuccess \in 0..numWorkers
    /\ failed \in BOOLEAN
    /\ calls \in Nat /\ faults \in Nat

OfToken(q) == {item \in AllItems : item.query.tok = q.tok /\ item.query.dir = q.dir}

\* A query returns only transactions of the token and direction asked for.
Pure(a) == a.how # "none" => a.txs \subseteq OfToken(a.query)

\* A query that succeeds returns the transaction of each of its items.
Complete(a) == a.how = "ok" => Items(a.query) \subseteq a.txs

\* Until the first error, the queries of GetTxsIn and GetTxsOut return what
\* they were asked for, although no answer says what it is an answer to.
AnswersPure == ~failed => Pure(answer)
AnswersComplete == ~failed => Complete(answer)

\* Until the first error a query leaves no goroutine and no message behind.
NothingLeftBehind ==
    ~failed /\ ~waiting => tasks = {} /\ txChan = <<>> /\ errChan = 0

\* A processor that has reported an error can be used again.
RetryPure == Pure(answer)

\* Every call returns, also after errors and with messages left over.
CallsReturn == todo # <<>> ~> todo = <<>>
=============================================================================
