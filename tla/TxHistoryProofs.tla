--------------------------- MODULE TxHistoryProofs ---------------------------
(***************************************************************************)
(* What the history processor returns before its first error, for any      *)
(* number of tokens, workers and items.  No message says which query it    *)
(* answers; the argument counts the workers: when as many answers as       *)
(* workers have been read, every worker has sent its one answer, so none   *)
(* is left to be taken for an answer to a later query.                     *)
(***************************************************************************)
EXTENDS TxHistory, FiniteSetTheorems, SequenceTheorems, TLAPS

Asking == {task \in tasks : task.at = "request"}

\* A worker has failed, and its error is in the channel or on its way.
Erring == errChan > 0 \/ \E task \in tasks : task.at # "request"

\* Every worker of the query has been heard, can be heard in txChan, is asking
\* still, or has failed: a query that has heard all of them has left nothing.
CountInv ==
    waiting /\ ~failed =>
        /\ IsFiniteSet(Asking)
        /\ numSuccess + Len(txChan) + Cardinality(Asking) + (IF Erring THEN 1 ELSE 0)
              <= numWorkers

\* All that is under way belongs to the current query, and none of its items
\* is lost.
ItemsInv ==
    LET q == Head(todo)
    IN  waiting /\ ~failed =>
            /\ \A task \in tasks : task.items \subseteq Items(q)
            /\ \A k \in DOMAIN txChan : txChan[k] \subseteq Items(q)
            /\ \A item \in Items(q) :
                  \/ Erring
                  \/ item \in history[q.tok][q.dir]
                  \/ \E k \in DOMAIN txChan : item \in txChan[k]
                  \/ \E task \in Asking : item \in task.items

HistoryInv ==
    ~failed => \A t \in TokenIDs, d \in Directions : \A item \in history[t][d] :
        item.query.tok = t /\ item.query.dir = d

TypeInv == TypeOK /\ (waiting => numSuccess < numWorkers)

IInv == /\ \A task \in tasks : task.at # "empty"
        /\ CountInv /\ ItemsInv /\ HistoryInv
        /\ NothingLeftBehind /\ AnswersPure /\ AnswersComplete

-----------------------------------------------------------------------------
(* Types.                                                                  *)

TaskType == [serial : Seq(Nat), query : Query, items : SUBSET AllItems,
             at : {"empty", "request", "error", "twice"}]

\* The items of a query, and the number of its workers.
LEMMA ItemsType ==
    ASSUME TypeOK, NEW q \in Query
    PROVE  /\ Items(q) \subseteq AllItems
           /\ q.tok \in TokenIDs /\ q.dir \in Directions
           /\ count[q.dir] \in Nat
           /\ WorkersOf(q) \in 1..NumWorkers
BY HistoryAssumption DEF AllItems, Query, TypeOK, WorkersOf

\* The queries of a call are queries.
LEMMA QueriesType ==
    /\ \A tok \in TokenIDs : TokenQueries(tok) \in Seq(Query)
    /\ \A order \in AllTokens : AllQueries(order) \in Seq(Query)
<1>1. ASSUME NEW tok \in TokenIDs
      PROVE  /\ TokenQueries(tok) \in Seq(Query)
             /\ \A k \in 1..4 : TokenQueries(tok)[k] \in Query
  <2>1. \A k \in 1..4 : [dir |-> IF k \in {1, 3} THEN "in" ELSE "out", tok |-> tok,
                         version |-> IF k <= 2 THEN 1 ELSE 2] \in Query
        BY DEF Query, Directions
  <2>2. TokenQueries(tok) \in [1..4 -> Query]
        BY <2>1 DEF TokenQueries
  <2>3. \A k \in 1..4 : TokenQueries(tok)[k] \in Query
        BY <2>2
  <2>4. 4 \in Nat /\ \A n \in Nat : [1..n -> Query] \subseteq Seq(Query)
        OBVIOUS
  <2> QED
      BY <2>2, <2>3, <2>4, Zenon
<1>2. ASSUME NEW order \in AllTokens PROVE AllQueries(order) \in Seq(Query)
  <2> DEFINE n == Cardinality(Tokens)
             m == 4 * Len(order)
  <2>1. n \in Nat
        BY HistoryAssumption, FS_CardinalityType
  <2>2. PICK f \in [1..n -> Tokens] : order = Append(f, PRV)
        BY DEF AllTokens
  <2>3. order \in Seq(TokenIDs)
    <3>1. f \in Seq(TokenIDs) /\ PRV \in TokenIDs
          BY <2>1 DEF TokenIDs
    <3> QED
        BY <2>2, <3>1, AppendProperties
  <2>4. Len(order) \in Nat /\ m \in Nat
        BY <2>3, LenProperties
  <2>5. \A k \in 1..m : ((k - 1) \div 4) + 1 \in 1..Len(order) /\ ((k - 1) % 4) + 1 \in 1..4
        BY <2>4
  <2>6. \A k \in 1..m : order[((k - 1) \div 4) + 1] \in TokenIDs
        BY <2>3, <2>5, ElementOfSeq
  <2>7. \A k \in 1..m :
            TokenQueries(order[((k - 1) \div 4) + 1])[((k - 1) % 4) + 1] \in Query
        BY <1>1, <2>5, <2>6
  <2>8. AllQueries(order) \in [1..m -> Query]
        BY <2>7 DEF AllQueries
  <2> HIDE DEF m
  <2> QED
      BY <2>4, <2>8
<1> QED
    BY <1>1, <1>2

\* What is left to do after a query has returned.
LEMMA ReturnType ==
    ASSUME TypeOK, todo # <<>>, NEW how, NEW txs, Return(how, txs)
    PROVE  /\ todo' \in Seq(Query)
           /\ waiting' = FALSE /\ failed' \in BOOLEAN
<1>1. todo \in Seq(Query)
      BY DEF TypeOK
<1>2. Tail(todo) \in Seq(Query) /\ <<>> \in Seq(Query)
      BY <1>1, HeadTailProperties
<1> QED
    BY <1>2 DEF Return

\* A processor begins with its types right.
LEMMA TypeInit == Init => TypeInv
<1> SUFFICES ASSUME Init PROVE TypeInv
    OBVIOUS
<1>1. count \in [Directions -> Nat]
      BY HistoryAssumption DEF Init
<1>2. history \in [TokenIDs -> [Directions -> SUBSET AllItems]]
      BY DEF Init
<1>3. txChan \in Seq(SUBSET AllItems) /\ todo \in Seq(Query)
      BY DEF Init
<1>4. /\ errChan \in 0..NumWorkers /\ numWorkers \in 0..NumWorkers
      /\ numSuccess \in 0..numWorkers /\ calls \in Nat /\ faults \in Nat
      BY HistoryAssumption DEF Init
<1>5. tasks = {} /\ waiting = FALSE /\ failed = FALSE
      BY DEF Init
<1> QED
    BY <1>1, <1>2, <1>3, <1>4, <1>5 DEF TypeInv, TypeOK

\* Types of the worker goroutines after one of them has moved on.
LEMMA MoveType ==
    ASSUME TypeOK, count' = count, NEW task \in tasks,
           NEW label \in {"empty", "request", "error", "twice"}, Move(task, label)
    PROVE  /\ tasks' \subseteq [serial : Seq(Nat), query : Query, items : SUBSET AllItems,
                                at : {"empty", "request", "error", "twice"}]'
           /\ [task EXCEPT !.at = label].at = label
           /\ [task EXCEPT !.at = label].items = task.items
<1>1. tasks \subseteq TaskType /\ task \in TaskType
      BY DEF TypeOK, TaskType
<1>2. [task EXCEPT !.at = label] \in TaskType
      BY <1>1 DEF TaskType
<1>3. /\ [task EXCEPT !.at = label].at = label
      /\ [task EXCEPT !.at = label].items = task.items
      BY <1>1 DEF TaskType
<1>4. tasks' \subseteq TaskType
      BY <1>1, <1>2, Zenon DEF Move
<1>5. AllItems' = AllItems
      BY DEF AllItems, Items
<1> QED
    BY <1>3, <1>4, <1>5 DEF TaskType

\* Every step keeps the types.
LEMMA TypeNext ==
    ASSUME TypeInv, [Next]_vars
    PROVE  TypeInv'
<1> USE DEF TypeInv
<1>a. /\ TypeOK /\ NumWorkers \in Nat \ {0}
      /\ numWorkers \in Nat /\ numSuccess \in Nat /\ errChan \in Nat
      BY HistoryAssumption DEF TypeOK
<1>b. ASSUME count' = count PROVE AllItems' = AllItems
      BY <1>b DEF AllItems, Items
<1>1. ASSUME NEW queries \in Seq(Query), Begin(queries)
      PROVE  TypeInv'
  <2>1. /\ todo = <<>> /\ todo' = queries /\ calls' = calls + 1
        /\ UNCHANGED <<count, history, txChan, errChan, tasks, waiting, numWorkers,
                       numSuccess, failed, faults>>
        BY <1>1 DEF Begin
  <2>2. ~waiting
        BY <1>a, <2>1 DEF TypeOK
  <2> QED
      BY <1>a, <1>b, <2>1, <2>2 DEF TypeOK
<1>2. CASE ListFails \/ NothingSpent
  <2>1. /\ todo # <<>>
        /\ UNCHANGED <<count, history, txChan, errChan, tasks, numWorkers, numSuccess, calls>>
        /\ \E how : Return(how, {})
        /\ faults' \in Nat
        BY <1>2, <1>a DEF ListFails, NothingSpent, Fault, TypeOK
  <2>2. todo' \in Seq(Query) /\ waiting' = FALSE /\ failed' \in BOOLEAN
        BY <1>a, <2>1, ReturnType
  <2> QED
      BY <1>a, <1>b, <2>1, <2>2 DEF TypeOK
<1>3. CASE StartWorkers
  <2> DEFINE q == Head(todo)
             new == IF Few(q) THEN {Task(q, 1, Items(q))}
                    ELSE {Task(q, i, Slice(q, i)) : i \in 1..NumWorkers}
  <2>1. /\ todo # <<>> /\ waiting' = TRUE
        /\ tasks' = tasks \cup new
        /\ numWorkers' = WorkersOf(q) /\ numSuccess' = 0
        /\ UNCHANGED <<count, history, txChan, errChan, todo, failed, calls, faults>>
        BY <1>3 DEF StartWorkers
  <2>2. q \in Query /\ Len(todo) \in Nat
        BY <1>a, <2>1, HeadTailProperties, LenProperties DEF TypeOK
  <2>3. Items(q) \subseteq AllItems /\ WorkersOf(q) \in 1..NumWorkers
        BY <1>a, <2>2, ItemsType
  <2>4. \A i \in 1..NumWorkers : Slice(q, i) \subseteq Items(q)
        BY DEF Slice
  <2>5. \A i \in 1..NumWorkers, items \in SUBSET AllItems : Task(q, i, items) \in TaskType
    <3>1. \A i \in 1..NumWorkers : <<calls, Len(todo), i>> \in Seq(Nat)
          BY <1>a, <2>2 DEF TypeOK
    <3> HIDE DEF q
    <3> QED
        BY <2>2, <3>1 DEF Task, TaskType
  <2>6. new \subseteq TaskType
    <3> HIDE DEF q
    <3>1. 1 \in 1..NumWorkers
          BY <1>a
    <3>2. Task(q, 1, Items(q)) \in TaskType
          BY <2>3, <2>5, <3>1
    <3>3. \A i \in 1..NumWorkers : Task(q, i, Slice(q, i)) \in TaskType
          BY <2>3, <2>4, <2>5
    <3> QED
        BY <3>2, <3>3
  <2> HIDE DEF new, q
  <2>7. tasks' \subseteq TaskType
        BY <1>a, <2>1, <2>6 DEF TypeOK, TaskType
  <2>8. numWorkers' \in 1..NumWorkers /\ numSuccess' \in 0..numWorkers'
        /\ numSuccess' < numWorkers'
        BY <1>a, <2>1, <2>3
  <2>9. AllItems' = AllItems
        BY <1>b, <2>1
  <2> QED
      BY <1>a, <2>1, <2>7, <2>8, <2>9 DEF TypeOK, TaskType
<1>4. CASE ReceiveTxs
  <2> DEFINE q == Head(todo)
             txs == Head(txChan)
             h == AddHistory(history[q.tok], txs)
  <2>1. /\ waiting /\ txChan # <<>> /\ txChan' = Tail(txChan)
        /\ history' = [history EXCEPT ![q.tok] = h]
        /\ numSuccess' = numSuccess + 1
        /\ UNCHANGED <<count, errChan, tasks, numWorkers, calls, faults>>
        BY <1>4 DEF ReceiveTxs
  <2>2. todo # <<>> /\ numSuccess < numWorkers
        BY <1>a, <2>1 DEF TypeOK
  <2>3. q \in Query /\ txs \in SUBSET AllItems /\ Tail(txChan) \in Seq(SUBSET AllItems)
        BY <1>a, <2>1, <2>2, HeadTailProperties DEF TypeOK
  <2>4. q.tok \in TokenIDs
        BY <2>3 DEF Query
  <2>5. h \in [Directions -> SUBSET AllItems]
    <3>1. history[q.tok] \in [Directions -> SUBSET AllItems]
          BY <1>a, <2>4 DEF TypeOK
    <3> HIDE DEF q
    <3> QED
        BY <2>3, <3>1 DEF AddHistory
  <2> HIDE DEF h, txs
  <2>6. history' \in [TokenIDs -> [Directions -> SUBSET AllItems]]
        BY <1>a, <2>1, <2>5 DEF TypeOK
  <2>7. numSuccess' \in 0..numWorkers
        BY <1>a, <2>1, <2>2
  <2>8. /\ todo' \in Seq(Query) /\ waiting' \in BOOLEAN /\ failed' \in BOOLEAN
        /\ waiting' => todo' # <<>> /\ numSuccess' < numWorkers
    <3>1. CASE numSuccess' = numWorkers
      <4>1. \E how, r : Return(how, r)
            BY <1>4, <3>1 DEF ReceiveTxs
      <4> QED
          BY <1>a, <2>2, <4>1, ReturnType
    <3>2. CASE numSuccess' # numWorkers
      <4>1. UNCHANGED <<todo, failed, waiting>>
            BY <1>4, <3>2 DEF ReceiveTxs
      <4> QED
          BY <1>a, <2>2, <2>7, <3>2, <4>1 DEF TypeOK
    <3> QED
        BY <3>1, <3>2
  <2>9. AllItems' = AllItems
        BY <1>b, <2>1
  <2>10. txChan' \in Seq(SUBSET AllItems)
        BY <2>1, <2>3
  <2> HIDE DEF q
  <2> QED
      BY <1>a, <2>1, <2>6, <2>7, <2>8, <2>9, <2>10 DEF TypeOK
<1>5. CASE ReceiveError
  <2>1. /\ waiting /\ errChan > 0 /\ errChan' = errChan - 1
        /\ UNCHANGED <<count, history, txChan, tasks, numWorkers, numSuccess, calls, faults>>
        /\ \E how, r : Return(how, r)
        BY <1>5 DEF ReceiveError
  <2>2. todo' \in Seq(Query) /\ waiting' = FALSE /\ failed' \in BOOLEAN
        BY <1>a, <2>1, ReturnType DEF TypeOK
  <2>3. errChan' \in 0..NumWorkers
        BY <1>a, <2>1 DEF TypeOK
  <2> QED
      BY <1>a, <1>b, <2>1, <2>2, <2>3 DEF TypeOK
<1>6. ASSUME NEW task \in tasks, RequestFails(task)
      PROVE  TypeInv'
  <2>1. /\ faults' = faults + 1
        /\ UNCHANGED <<count, history, txChan, errChan, todo, waiting, numWorkers,
                       numSuccess, failed, calls>>
        BY <1>6 DEF RequestFails, Fault
  <2>2. PICK label \in {"error", "twice"} : Move(task, label)
        BY <1>6 DEF RequestFails
  <2>3. tasks' \subseteq [serial : Seq(Nat), query : Query, items : SUBSET AllItems,
                          at : {"empty", "request", "error", "twice"}]'
        BY <1>a, <2>1, <2>2, MoveType
  <2> QED
      BY <1>a, <1>b, <2>1, <2>3 DEF TypeOK
<1>7. ASSUME NEW task \in tasks, SendTxs(task)
      PROVE  TypeInv'
  <2>1. UNCHANGED <<count, history, errChan, todo, waiting, numWorkers,
                    numSuccess, failed, calls, faults>>
        BY <1>7 DEF SendTxs
  <2>2. /\ txChan' \in Seq(SUBSET AllItems)
        /\ tasks' \subseteq [serial : Seq(Nat), query : Query, items : SUBSET AllItems,
                             at : {"empty", "request", "error", "twice"}]'
    <3>1. txChan \in Seq(SUBSET AllItems) /\ task.items \in SUBSET AllItems
          BY <1>a DEF TypeOK
    <3>2. CASE task.at = "empty"
      <4>1. txChan' = Append(txChan, {}) /\ Move(task, "request")
            BY <1>7, <3>2 DEF SendTxs
      <4>2. txChan' \in Seq(SUBSET AllItems)
            BY <3>1, <4>1, AppendProperties
      <4> QED
          BY <1>a, <2>1, <4>1, <4>2, MoveType
    <3>3. CASE task.at # "empty"
      <4>1. txChan' = Append(txChan, task.items) /\ tasks' = tasks \ {task}
            BY <1>7, <3>3 DEF SendTxs
      <4>2. txChan' \in Seq(SUBSET AllItems)
            BY <3>1, <4>1, AppendProperties
      <4> QED
          BY <1>a, <1>b, <2>1, <4>1, <4>2 DEF TypeOK
    <3> QED
        BY <3>2, <3>3
  <2> QED
      BY <1>a, <1>b, <2>1, <2>2 DEF TypeOK
<1>8. ASSUME NEW task \in tasks, SendError(task)
      PROVE  TypeInv'
  <2>1. /\ errChan < NumWorkers /\ errChan' = errChan + 1
        /\ UNCHANGED <<count, history, txChan, todo, waiting, numWorkers,
                       numSuccess, failed, calls, faults>>
        BY <1>8 DEF SendError
  <2>2. tasks' \subseteq [serial : Seq(Nat), query : Query, items : SUBSET AllItems,
                          at : {"empty", "request", "error", "twice"}]'
    <3>1. CASE Move(task, "error")
          BY <1>a, <2>1, <3>1, MoveType
    <3>2. CASE tasks' = tasks \ {task}
          BY <1>a, <1>b, <2>1, <3>2 DEF TypeOK
    <3> QED
        BY <1>8, <3>1, <3>2 DEF SendError
  <2>3. errChan' \in 0..NumWorkers
        BY <1>a, <2>1
  <2> QED
      BY <1>a, <1>b, <2>1, <2>2, <2>3 DEF TypeOK
<1>9. CASE UNCHANGED vars
      BY <1>9, <1>a, <1>b DEF vars, TypeOK
<1>10. /\ \A q \in Query : <<q>> \in Seq(Query)
       /\ \A tok \in TokenIDs : TokenQueries(tok) \in Seq(Query)
       /\ \A order \in AllTokens : AllQueries(order) \in Seq(Query)
      BY QueriesType
<1>11. CASE \/ \E q \in Query : GetTxs(q)
            \/ \E tok \in TokenIDs : GetTokenHistory(tok)
            \/ GetAllHistory
      BY <1>1, <1>10, <1>11 DEF GetTxs, GetTokenHistory, GetAllHistory
<1> QED
    BY <1>2, <1>3, <1>4, <1>5, <1>6, <1>7, <1>8, <1>9, <1>11
    DEF Next, Processor, Worker, Finished

\* Types are right throughout.
LEMMA SpecTypeInv == Spec => []TypeInv
<1>1. Init => TypeInv
      BY TypeInit
<1>2. TypeInv /\ [Next]_vars => TypeInv'
      BY TypeNext
<1> QED
    BY <1>1, <1>2, PTL DEF Spec

\* Every variable keeps its type, also after errors and with answers left
\* over: the processor never counts more answers than it started workers.
THEOREM TypeCorrect == Spec => []TypeOK
<1>1. TypeInv => TypeOK
      BY DEF TypeInv
<1> QED
    BY <1>1, SpecTypeInv, PTL

-----------------------------------------------------------------------------
(* The workers of a query.                                                 *)

\* The slice an item falls into: n = each * k + r with 0 < r <= each.
LEMMA SliceOf ==
    ASSUME NEW n \in Nat \ {0}, NEW each \in Nat \ {0}
    PROVE  \E k \in Nat : k * each < n /\ n <= (k + 1) * each
<1> DEFINE k == (n - 1) \div each
<1>1. k \in Nat /\ each * k <= n - 1 /\ n - 1 < each * k + each
      OBVIOUS
<1> HIDE DEF k
<1>2. k * each = each * k /\ (k + 1) * each = each * k + each /\ each * k \in Nat
      BY <1>1
<1> QED
    BY <1>1, <1>2

\* Products grow with their first factor.
LEMMA Products ==
    ASSUME NEW m \in Nat, NEW k \in Nat, NEW each \in Nat, m <= k
    PROVE  m * each <= k * each
OBVIOUS

\* The slices of the workers make up the items.
LEMMA SlicesCover ==
    ASSUME TypeOK, NEW q \in Query, NEW item \in Items(q)
    PROVE  \E i \in 1..NumWorkers : item \in Slice(q, i)
<1> DEFINE each == count[q.dir] \div NumWorkers
           n == item.n
<1>1. count[q.dir] \in Nat /\ NumWorkers \in Nat \ {0}
      BY ItemsType, HistoryAssumption
<1>2. n \in Nat \ {0} /\ n <= count[q.dir]
      BY <1>1 DEF Items
<1>3. each \in Nat
      BY <1>1
<1>4. CASE (NumWorkers - 1) * each < n
  <2>1. item \in Slice(q, NumWorkers)
        BY <1>2, <1>4 DEF Slice
  <2> QED
      BY <1>1, <2>1
<1>5. CASE ~((NumWorkers - 1) * each < n)
  <2> HIDE DEF each, n
  <2>1. (NumWorkers - 1) * each \in Nat /\ n <= (NumWorkers - 1) * each /\ each # 0
        BY <1>1, <1>2, <1>3, <1>5
  <2>2. PICK k \in Nat : k * each < n /\ n <= (k + 1) * each
        BY <1>2, <1>3, <2>1, SliceOf
  <2>3. ~(NumWorkers - 1 <= k)
    <3> SUFFICES ASSUME NumWorkers - 1 <= k PROVE FALSE
        OBVIOUS
    <3>2. (NumWorkers - 1) * each <= k * each
          BY <1>1, <1>3, Products
    <3>3. k * each \in Nat
          BY <1>3, <2>2
    <3> QED
        BY <1>2, <2>1, <2>2, <3>2, <3>3
  <2>4. k + 1 \in 1..NumWorkers /\ k + 1 # NumWorkers /\ (k + 1) - 1 = k
        BY <1>1, <2>2, <2>3
  <2>5. item \in Slice(q, k + 1)
        BY <2>2, <2>4 DEF Slice, each, n
  <2> QED
      BY <2>4, <2>5
<1> QED
    BY <1>4, <1>5

\* With a client of version 2, the goroutines started for a query are asking,
\* are no more than numWorkers, and together look up all items.
LEMMA NewTasks ==
    ASSUME TypeOK, ClientVersion = 2, NEW q \in Query, q = Head(todo)
    PROVE  LET new == IF Few(q) THEN {Task(q, 1, Items(q))}
                      ELSE {Task(q, i, Slice(q, i)) : i \in 1..NumWorkers}
           IN  /\ IsFiniteSet(new) /\ Cardinality(new) <= WorkersOf(q)
               /\ \A task \in new : task.at = "request" /\ task.items \subseteq Items(q)
               /\ \A item \in Items(q) : \E task \in new : item \in task.items
<1> DEFINE tasksOf == {Task(q, i, Slice(q, i)) : i \in 1..NumWorkers}
<1>a. \A i, items : Task(q, i, items).at = "request" /\ Task(q, i, items).items = items
      BY DEF Task
<1>1. NumWorkers \in Nat \ {0}
      BY HistoryAssumption
<1>2. CASE Few(q)
  <2> DEFINE task == Task(q, 1, Items(q))
  <2>1. IsFiniteSet({task}) /\ Cardinality({task}) = 1 /\ WorkersOf(q) = 1
        BY <1>2, FS_Singleton DEF WorkersOf
  <2>2. task.at = "request" /\ task.items = Items(q)
        BY <1>a
  <2> HIDE DEF task
  <2>3. /\ IsFiniteSet({task}) /\ Cardinality({task}) <= WorkersOf(q)
        /\ \A t \in {task} : t.at = "request" /\ t.items \subseteq Items(q)
        /\ \A item \in Items(q) : \E t \in {task} : item \in t.items
        BY <2>1, <2>2
  <2> QED
      BY <1>2, <2>3 DEF task
<1>3. CASE ~Few(q)
  <2> DEFINE f == [i \in 1..NumWorkers |-> Task(q, i, Slice(q, i))]
  <2>1. f \in Surjection(1..NumWorkers, tasksOf)
        BY DEF Surjection
  <2>2. IsFiniteSet(1..NumWorkers) /\ Cardinality(1..NumWorkers) = NumWorkers
        BY <1>1, FS_Interval
  <2>3. IsFiniteSet(tasksOf) /\ Cardinality(tasksOf) <= NumWorkers
    <3> HIDE DEF f, tasksOf
    <3> QED
        BY <2>1, <2>2, FS_Surjection
  <2>4. WorkersOf(q) = NumWorkers
        BY <1>3 DEF WorkersOf
  <2>5. \A task \in tasksOf : task.at = "request" /\ task.items \subseteq Items(q)
    <3>1. \A i : Slice(q, i) \subseteq Items(q)
          BY DEF Slice
    <3> QED
        BY <1>a, <3>1
  <2>6. ASSUME NEW item \in Items(q) PROVE \E task \in tasksOf : item \in task.items
    <3>1. PICK i \in 1..NumWorkers : item \in Slice(q, i)
          BY SlicesCover
    <3>2. Task(q, i, Slice(q, i)) \in tasksOf
          OBVIOUS
    <3>3. item \in Task(q, i, Slice(q, i)).items
          BY <1>a, <3>1
    <3> HIDE DEF tasksOf
    <3> QED
        BY <3>2, <3>3
  <2> HIDE DEF tasksOf
  <2>7. /\ IsFiniteSet(tasksOf) /\ Cardinality(tasksOf) <= WorkersOf(q)
        BY <2>3, <2>4
  <2> QED
      BY <1>3, <2>5, <2>6, <2>7 DEF tasksOf
<1> QED
    BY <1>2, <1>3

-----------------------------------------------------------------------------
(* The invariant.                                                          *)

\* A new processor has nothing in its channels.
LEMMA InitInv == Init => IInv
<1> SUFFICES ASSUME Init PROVE IInv
    OBVIOUS
<1>1. tasks = {} /\ txChan = <<>> /\ errChan = 0 /\ ~waiting /\ answer = NoAnswer
      BY DEF Init
<1>2. \A t \in TokenIDs, d \in Directions : history[t][d] = {}
      BY DEF Init
<1> QED
    BY <1>1, <1>2 DEF IInv, CountInv, ItemsInv, HistoryInv, NothingLeftBehind,
       AnswersPure, AnswersComplete, Pure, Complete, NoAnswer

\* Errors are remembered, and what a query looks up does not change.
LEMMA StepBasics ==
    ASSUME [Next]_vars
    PROVE  (failed => failed') /\ count' = count
<1>1. CASE Processor \/ ListFails
  <2>1. \A how, txs : Return(how, txs) => (failed => failed')
        BY DEF Return
  <2> QED
      BY <1>1, <2>1 DEF Processor, ListFails, NothingSpent, StartWorkers, ReceiveTxs,
         ReceiveError
<1>2. ASSUME NEW queries, Begin(queries) PROVE failed' = failed /\ count' = count
      BY <1>2 DEF Begin
<1>3. ASSUME NEW task, SendTxs(task) \/ SendError(task) \/ RequestFails(task)
      PROVE  failed' = failed /\ count' = count
      BY <1>3 DEF SendTxs, SendError, RequestFails
<1>4. CASE UNCHANGED vars
      BY <1>4 DEF vars
<1> QED
    BY <1>1, <1>2, <1>3, <1>4 DEF Next, GetTxs, GetTokenHistory, GetAllHistory, Worker, Finished

\* The items of a query depend on the counts alone.
LEMMA SameItems ==
    ASSUME count' = count
    PROVE  (\A q : Items(q)' = Items(q)) /\ AllItems' = AllItems
           /\ \A q : OfToken(q)' = OfToken(q)
<1>1. \A q : Items(q)' = Items(q)
      BY DEF Items
<1>2. AllItems' = AllItems
      BY <1>1 DEF AllItems
<1> QED
    BY <1>1, <1>2 DEF OfToken

\* The answer that stands stays what it is.
LEMMA SameAnswer ==
    ASSUME IInv, count' = count, answer' = answer, failed' = failed
    PROVE  AnswersPure' /\ AnswersComplete'
BY SameItems DEF IInv, AnswersPure, AnswersComplete, Pure, Complete

\* With a client of version 2 no worker sends two answers.
LEMMA NoneEmpty ==
    ASSUME TypeOK, ClientVersion = 2, [Next]_vars, \A task \in tasks : task.at # "empty"
    PROVE  \A task \in tasks' : task.at # "empty"
<1>1. CASE StartWorkers
  <2>1. todo # <<>>
        BY <1>1 DEF StartWorkers
  <2>2. Head(todo) \in Query
        BY <2>1, HeadTailProperties DEF TypeOK
  <2> DEFINE q == Head(todo)
             new == IF Few(q) THEN {Task(q, 1, Items(q))}
                    ELSE {Task(q, i, Slice(q, i)) : i \in 1..NumWorkers}
  <2>3. \A task \in new : task.at = "request"
        BY <2>2, NewTasks
  <2>4. tasks' = tasks \cup new
        BY <1>1 DEF StartWorkers
  <2> HIDE DEF new
  <2> QED
      BY <2>3, <2>4
<1>2. ASSUME NEW task \in tasks, NEW label \in {"request", "error", "twice"}, Move(task, label)
      PROVE  \A t \in tasks' : t.at # "empty"
  <2>1. task \in TaskType
        BY DEF TypeOK, TaskType
  <2>2. [task EXCEPT !.at = label].at = label
        BY <2>1 DEF TaskType
  <2>3. tasks' = (tasks \ {task}) \cup {[task EXCEPT !.at = label]}
        BY <1>2 DEF Move
  <2> QED
      BY <2>2, <2>3
<1>3. ASSUME NEW task \in tasks, SendTxs(task) \/ SendError(task) \/ RequestFails(task)
      PROVE  \A t \in tasks' : t.at # "empty"
  <2>1. \/ tasks' = tasks \ {task}
        \/ \E label \in {"request", "error", "twice"} : Move(task, label)
        BY <1>3 DEF SendTxs, SendError, RequestFails
  <2> QED
      BY <1>2, <2>1
<1>4. CASE tasks' = tasks
      BY <1>4
<1>5. \/ tasks' = tasks \/ StartWorkers
      \/ \E task \in tasks : SendTxs(task) \/ SendError(task) \/ RequestFails(task)
      BY DEF Next, vars, GetTxs, GetTokenHistory, GetAllHistory, Begin, Processor,
         ListFails, NothingSpent, ReceiveTxs, ReceiveError, Worker, Finished
<1> QED
    BY <1>1, <1>3, <1>4, <1>5

\* After an error the invariant promises nothing but this.
LEMMA FailedInv ==
    ASSUME failed', \A task \in tasks' : task.at # "empty"
    PROVE  IInv'
BY DEF IInv, CountInv, ItemsInv, HistoryInv, NothingLeftBehind, AnswersPure, AnswersComplete

\* A call begins with empty channels.
LEMMA BeginInv ==
    ASSUME TypeOK, IInv, NEW queries, Begin(queries)
    PROVE  IInv'
<1>1. /\ todo = <<>> /\ ~waiting
      /\ UNCHANGED <<count, history, txChan, errChan, tasks, waiting, answer, failed>>
      BY DEF Begin, TypeOK
<1>2. AnswersPure' /\ AnswersComplete'
      BY <1>1, SameAnswer
<1>3. (\A task \in tasks : task.at # "empty") /\ HistoryInv /\ NothingLeftBehind
      BY DEF IInv
<1> QED
    BY <1>1, <1>2, <1>3 DEF IInv, CountInv, ItemsInv, HistoryInv, NothingLeftBehind

\* A query without items is answered with nothing.
LEMMA NothingSpentInv ==
    ASSUME TypeOK, IInv, NothingSpent
    PROVE  IInv'
<1> DEFINE q == Head(todo)
<1>1. /\ ~waiting /\ ~waiting' /\ (~failed' => ~failed)
      /\ q.dir = "out" /\ count["out"] = 0
      /\ answer' = [how |-> "ok", query |-> q, txs |-> {}]
      /\ UNCHANGED <<count, history, txChan, errChan, tasks>>
      BY DEF NothingSpent, Return
<1>2. Items(q) = {}
      BY <1>1 DEF Items
<1>3. answer'.how = "ok" /\ answer'.query = q /\ answer'.txs = {}
      BY <1>1
<1> HIDE DEF q
<1>4. (\A r : Items(r)' = Items(r)) /\ Items(answer'.query) = {}
      BY <1>1, <1>2, <1>3, SameItems
<1>5. AnswersPure' /\ AnswersComplete'
      BY <1>3, <1>4 DEF AnswersPure, AnswersComplete, Pure, Complete
<1>6. (\A task \in tasks : task.at # "empty") /\ HistoryInv /\ NothingLeftBehind
      BY DEF IInv
<1> QED
    BY <1>1, <1>5, <1>6 DEF IInv, CountInv, ItemsInv, HistoryInv, NothingLeftBehind

\* The workers of a query have its items between them.
LEMMA StartWorkersInv ==
    ASSUME TypeOK, IInv, ClientVersion = 2, StartWorkers, ~failed
    PROVE  IInv'
<1> DEFINE q == Head(todo)
           new == IF Few(q) THEN {Task(q, 1, Items(q))}
                  ELSE {Task(q, i, Slice(q, i)) : i \in 1..NumWorkers}
<1>1. /\ todo # <<>> /\ ~waiting /\ waiting'
      /\ tasks' = tasks \cup new
      /\ numWorkers' = WorkersOf(q) /\ numSuccess' = 0
      /\ UNCHANGED <<count, history, txChan, errChan, todo, answer, failed>>
      BY DEF StartWorkers
<1>2. q \in Query
      BY <1>1, HeadTailProperties DEF TypeOK
<1>3. /\ IsFiniteSet(new) /\ Cardinality(new) <= WorkersOf(q)
      /\ \A task \in new : task.at = "request" /\ task.items \subseteq Items(q)
      /\ \A item \in Items(q) : \E task \in new : item \in task.items
      BY <1>2, NewTasks
<1>4. WorkersOf(q) \in Nat
      BY <1>2, ItemsType
<1> HIDE DEF new
<1>5. tasks = {} /\ txChan = <<>> /\ errChan = 0
      BY <1>1 DEF IInv, NothingLeftBehind
<1>6. tasks' = new /\ Asking' = new /\ ~Erring'
      BY <1>1, <1>3, <1>5 DEF Asking, Erring
<1>7. CountInv'
  <2>1. Cardinality(new) \in Nat
        BY <1>3, FS_CardinalityType
  <2>2. Len(txChan') = 0
        BY <1>1, <1>5
  <2> QED
      BY <1>1, <1>3, <1>4, <1>6, <2>1, <2>2 DEF CountInv
<1>8. ItemsInv'
  <2>1. Head(todo)' = q /\ (\A r : Items(r)' = Items(r))
        BY <1>1, SameItems
  <2>2. DOMAIN txChan' = {}
        BY <1>1, <1>5
  <2> HIDE DEF q
  <2>3. /\ \A task \in tasks' : task.items \subseteq Items(q)
        /\ \A item \in Items(q) : \E task \in Asking' : item \in task.items
        BY <1>3, <1>6
  <2> QED
      BY <2>1, <2>2, <2>3 DEF ItemsInv
<1>9. AnswersPure' /\ AnswersComplete'
      BY <1>1, SameAnswer
<1>10. HistoryInv'
       BY <1>1 DEF IInv, HistoryInv
<1> QED
    BY <1>1, <1>3, <1>6, <1>7, <1>8, <1>9, <1>10 DEF IInv, NothingLeftBehind

\* A set of asking workers loses one of them.
LEMMA OneFewer ==
    ASSUME NEW S, IsFiniteSet(S), NEW task \in S
    PROVE  /\ IsFiniteSet(S \ {task})
           /\ Cardinality(S) \in Nat /\ Cardinality(S \ {task}) = Cardinality(S) - 1
BY FS_RemoveElement, FS_CardinalityType

\* A worker whose request fails goes on to send an error.
LEMMA RequestFailsInv ==
    ASSUME TypeOK, IInv, ~failed, NEW task \in tasks, RequestFails(task)
    PROVE  IInv'
<1> DEFINE q == Head(todo)
<1>1. /\ task.at = "request"
      /\ UNCHANGED <<count, history, txChan, errChan, todo, waiting, numWorkers,
                     numSuccess, answer, failed>>
      BY DEF RequestFails
<1>2. PICK label \in {"error", "twice"} :
          tasks' = (tasks \ {task}) \cup {[task EXCEPT !.at = label]}
      BY DEF RequestFails, Move
<1>3. waiting
      BY DEF IInv, NothingLeftBehind
<1> DEFINE new == [task EXCEPT !.at = label]
<1>4. new.at = label /\ new.items = task.items /\ new.at # "request" /\ new.at # "empty"
  <2>1. task \in TaskType
        BY DEF TypeOK, TaskType
  <2> QED
      BY <2>1 DEF TaskType
<1>5. tasks' = (tasks \ {task}) \cup {new}
      BY <1>2
<1> HIDE DEF new
<1>6. Asking' = Asking \ {task} /\ task \in Asking /\ Erring'
      BY <1>1, <1>4, <1>5 DEF Asking, Erring
<1>7. CountInv'
  <2>1. /\ IsFiniteSet(Asking)
        /\ numSuccess + Len(txChan) + Cardinality(Asking) + (IF Erring THEN 1 ELSE 0)
              <= numWorkers
        BY <1>3 DEF IInv, CountInv
  <2>2. /\ IsFiniteSet(Asking') /\ Cardinality(Asking) \in Nat
        /\ Cardinality(Asking') = Cardinality(Asking) - 1
        BY <1>6, <2>1, OneFewer
  <2>3. numSuccess \in Nat /\ Len(txChan) \in Nat /\ numWorkers \in Nat
        BY LenProperties, HistoryAssumption DEF TypeOK
  <2>4. numSuccess + Len(txChan) + Cardinality(Asking') + 1 <= numWorkers
        BY <2>1, <2>2, <2>3
  <2> QED
      BY <1>1, <1>6, <2>2, <2>4 DEF CountInv
<1>8. ItemsInv'
  <2>1. /\ \A t \in tasks : t.items \subseteq Items(q)
        /\ \A k \in DOMAIN txChan : txChan[k] \subseteq Items(q)
        BY <1>3 DEF IInv, ItemsInv
  <2>2. Head(todo)' = q /\ (\A r : Items(r)' = Items(r)) /\ txChan' = txChan
        BY <1>1, SameItems
  <2> HIDE DEF q
  <2>3. \A t \in tasks' : t.items \subseteq Items(q)
        BY <1>4, <1>5, <2>1
  <2> QED
      BY <1>6, <2>1, <2>2, <2>3 DEF ItemsInv
<1>9. AnswersPure' /\ AnswersComplete'
      BY <1>1, SameAnswer
<1>10. HistoryInv' /\ NothingLeftBehind'
       BY <1>1, <1>3 DEF IInv, HistoryInv, NothingLeftBehind
<1>11. \A t \in tasks' : t.at # "empty"
       BY <1>4, <1>5 DEF IInv
<1> QED
    BY <1>7, <1>8, <1>9, <1>10, <1>11 DEF IInv

\* A worker puts the answer to its slice into the channel.
LEMMA SendTxsInv ==
    ASSUME TypeOK, IInv, ~failed, NEW task \in tasks, SendTxs(task)
    PROVE  IInv'
<1> DEFINE q == Head(todo)
<1>1. /\ task.at = "request" /\ txChan' = Append(txChan, task.items)
      /\ tasks' = tasks \ {task}
      /\ UNCHANGED <<count, history, errChan, todo, waiting, numWorkers,
                     numSuccess, answer, failed>>
      BY DEF SendTxs, IInv
<1>2. waiting
      BY DEF IInv, NothingLeftBehind
<1>3. Asking' = Asking \ {task} /\ task \in Asking /\ Erring' = Erring
  <2>1. Asking' = Asking \ {task} /\ task \in Asking
        BY <1>1 DEF Asking
  <2>2. Erring' = Erring
        BY <1>1 DEF Erring
  <2> QED
      BY <2>1, <2>2
<1>4. /\ Len(txChan) \in Nat /\ Len(txChan') = Len(txChan) + 1
      /\ \A k \in 1..Len(txChan) : txChan'[k] = txChan[k]
      /\ txChan'[Len(txChan) + 1] = task.items
      /\ DOMAIN txChan = 1..Len(txChan) /\ DOMAIN txChan' = 1..(Len(txChan) + 1)
  <2>1. txChan \in Seq(SUBSET AllItems) /\ task.items \in SUBSET AllItems
        BY DEF TypeOK
  <2> QED
      BY <1>1, <2>1, AppendProperties, LenProperties
<1>5. CountInv'
  <2>1. /\ IsFiniteSet(Asking)
        /\ numSuccess + Len(txChan) + Cardinality(Asking) + (IF Erring THEN 1 ELSE 0)
              <= numWorkers
        BY <1>2 DEF IInv, CountInv
  <2>2. /\ IsFiniteSet(Asking') /\ Cardinality(Asking) \in Nat
        /\ Cardinality(Asking') = Cardinality(Asking) - 1
        BY <1>3, <2>1, OneFewer
  <2>3. numSuccess \in Nat /\ numWorkers \in Nat
        BY HistoryAssumption DEF TypeOK
  <2>4. numSuccess + (Len(txChan) + 1) + Cardinality(Asking') + (IF Erring THEN 1 ELSE 0)
           <= numWorkers
        BY <1>4, <2>1, <2>2, <2>3
  <2> QED
      BY <1>1, <1>3, <1>4, <2>2, <2>4 DEF CountInv
<1>6. ItemsInv'
  <2>1. /\ \A t \in tasks : t.items \subseteq Items(q)
        /\ \A k \in DOMAIN txChan : txChan[k] \subseteq Items(q)
        /\ \A item \in Items(q) :
              \/ Erring
              \/ item \in history[q.tok][q.dir]
              \/ \E k \in DOMAIN txChan : item \in txChan[k]
              \/ \E t \in Asking : item \in t.items
        BY <1>2 DEF IInv, ItemsInv
  <2>2. Head(todo)' = q /\ (\A r : Items(r)' = Items(r)) /\ history' = history
        BY <1>1, SameItems
  <2> HIDE DEF q
  <2>3. \A t \in tasks' : t.items \subseteq Items(q)
        BY <1>1, <2>1
  <2>4. \A k \in DOMAIN txChan' : txChan'[k] \subseteq Items(q)
    <3> TAKE k \in DOMAIN txChan'
    <3>1. k \in 1..Len(txChan) \/ k = Len(txChan) + 1
          BY <1>4
    <3> QED
        BY <1>4, <2>1, <3>1
  <2>5. ASSUME NEW item \in Items(q)
        PROVE  \/ Erring
               \/ item \in history[q.tok][q.dir]
               \/ \E k \in DOMAIN txChan' : item \in txChan'[k]
               \/ \E t \in Asking' : item \in t.items
    <3>1. CASE \E k \in DOMAIN txChan : item \in txChan[k]
      <4>1. PICK k \in 1..Len(txChan) : item \in txChan[k]
            BY <1>4, <3>1
      <4>2. k \in DOMAIN txChan' /\ txChan'[k] = txChan[k]
            BY <1>4
      <4> QED
          BY <4>1, <4>2
    <3>2. CASE item \in task.items
      <4>1. Len(txChan) + 1 \in DOMAIN txChan'
            BY <1>4
      <4> QED
          BY <1>4, <3>2, <4>1
    <3>3. CASE \E t \in Asking : item \in t.items
          BY <1>3, <3>2, <3>3
    <3> QED
        BY <2>1, <3>1, <3>3
  <2> QED
      BY <1>3, <2>2, <2>3, <2>4, <2>5 DEF ItemsInv
<1>7. AnswersPure' /\ AnswersComplete'
      BY <1>1, SameAnswer
<1>8. HistoryInv' /\ NothingLeftBehind'
      BY <1>1, <1>2 DEF IInv, HistoryInv, NothingLeftBehind
<1>9. \A t \in tasks' : t.at # "empty"
      BY <1>1 DEF IInv
<1> QED
    BY <1>5, <1>6, <1>7, <1>8, <1>9 DEF IInv

\* A worker puts an error into the channel.
LEMMA SendErrorInv ==
    ASSUME TypeOK, IInv, ~failed, NEW task \in tasks, SendError(task)
    PROVE  IInv'
<1> DEFINE q == Head(todo)
           new == [task EXCEPT !.at = "error"]
<1>1. /\ task.at # "request" /\ errChan' = errChan + 1
      /\ tasks' = (tasks \ {task}) \cup {new} \/ tasks' = tasks \ {task}
      /\ UNCHANGED <<count, history, txChan, todo, waiting, numWorkers,
                     numSuccess, answer, failed>>
      BY DEF SendError, Move
<1>2. waiting
      BY DEF IInv, NothingLeftBehind
<1>3. new.at = "error" /\ new.items = task.items
  <2>1. task \in TaskType
        BY DEF TypeOK, TaskType
  <2> QED
      BY <2>1 DEF TaskType
<1> HIDE DEF new
<1>4. Asking' = Asking
      BY <1>1, <1>3 DEF Asking
<1>5. Erring
      BY <1>1 DEF Erring
<1>6. Erring'
  <2>1. errChan' > 0
        BY <1>1 DEF TypeOK
  <2> QED
      BY <2>1 DEF Erring
<1>7. CountInv'
      BY <1>1, <1>2, <1>4, <1>5, <1>6 DEF IInv, CountInv
<1>8. ItemsInv'
  <2>1. /\ \A t \in tasks : t.items \subseteq Items(q)
        /\ \A k \in DOMAIN txChan : txChan[k] \subseteq Items(q)
        BY <1>2 DEF IInv, ItemsInv
  <2>2. Head(todo)' = q /\ (\A r : Items(r)' = Items(r)) /\ txChan' = txChan
        BY <1>1, SameItems
  <2> HIDE DEF q
  <2>3. \A t \in tasks' : t.items \subseteq Items(q)
        BY <1>1, <1>3, <2>1
  <2> QED
      BY <1>6, <2>1, <2>2, <2>3 DEF ItemsInv
<1>9. AnswersPure' /\ AnswersComplete'
      BY <1>1, SameAnswer
<1>10. HistoryInv' /\ NothingLeftBehind'
       BY <1>1, <1>2 DEF IInv, HistoryInv, NothingLeftBehind
<1>11. \A t \in tasks' : t.at # "empty"
       BY <1>1, <1>3 DEF IInv
<1> QED
    BY <1>7, <1>8, <1>9, <1>10, <1>11 DEF IInv

\* What receiving an answer of the current query does to the history: the
\* answer is filed where it belongs, and nothing else changes.
LEMMA FiledAnswer ==
    ASSUME TypeOK, NEW q \in Query, NEW txs \in SUBSET Items(q),
           history' = [history EXCEPT ![q.tok] = AddHistory(@, txs)]
    PROVE  /\ history'[q.tok][q.dir] = history[q.tok][q.dir] \cup txs
           /\ \A t \in TokenIDs, d \in Directions :
                 t # q.tok \/ d # q.dir => history'[t][d] = history[t][d]
<1>1. q.tok \in TokenIDs /\ q.dir \in Directions
      BY ItemsType
<1>2. \A tx \in txs : tx.query = q
      BY DEF Items
<1>3. DOMAIN history = TokenIDs
      BY DEF TypeOK
<1> DEFINE h == history[q.tok]
           add == AddHistory(h, txs)
<1>4. \A d \in Directions : add[d] = h[d] \cup {tx \in txs : tx.query.dir = d}
      BY DEF AddHistory
<1>5. add[q.dir] = h[q.dir] \cup txs
      BY <1>1, <1>2, <1>4
<1>6. ASSUME NEW d \in Directions, d # q.dir PROVE add[d] = h[d]
  <2>1. {tx \in txs : tx.query.dir = d} = {}
        BY <1>2, <1>6
  <2>2. add[d] = h[d] \cup {}
        BY <1>4, <2>1
  <2> QED
      BY <2>2
<1>7. history' = [history EXCEPT ![q.tok] = add]
      OBVIOUS
<1> HIDE DEF add
<1>8. history'[q.tok] = add /\ \A t \in TokenIDs : t # q.tok => history'[t] = history[t]
      BY <1>1, <1>3, <1>7
<1> QED
    BY <1>1, <1>5, <1>6, <1>8

\* The answer received last completes the query.
LEMMA ReceiveTxsInv ==
    ASSUME TypeOK, TypeOK', IInv, ~failed, ReceiveTxs
    PROVE  IInv'
<1> DEFINE q == Head(todo)
           txs == Head(txChan)
<1>1. /\ waiting /\ txChan # <<>> /\ txChan' = Tail(txChan)
      /\ history' = [history EXCEPT ![q.tok] = AddHistory(@, txs)]
      /\ numSuccess' = numSuccess + 1
      /\ UNCHANGED <<count, errChan, tasks, numWorkers>>
      BY DEF ReceiveTxs
<1>2. \/ numSuccess + 1 # numWorkers /\ UNCHANGED <<answer, todo, failed, waiting>>
      \/ /\ numSuccess + 1 = numWorkers /\ ~waiting'
         /\ answer' = [how |-> "ok", query |-> q, txs |-> history'[q.tok][q.dir]]
      BY DEF ReceiveTxs, Return
<1>3. q \in Query /\ q.tok \in TokenIDs /\ q.dir \in Directions
  <2>1. todo # <<>> /\ todo \in Seq(Query)
        BY <1>1 DEF TypeOK
  <2> QED
      BY <2>1, HeadTailProperties, ItemsType
<1>4. /\ Len(txChan) \in Nat /\ Len(txChan') \in Nat /\ Len(txChan') = Len(txChan) - 1
      /\ DOMAIN txChan = 1..Len(txChan) /\ DOMAIN txChan' = 1..Len(txChan')
      /\ txs = txChan[1] /\ 1 \in DOMAIN txChan
      /\ \A k \in 1..Len(txChan') : k + 1 \in DOMAIN txChan /\ txChan'[k] = txChan[k + 1]
  <2>1. txChan \in Seq(SUBSET AllItems)
        BY DEF TypeOK
  <2>2. txs = txChan[1]
        BY <1>1
  <2>3. /\ Len(txChan) \in Nat /\ DOMAIN txChan = 1..Len(txChan)
        /\ Len(txChan) # 0
        BY <1>1, <2>1, LenProperties, EmptySeq
  <2>4. /\ txChan' \in Seq(SUBSET AllItems) /\ Len(txChan') = Len(txChan) - 1
        /\ \A k \in 1..Len(txChan') : txChan'[k] = txChan[k + 1]
        BY <1>1, <2>1, HeadTailProperties
  <2>5. Len(txChan') \in Nat /\ DOMAIN txChan' = 1..Len(txChan')
        BY <2>4, LenProperties
  <2> QED
      BY <2>2, <2>3, <2>4, <2>5
<1>5. /\ \A task \in tasks : task.items \subseteq Items(q)
      /\ \A k \in DOMAIN txChan : txChan[k] \subseteq Items(q)
      /\ \A item \in Items(q) :
            \/ Erring
            \/ item \in history[q.tok][q.dir]
            \/ \E k \in DOMAIN txChan : item \in txChan[k]
            \/ \E task \in Asking : item \in task.items
      BY <1>1 DEF IInv, ItemsInv
<1>6. (\A r : Items(r)' = Items(r)) /\ (\A r : OfToken(r)' = OfToken(r)) /\ AllItems' = AllItems
      BY <1>1, SameItems
<1>7. Asking' = Asking /\ Erring' = Erring
      BY <1>1 DEF Asking, Erring
<1>8. /\ history'[q.tok][q.dir] = history[q.tok][q.dir] \cup txs
      /\ \A t \in TokenIDs, d \in Directions :
            t # q.tok \/ d # q.dir => history'[t][d] = history[t][d]
  <2>1. txs \in SUBSET Items(q)
        BY <1>4, <1>5
  <2> HIDE DEF txs, q
  <2> QED
      BY <1>1, <1>3, <2>1, FiledAnswer
<1>9. /\ IsFiniteSet(Asking) /\ Cardinality(Asking) \in Nat
      /\ numSuccess + Len(txChan) + Cardinality(Asking) + (IF Erring THEN 1 ELSE 0)
            <= numWorkers
  <2>1. /\ IsFiniteSet(Asking)
        /\ numSuccess + Len(txChan) + Cardinality(Asking) + (IF Erring THEN 1 ELSE 0)
              <= numWorkers
        BY <1>1 DEF IInv, CountInv
  <2> QED
      BY <2>1, FS_CardinalityType
<1>10. numSuccess \in Nat /\ numWorkers \in Nat
       BY HistoryAssumption DEF TypeOK
<1>11. \A item \in txs : item \in Items(q) /\ item.query = q
       BY <1>4, <1>5 DEF Items
<1>12. \A task \in tasks : task.at # "empty"
       BY DEF IInv
<1> HIDE DEF q, txs
<1>13. \A t \in TokenIDs, d \in Directions : \A item \in history'[t][d] :
          item.query.tok = t /\ item.query.dir = d
  <2> SUFFICES ASSUME NEW t \in TokenIDs, NEW d \in Directions, NEW item \in history'[t][d]
               PROVE  item.query.tok = t /\ item.query.dir = d
      OBVIOUS
  <2>1. \A i \in history[t][d] : i.query.tok = t /\ i.query.dir = d
        BY DEF IInv, HistoryInv
  <2>2. CASE t # q.tok \/ d # q.dir
        BY <1>8, <2>1, <2>2
  <2>3. CASE t = q.tok /\ d = q.dir
        BY <1>8, <1>11, <2>1, <2>3
  <2> QED
      BY <2>2, <2>3
<1>14. \A item \in Items(q) :
          \/ Erring
          \/ item \in history'[q.tok][q.dir]
          \/ \E k \in DOMAIN txChan' : item \in txChan'[k]
          \/ \E task \in Asking : item \in task.items
  <2> TAKE item \in Items(q)
  <2>1. CASE \E k \in DOMAIN txChan : item \in txChan[k]
    <3>1. PICK k \in DOMAIN txChan : item \in txChan[k]
          BY <2>1
    <3>2. CASE k = 1
          BY <1>4, <1>8, <3>1, <3>2
    <3>3. CASE k # 1
      <4>1. k - 1 \in 1..Len(txChan') /\ (k - 1) + 1 = k
            BY <1>4, <3>1, <3>3
      <4>2. k - 1 \in DOMAIN txChan' /\ txChan'[k - 1] = txChan[k]
            BY <1>4, <4>1
      <4> QED
          BY <3>1, <4>2
    <3> QED
        BY <3>2, <3>3
  <2> QED
      BY <1>5, <1>8, <2>1
<1>15. CASE numSuccess + 1 # numWorkers
  <2>1. UNCHANGED <<answer, todo, failed, waiting>>
        BY <1>2, <1>15
  <2>2. CountInv'
    <3>1. numSuccess' + Len(txChan') + Cardinality(Asking) + (IF Erring THEN 1 ELSE 0)
            <= numWorkers
          BY <1>1, <1>4, <1>9, <1>10
    <3> QED
        BY <1>1, <1>7, <1>9, <3>1 DEF CountInv
  <2>3. ItemsInv'
    <3>1. Head(todo)' = q
          BY <2>1 DEF q
    <3>2. \A k \in DOMAIN txChan' : txChan'[k] \subseteq Items(q)
          BY <1>4, <1>5
    <3> QED
        BY <1>1, <1>5, <1>6, <1>7, <1>14, <3>1, <3>2 DEF ItemsInv
  <2>4. AnswersPure' /\ AnswersComplete'
        BY <1>1, <2>1, SameAnswer
  <2> QED
      BY <1>1, <1>12, <1>13, <2>1, <2>2, <2>3, <2>4 DEF IInv, HistoryInv, NothingLeftBehind
<1>16. CASE numSuccess + 1 = numWorkers
  <2>1. /\ ~waiting' /\ answer'.how = "ok" /\ answer'.query = q
        /\ answer'.txs = history'[q.tok][q.dir]
        BY <1>2, <1>16
  <2>2. Len(txChan') = 0 /\ Cardinality(Asking) = 0 /\ ~Erring
        BY <1>4, <1>9, <1>10, <1>16
  <2>3. txChan' = <<>>
    <3>1. txChan' \in Seq(SUBSET AllItems)
          BY <1>6 DEF TypeOK
    <3> QED
        BY <2>2, <3>1, EmptySeq
  <2>4. Asking = {}
        BY <1>9, <2>2, FS_EmptySet
  <2>5. tasks' = {} /\ errChan' = 0
    <3>1. tasks = {}
          BY <2>2, <2>4 DEF Erring, Asking
    <3>2. errChan = 0
          BY <2>2 DEF Erring, TypeOK
    <3> QED
        BY <1>1, <3>1, <3>2
  <2>6. NothingLeftBehind'
        BY <2>3, <2>5 DEF NothingLeftBehind
  <2>7. Items(q) \subseteq history'[q.tok][q.dir]
    <3>1. DOMAIN txChan' = {}
          BY <2>3
    <3> QED
        BY <1>14, <2>2, <2>4, <3>1
  <2>8. history'[q.tok][q.dir] \subseteq OfToken(q)
    <3>1. history'[q.tok][q.dir] \subseteq AllItems
          BY <1>3, <1>6 DEF TypeOK
    <3> QED
        BY <1>3, <1>13, <3>1 DEF OfToken
  <2>9. AnswersPure' /\ AnswersComplete'
        BY <1>6, <2>1, <2>7, <2>8 DEF AnswersPure, AnswersComplete, Pure, Complete
  <2> QED
      BY <1>13, <2>1, <2>5, <2>6, <2>9 DEF IInv, CountInv, ItemsInv, HistoryInv
<1> QED
    BY <1>15, <1>16

\* Every step keeps the invariant.
LEMMA NextInv ==
    ASSUME TypeInv, TypeInv', IInv, ClientVersion = 2, [Next]_vars
    PROVE  IInv'
<1>1. TypeOK /\ TypeOK' /\ \A task \in tasks : task.at # "empty"
      BY DEF TypeInv, IInv
<1>2. \A task \in tasks' : task.at # "empty"
      BY <1>1, NoneEmpty
<1>3. CASE failed'
      BY <1>2, <1>3, FailedInv
<1>4. CASE ~failed'
  <2>1. ~failed
        BY <1>4, StepBasics
  <2>2. ~ListFails /\ ~ReceiveError
    <3>1. \A txs : ~Return("error", txs)
          BY <1>4 DEF Return
    <3> QED
        BY <3>1 DEF ListFails, ReceiveError
  <2>3. CASE \E queries : Begin(queries)
        BY <1>1, <2>3, BeginInv
  <2>4. CASE NothingSpent \/ StartWorkers \/ ReceiveTxs
        BY <1>1, <2>1, <2>4, NothingSpentInv, StartWorkersInv, ReceiveTxsInv
  <2>5. CASE \E task \in tasks : SendTxs(task) \/ SendError(task) \/ RequestFails(task)
        BY <1>1, <2>1, <2>5, SendTxsInv, SendErrorInv, RequestFailsInv
  <2>6. CASE UNCHANGED vars
        BY <2>6, SameItems DEF vars, IInv, CountInv, ItemsInv, HistoryInv, Asking, Erring,
           NothingLeftBehind, AnswersPure, AnswersComplete, Pure, Complete
  <2> QED
      BY <2>2, <2>3, <2>4, <2>5, <2>6 DEF Next, GetTxs, GetTokenHistory, GetAllHistory,
         Processor, Worker, Finished
<1> QED
    BY <1>3, <1>4

\* The inductive invariant.
LEMMA SpecIInv == ASSUME ClientVersion = 2 PROVE Spec => []IInv
<1>1. Init => TypeInv /\ IInv
      BY TypeInit, InitInv
<1>2. TypeInv /\ IInv /\ [Next]_vars => TypeInv' /\ IInv'
      BY TypeNext, NextInv
<1> QED
    BY <1>1, <1>2, PTL DEF Spec

-----------------------------------------------------------------------------
(* The hypothesis says that the client is of version 2, as every           *)
(* constructor for a named network makes it (MainNetPrivacyVersion and its *)
(* like in incclient/constants.go).  With an older client getTxsInV2 sends *)
(* an empty answer and goes on to send the real one, so that one worker    *)
(* answers twice.                                                          *)

\* Before the first error a query leaves neither a goroutine nor a message
\* in the channels that later queries read.
THEOREM QueriesCleanUp ==
    ASSUME ClientVersion = 2
    PROVE  Spec => []NothingLeftBehind
<1>1. IInv => NothingLeftBehind
      BY DEF IInv
<1> QED
    BY <1>1, SpecIInv, PTL

\* Before the first error GetTxsIn and GetTxsOut return only transactions of
\* the token and of the direction they were asked for.
THEOREM QueriesArePure ==
    ASSUME ClientVersion = 2
    PROVE  Spec => []AnswersPure
<1>1. IInv => AnswersPure
      BY DEF IInv
<1> QED
    BY <1>1, SpecIInv, PTL

\* Before the first error the answer has the transaction of every hash, key
\* or serial number looked up, however the workers divide and interleave.
THEOREM QueriesAreComplete ==
    ASSUME ClientVersion = 2
    PROVE  Spec => []AnswersComplete
<1>1. IInv => AnswersComplete
      BY DEF IInv
<1> QED
    BY <1>1, SpecIInv, PTL
=============================================================================
