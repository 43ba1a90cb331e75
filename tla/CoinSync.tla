------------------------------ MODULE CoinSync ------------------------------
(***************************************************************************)
(* The download loop of syncOutCoinV2 and its getCoinsByIndices goroutines *)
(* (incclient/coin_cache.go).                                              *)
(*                                                                         *)
(* The account's goroutine cuts the indices firstIndex..coinLength-1 into  *)
(* batches of BatchSize, keeps at most MaxGetCoinThreads goroutines at     *)
(* work, and collects their answers from statusChan, a channel buffered    *)
(* for MaxGetCoinThreads answers.  The first failed answer makes it return *)
(* at once; the goroutines still at work then finish on their own.         *)
(***************************************************************************)
EXTENDS Integers, Sequences, FiniteSets

CONSTANTS MaxLength,           \* bound on the number of coins on the chain
          BatchSize,           \* batchSize
          MaxGetCoinThreads

ASSUME SizesAssumption ==
    /\ MaxLength \in Nat
    /\ BatchSize \in Nat \ {0}
    /\ MaxGetCoinThreads \in Nat \ {0}

VARIABLES coinLength,     \* answer of GetOTACoinLengthByShard
          firstIndex,     \* currentIndex when the loop is entered
          owned,          \* indices of the coins that belong to the account
          pc,             \* "loop", or how the loop was left: "done", "failed"
          currentIndex,
          numWorking,
          doneCount,
          res,            \* the indices in res.Data
          fetching,       \* batches whose goroutine awaits the full node
          sending,        \* statuses whose goroutine is at statusChan <- status
          statusChan,
          merged          \* history: the batches merged into res

vars == <<coinLength, firstIndex, owned, pc, currentIndex, numWorking,
          doneCount, res, fetching, sending, statusChan, merged>>

input == <<coinLength, firstIndex, owned>>

Batch == [from : Nat, to : Nat]

\* getCoinStatus: err is nil exactly when ok.
Status == [batch : Batch, ok : BOOLEAN, data : SUBSET Nat]

Indices(b) == b.from .. b.to

\* Mutant of Batches: the division rounds down.
BatchesFloor(n) == n \div BatchSize

\* math.Ceil(float64(n) / float64(batchSize))
Batches(n) == (n + BatchSize - 1) \div BatchSize

numThreads == Batches(coinLength - firstIndex)

Init ==
    /\ coinLength \in 1..MaxLength
    /\ firstIndex \in 0..(coinLength - 1)
    /\ owned \in SUBSET (firstIndex .. coinLength - 1)
    /\ pc = "loop"
    /\ currentIndex = firstIndex
    /\ numWorking = 0
    /\ doneCount = 0
    /\ res = {}
    /\ fetching = {}
    /\ sending = {}
    /\ statusChan = <<>>
    /\ merged = {}

-----------------------------------------------------------------------------

nextIndex ==
    LET next == currentIndex + BatchSize
    IN  IF next > coinLength THEN coinLength ELSE next

\* Mutant of NewBatch: idxList holds nextIndex too.
NewBatchInclusive == [from |-> currentIndex, to |-> nextIndex]

NewBatch == [from |-> currentIndex, to |-> nextIndex - 1]

\* Mutant of MayStart: one goroutine too many.
MayStartOneMore ==
    statusChan = <<>> /\ numWorking <= MaxGetCoinThreads /\ currentIndex < coinLength

\* select, default case: the channel is empty.
MayStart ==
    statusChan = <<>> /\ numWorking < MaxGetCoinThreads /\ currentIndex < coinLength

Spawn ==
    /\ pc = "loop"
    /\ MayStart
    /\ fetching' = fetching \cup {NewBatch}
    /\ currentIndex' = nextIndex
    /\ numWorking' = numWorking + 1
    /\ UNCHANGED <<input, pc, doneCount, res, sending, statusChan, merged>>

\* The default case has nothing to start.
Spin == pc = "loop" /\ statusChan = <<>> /\ ~MayStart /\ UNCHANGED vars

\* Mutant of AllReceived: an answer too few.
AllButOneReceived(count) == count >= numThreads - 1

\* The test that ends the loop.
AllReceived(count) == count = numThreads

\* select, receive case with a nil error; then the test that ends the loop.
ReceiveData ==
    /\ pc = "loop"
    /\ statusChan # <<>>
    /\ Head(statusChan).ok
    /\ res' = res \cup Head(statusChan).data
    /\ merged' = merged \cup {Head(statusChan).batch}
    /\ doneCount' = doneCount + 1
    /\ numWorking' = numWorking - 1
    /\ statusChan' = Tail(statusChan)
    /\ pc' = IF AllReceived(doneCount') THEN "done" ELSE "loop"
    /\ UNCHANGED <<input, currentIndex, fetching, sending>>

ReceiveError ==
    /\ pc = "loop"
    /\ statusChan # <<>>
    /\ ~Head(statusChan).ok
    /\ statusChan' = Tail(statusChan)
    /\ pc' = "failed"
    /\ UNCHANGED <<input, currentIndex, numWorking, doneCount, res, fetching,
                   sending, merged>>

-----------------------------------------------------------------------------

\* GetOTACoinsByIndices answers; the goroutine keeps the coins that belong to
\* the account's key set.
FetchAnswered(b) ==
    /\ b \in fetching
    /\ fetching' = fetching \ {b}
    /\ sending' = sending \cup
           {[batch |-> b, ok |-> TRUE, data |-> owned \cap Indices(b)]}
    /\ UNCHANGED <<input, pc, currentIndex, numWorking, doneCount, res,
                   statusChan, merged>>

FetchFailed(b) ==
    /\ b \in fetching
    /\ fetching' = fetching \ {b}
    /\ sending' = sending \cup {[batch |-> b, ok |-> FALSE, data |-> {}]}
    /\ UNCHANGED <<input, pc, currentIndex, numWorking, doneCount, res,
                   statusChan, merged>>

\* Mutant of HasRoom: statusChan is not buffered.
HasReader == pc = "loop" /\ statusChan = <<>>

HasRoom == Len(statusChan) < MaxGetCoinThreads

\* statusChan <- status, after which the goroutine ends.
Send(s) ==
    /\ s \in sending
    /\ HasRoom
    /\ sending' = sending \ {s}
    /\ statusChan' = Append(statusChan, s)
    /\ UNCHANGED <<input, pc, currentIndex, numWorking, doneCount, res,
                   fetching, merged>>

\* syncOutCoinV2 has left the loop.
Finished == pc # "loop" /\ UNCHANGED vars

Main == Spawn \/ Spin \/ ReceiveData \/ ReceiveError

Goroutine == \/ \E b \in fetching : FetchAnswered(b) \/ FetchFailed(b)
             \/ \E s \in sending : Send(s)

Next == Main \/ Goroutine \/ Finished

Spec == Init /\ [][Next]_vars

\* The scheduler runs every goroutine that can run, and the HTTP client's
\* requests end, with an answer or an error.
FairSpec == Spec /\ WF_vars(Main) /\ WF_vars(Goroutine)

-----------------------------------------------------------------------------

Queued == {statusChan[k] : k \in DOMAIN statusChan}

\* Batches handed to a goroutine whose answer has not been read yet.
Pending == fetching \cup {s.batch : s \in sending \cup Queued}

TypeOK ==
    /\ coinLength \in Nat
    /\ firstIndex \in 0..coinLength
    /\ owned \subseteq firstIndex .. coinLength - 1
    /\ pc \in {"loop", "done", "failed"}
    /\ currentIndex \in firstIndex..coinLength
    /\ numWorking \in Nat
    /\ doneCount \in Nat
    /\ res \subseteq owned
    /\ fetching \subseteq Batch
    /\ sending \subseteq Status
    /\ statusChan \in Seq(Status)
    /\ merged \subseteq Batch

\* When the loop ends without an error, every coin of the account in the
\* requested range has been collected, none of another account, although the
\* loop only counts answers and never compares indices.
DoneMeansComplete == pc = "done" => res = owned

\* No index is requested twice and none below currentIndex is left out: the
\* pending and the merged batches are disjoint and cover exactly the indices
\* handed out so far (until an error makes the loop drop an answer).
BatchesPartition ==
    /\ \A b, c \in Pending \cup merged : b # c => Indices(b) \cap Indices(c) = {}
    /\ pc # "failed" =>
           UNION {Indices(b) : b \in Pending \cup merged} = firstIndex .. currentIndex - 1

\* A goroutine that has its answer is never blocked on statusChan, also when
\* the loop has returned on an error and nobody reads the channel any more.
NoGoroutineBlocks == sending # {} => Len(statusChan) < MaxGetCoinThreads

\* No goroutine of the download lives for ever, also when the loop has
\* returned on an error.
GoroutinesEnd == <>[](fetching = {} /\ sending = {})

\* Seen from its caller the loop is one atomic fetch: res counts only when
\* the loop is done.
Abstract == INSTANCE CoinFetch WITH
    wanted <- owned, status <- pc, result <- IF pc = "done" THEN res ELSE {}

ImplementsCoinFetch == Abstract!Spec
=============================================================================
