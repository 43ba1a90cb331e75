--------------------------- MODULE CoinSyncProofs ---------------------------
(***************************************************************************)
(* The download loop of syncOutCoinV2 is correct for every chain length,   *)
(* batch size and number of threads.  The loop only counts answers; the    *)
(* inductive invariant relates the counters to the batches they stand for. *)
(***************************************************************************)
EXTENDS CoinSync, FiniteSetTheorems, SequenceTheorems, TLAPS

Cover == Pending \cup merged

\* Every batch handed out is non-empty and lies below currentIndex, and a
\* batch is with one goroutine in one state only.
BatchInv ==
    /\ \A b \in Cover : /\ b \in Batch
                        /\ firstIndex <= b.from
                        /\ b.from <= b.to
                        /\ b.to < currentIndex
    /\ \A s \in sending : s.batch \notin fetching

\* numWorking counts the goroutines and the unread answers; the answer that
\* ended the loop with an error is counted although it has been read.
CountInv ==
    /\ IsFiniteSet(fetching) /\ IsFiniteSet(sending)
    /\ numWorking <= MaxGetCoinThreads
    /\ Cardinality(fetching) + Cardinality(sending) + Len(statusChan)
          + (IF pc = "failed" THEN 1 ELSE 0) = numWorking

\* Batches answered, under way and still to come make up numThreads.
ProgressInv ==
    /\ doneCount + numWorking + Batches(coinLength - currentIndex) = numThreads
    /\ pc = "done" => numWorking = 0 /\ currentIndex = coinLength

\* Answers hold the account's coins of their batch, res those of all merged.
DataInv ==
    /\ \A s \in sending \cup Queued :
           s.ok => s.data = owned \cap Indices(s.batch)
    /\ res = owned \cap UNION {Indices(b) : b \in merged}

IInv == /\ TypeOK
        /\ BatchInv /\ CountInv /\ ProgressInv /\ DataInv
        /\ BatchesPartition

-----------------------------------------------------------------------------

\* Handing out one batch leaves one batch less to come, and none is to come
\* exactly when no index is left.
LEMMA BatchesStep ==
    ASSUME NEW d \in Nat
    PROVE  /\ Batches(d) \in Nat
           /\ Batches(d) = 0 <=> d = 0
           /\ d > BatchSize => Batches(d) = 1 + Batches(d - BatchSize)
           /\ d > 0 /\ d <= BatchSize => Batches(d) = 1
<1> USE SizesAssumption DEF Batches
<1>1. (d + BatchSize - 1) \div BatchSize \in Nat
      OBVIOUS
<1>2. ((d + BatchSize - 1) \div BatchSize = 0) <=> d = 0
      OBVIOUS
<1>3. d > BatchSize => (d + BatchSize - 1) \div BatchSize
                       = 1 + ((d - BatchSize) + BatchSize - 1) \div BatchSize
      OBVIOUS
<1>4. d > 0 /\ d <= BatchSize => (d + BatchSize - 1) \div BatchSize = 1
      OBVIOUS
<1> QED
    BY <1>1, <1>2, <1>3, <1>4

\* What sending to and receiving from the channel does to its contents.
LEMMA QueueSend ==
    ASSUME NEW q \in Seq(Status), NEW s \in Status
    PROVE  /\ Append(q, s) \in Seq(Status)
           /\ Len(Append(q, s)) = Len(q) + 1
           /\ {Append(q, s)[k] : k \in DOMAIN Append(q, s)}
              = {q[k] : k \in DOMAIN q} \cup {s}
<1>1. /\ Append(q, s) \in Seq(Status)
      /\ Len(Append(q, s)) = Len(q) + 1
      /\ \A k \in 1..Len(q) : Append(q, s)[k] = q[k]
      /\ Append(q, s)[Len(q) + 1] = s
      BY AppendProperties
<1>2. /\ Len(q) \in Nat
      /\ DOMAIN q = 1..Len(q)
      /\ DOMAIN Append(q, s) = 1..(Len(q) + 1)
      BY <1>1, LenProperties
<1> QED
    BY <1>1, <1>2

\* What receiving takes out of the channel.
LEMMA QueueReceive ==
    ASSUME NEW q \in Seq(Status), q # <<>>
    PROVE  /\ Head(q) \in Status
           /\ Tail(q) \in Seq(Status)
           /\ Len(Tail(q)) = Len(q) - 1
           /\ {q[k] : k \in DOMAIN q}
              = {Tail(q)[k] : k \in DOMAIN Tail(q)} \cup {Head(q)}
<1>1. /\ Head(q) \in Status
      /\ Tail(q) \in Seq(Status)
      /\ Len(Tail(q)) = Len(q) - 1
      /\ \A k \in 1..Len(Tail(q)) : Tail(q)[k] = q[k + 1]
      BY HeadTailProperties
<1>2. /\ Len(q) \in Nat /\ Len(q) >= 1
      /\ DOMAIN q = 1..Len(q)
      /\ DOMAIN Tail(q) = 1..(Len(q) - 1)
      /\ Head(q) = q[1]
      BY <1>1, LenProperties, EmptySeq
<1>3. \A k \in 1..Len(q) : k = 1 \/ (k - 1 \in 1..(Len(q) - 1) /\ q[k] = Tail(q)[k - 1])
      BY <1>1, <1>2
<1>4. \A x : x \in {q[k] : k \in DOMAIN q}
             => x \in {Tail(q)[k] : k \in DOMAIN Tail(q)} \cup {Head(q)}
      BY ZenonT(60), <1>2, <1>3
<1>5. \A k \in 1..(Len(q) - 1) : k + 1 \in 1..Len(q) /\ Tail(q)[k] = q[k + 1]
      BY <1>1, <1>2
<1>6. \A x : x \in {Tail(q)[k] : k \in DOMAIN Tail(q)} \cup {Head(q)}
             => x \in {q[k] : k \in DOMAIN q}
      BY <1>2, <1>5
<1> QED
    BY <1>1, <1>4, <1>6

\* The initial state satisfies the inductive invariant.
LEMMA InitIInv == Init => IInv
<1> SUFFICES ASSUME Init PROVE IInv
    OBVIOUS
<1> USE SizesAssumption DEF Init
<1>1. TypeOK
      BY DEF TypeOK
<1>2. Queued = {} /\ Pending = {} /\ Cover = {}
      BY DEF Queued, Pending, Cover
<1>3. CountInv
      BY FS_EmptySet DEF CountInv
<1>4. ProgressInv
  <2>1. Batches(coinLength - firstIndex) \in Nat
        BY BatchesStep
  <2> QED
      BY <2>1 DEF ProgressInv, numThreads
<1>5. DataInv
      BY <1>2 DEF DataInv
<1>6. BatchesPartition
      BY <1>2 DEF BatchesPartition
<1> QED
    BY <1>1, <1>2, <1>3, <1>4, <1>5, <1>6 DEF IInv, BatchInv

\* Starting a goroutine hands out the next batch.
LEMMA SpawnStep == IInv /\ Spawn => IInv'
<1> SUFFICES ASSUME IInv, Spawn PROVE IInv'
    OBVIOUS
<1> USE SizesAssumption DEF IInv
<1> DEFINE b == [from |-> currentIndex, to |-> nextIndex - 1]
<1>1. /\ fetching' = fetching \cup {b}
      /\ currentIndex' = nextIndex
      /\ numWorking' = numWorking + 1
      /\ pc = "loop" /\ numWorking < MaxGetCoinThreads
      /\ UNCHANGED <<input, pc, doneCount, res, sending, statusChan, merged>>
      BY DEF Spawn, MayStart, NewBatch
<1>2. /\ coinLength \in Nat /\ firstIndex \in Nat /\ currentIndex \in Nat
      /\ firstIndex <= currentIndex /\ currentIndex < coinLength
      /\ numWorking \in Nat /\ doneCount \in Nat
      BY DEF TypeOK, Spawn, MayStart
<1>3. /\ nextIndex \in Nat /\ currentIndex < nextIndex /\ nextIndex <= coinLength
      BY <1>2 DEF nextIndex
<1>4. /\ b \in Batch /\ b.from = currentIndex /\ b.to = nextIndex - 1
      /\ Indices(b) = currentIndex .. nextIndex - 1
      BY <1>2, <1>3 DEF Batch, Indices
<1> HIDE DEF b
<1>5. UNCHANGED <<coinLength, firstIndex, owned>>
      BY <1>1 DEF input
<1>6. TypeOK'
      BY <1>1, <1>2, <1>3, <1>4, <1>5 DEF TypeOK
<1>7. /\ Queued' = Queued
      /\ Cover' = Cover \cup {b}
      BY <1>1 DEF Queued, Cover, Pending
<1>8. b \notin Cover
      BY <1>2, <1>4 DEF BatchInv, Batch
<1>9. BatchInv'
  <2>1. \A s \in sending : s.batch \notin fetching'
        BY <1>1, <1>8 DEF BatchInv, Cover, Pending
  <2>2. \A c \in Cover : c.to \in Int /\ c.to < nextIndex
        BY <1>2, <1>3 DEF BatchInv, Batch
  <2> QED
      BY <1>1, <1>2, <1>3, <1>4, <1>5, <1>7, <2>1, <2>2 DEF BatchInv
<1>10. CountInv'
  <2>1. b \notin fetching
        BY <1>8 DEF Cover, Pending
  <2>2. /\ IsFiniteSet(fetching')
        /\ Cardinality(fetching') = Cardinality(fetching) + 1
        BY <1>1, <2>1, FS_AddElement DEF CountInv
  <2>3. /\ Cardinality(fetching) \in Nat /\ Cardinality(sending) \in Nat
        /\ Len(statusChan) \in Nat
        BY FS_CardinalityType DEF CountInv, TypeOK
  <2> QED
      BY <1>1, <1>2, <2>2, <2>3 DEF CountInv
<1>11. ProgressInv'
  <2>1. /\ Batches(coinLength - currentIndex) \in Nat
        /\ Batches(coinLength - nextIndex) \in Nat
        /\ Batches(coinLength - firstIndex) \in Nat
        /\ Batches(coinLength - currentIndex) = 1 + Batches(coinLength - nextIndex)
    <3>1. coinLength - currentIndex \in Nat /\ coinLength - nextIndex \in Nat
          /\ coinLength - firstIndex \in Nat /\ coinLength - currentIndex > 0
          BY <1>2, <1>3
    <3>2. CASE currentIndex + BatchSize >= coinLength
      <4>1. nextIndex = coinLength /\ coinLength - nextIndex = 0
            BY <1>2, <3>2 DEF nextIndex
      <4>2. coinLength - currentIndex <= BatchSize
            BY <1>2, <3>2
      <4>3. Batches(0) = 0
            BY BatchesStep
      <4> QED
          BY <3>1, <4>1, <4>2, <4>3, BatchesStep
    <3>3. CASE currentIndex + BatchSize < coinLength
      <4>1. nextIndex = currentIndex + BatchSize
            BY <1>2, <3>3 DEF nextIndex
      <4>2. /\ coinLength - currentIndex > BatchSize
            /\ (coinLength - currentIndex) - BatchSize = coinLength - nextIndex
            BY <1>2, <3>3, <4>1
      <4> QED
          BY <3>1, <4>2, BatchesStep
    <3> QED
        BY <1>2, <3>2, <3>3
  <2> QED
      BY <1>1, <1>2, <1>5, <2>1 DEF ProgressInv, numThreads, Batches
<1>12. DataInv'
      BY <1>1, <1>5, <1>7 DEF DataInv
<1>13. BatchesPartition'
  <2>1. \A c \in Cover : Indices(c) \subseteq firstIndex .. currentIndex - 1
        BY <1>2 DEF BatchInv, Indices, Batch
  <2>2. \A c \in Cover : Indices(c) \cap Indices(b) = {}
        BY <1>2, <1>4, <2>1
  <2>3. UNION {Indices(c) : c \in Cover} = firstIndex .. currentIndex - 1
        BY <1>1 DEF BatchesPartition, Cover
  <2>4. UNION {Indices(c) : c \in Cover'} = firstIndex .. nextIndex - 1
    <3>1. UNION {Indices(c) : c \in Cover'}
          = (UNION {Indices(c) : c \in Cover}) \cup Indices(b)
          BY <1>7
    <3> QED
        BY SMTT(40), <1>2, <1>3, <1>4, <2>3, <3>1
  <2> QED
      BY <1>1, <1>5, <1>7, <2>2, <2>4 DEF BatchesPartition, Cover
<1> QED
    BY <1>6, <1>9, <1>10, <1>11, <1>12, <1>13

\* Reading an answer moves its batch from pending to merged.
LEMMA ReceiveDataStep == IInv /\ ReceiveData => IInv'
<1> SUFFICES ASSUME IInv, ReceiveData PROVE IInv'
    OBVIOUS
<1> USE SizesAssumption DEF IInv
<1> DEFINE h == Head(statusChan)
<1>1. /\ pc = "loop" /\ h.ok
      /\ res' = res \cup h.data
      /\ merged' = merged \cup {h.batch}
      /\ doneCount' = doneCount + 1
      /\ numWorking' = numWorking - 1
      /\ statusChan' = Tail(statusChan)
      /\ pc' = IF doneCount' = numThreads THEN "done" ELSE "loop"
      /\ UNCHANGED <<input, currentIndex, fetching, sending>>
      BY DEF ReceiveData, AllReceived
<1>2. /\ h \in Status
      /\ statusChan' \in Seq(Status)
      /\ Len(statusChan') = Len(statusChan) - 1
      /\ Queued = Queued' \cup {h}
  <2>1. statusChan \in Seq(Status) /\ statusChan # <<>>
        BY DEF ReceiveData, AllReceived, TypeOK
  <2>2. /\ Head(statusChan) \in Status
        /\ Tail(statusChan) \in Seq(Status)
        /\ Len(Tail(statusChan)) = Len(statusChan) - 1
        /\ {statusChan[k] : k \in DOMAIN statusChan}
           = {Tail(statusChan)[k] : k \in DOMAIN Tail(statusChan)} \cup {Head(statusChan)}
        BY <2>1, QueueReceive
  <2> QED
      BY <1>1, <2>2 DEF Queued
<1> HIDE DEF h
<1>3. UNCHANGED <<coinLength, firstIndex, owned>>
      BY <1>1 DEF input
<1>4. Cover' = Cover
      BY <1>1, <1>2 DEF Cover, Pending
<1>5. h.data = owned \cap Indices(h.batch)
      BY <1>1, <1>2 DEF DataInv
<1>6. /\ Cardinality(fetching) \in Nat /\ Cardinality(sending) \in Nat
      /\ Len(statusChan) \in Nat /\ Len(statusChan') \in Nat
      /\ numWorking \in Nat /\ doneCount \in Nat
      /\ coinLength \in Nat /\ currentIndex \in Nat /\ firstIndex \in Nat
      /\ currentIndex <= coinLength /\ firstIndex <= coinLength
      BY <1>2, FS_CardinalityType DEF CountInv, TypeOK
<1>7. /\ numWorking' \in Nat
      /\ Cardinality(fetching) + Cardinality(sending) + Len(statusChan) = numWorking
      /\ numWorking' <= MaxGetCoinThreads
      BY <1>1, <1>2, <1>6 DEF CountInv
<1>8. CountInv'
  <2>1. pc' # "failed"
        BY <1>1
  <2>2. Cardinality(fetching) + Cardinality(sending) + Len(statusChan') + 0 = numWorking'
        BY SMTT(40), <1>1, <1>2, <1>6, <1>7
  <2> QED
      BY <1>1, <1>7, <2>1, <2>2 DEF CountInv
<1>9. h.batch \in Batch
      BY <1>2 DEF Status
<1>10. TypeOK'
      BY SMTT(40), <1>1, <1>2, <1>3, <1>5, <1>6, <1>7, <1>9 DEF TypeOK
<1>11. BatchInv'
      BY <1>1, <1>3, <1>4 DEF BatchInv
<1>12. ProgressInv'
  <2>1. /\ Batches(coinLength - currentIndex) \in Nat
        /\ Batches(coinLength - currentIndex) = 0 <=> currentIndex = coinLength
        /\ numThreads \in Nat
    <3>1. coinLength - currentIndex \in Nat /\ coinLength - firstIndex \in Nat
          BY <1>6
    <3>2. coinLength - currentIndex = 0 <=> currentIndex = coinLength
          BY <1>6
    <3>3. /\ Batches(coinLength - currentIndex) \in Nat
          /\ Batches(coinLength - currentIndex) = 0 <=> coinLength - currentIndex = 0
          /\ Batches(coinLength - firstIndex) \in Nat
          BY <3>1, BatchesStep
    <3> QED
        BY <3>2, <3>3 DEF numThreads
  <2>2. /\ numThreads' = numThreads
        /\ Batches(coinLength - currentIndex)' = Batches(coinLength - currentIndex)
        BY <1>1, <1>3 DEF numThreads, Batches
  <2>3. doneCount' + numWorking' + Batches(coinLength - currentIndex) = numThreads
        BY <1>1, <1>6, <2>1 DEF ProgressInv
  <2>4. doneCount' = numThreads => numWorking' = 0 /\ currentIndex = coinLength
        BY <1>1, <1>6, <1>7, <2>1, <2>3
  <2> QED
      BY <1>1, <1>3, <2>2, <2>3, <2>4 DEF ProgressInv
<1>13. DataInv'
  <2>1. UNION {Indices(b) : b \in merged'}
        = (UNION {Indices(b) : b \in merged}) \cup Indices(h.batch)
        BY <1>1
  <2> QED
      BY <1>1, <1>2, <1>3, <1>5, <2>1 DEF DataInv
<1>14. BatchesPartition'
      BY <1>1, <1>3, <1>4 DEF BatchesPartition, Cover
<1> QED
    BY <1>8, <1>10, <1>11, <1>12, <1>13, <1>14

\* Reading a failed answer drops its batch and ends the loop.
LEMMA ReceiveErrorStep == IInv /\ ReceiveError => IInv'
<1> SUFFICES ASSUME IInv, ReceiveError PROVE IInv'
    OBVIOUS
<1> USE DEF IInv
<1>1. /\ pc = "loop" /\ pc' = "failed"
      /\ statusChan' = Tail(statusChan)
      /\ UNCHANGED <<input, currentIndex, numWorking, doneCount, res, fetching,
                     sending, merged>>
      BY DEF ReceiveError
<1>2. /\ statusChan' \in Seq(Status)
      /\ Len(statusChan') = Len(statusChan) - 1
      /\ Queued' \subseteq Queued
      BY <1>1, QueueReceive DEF ReceiveError, TypeOK, Queued
<1>3. UNCHANGED <<coinLength, firstIndex, owned>>
      BY <1>1 DEF input
<1>4. Cover' \subseteq Cover
      BY <1>1, <1>2 DEF Cover, Pending
<1>5. TypeOK'
      BY <1>1, <1>2, <1>3 DEF TypeOK
<1>6. BatchInv'
      BY <1>1, <1>3, <1>4 DEF BatchInv
<1>7. CountInv'
  <2>1. /\ Cardinality(fetching) \in Nat /\ Cardinality(sending) \in Nat
        /\ Len(statusChan) \in Nat
        BY FS_CardinalityType DEF CountInv, TypeOK
  <2> QED
      BY <1>1, <1>2, <2>1 DEF CountInv
<1>8. ProgressInv'
      BY <1>1, <1>3 DEF ProgressInv, numThreads, Batches
<1>9. DataInv'
      BY <1>1, <1>2, <1>3 DEF DataInv
<1>10. BatchesPartition'
      BY <1>1, <1>4 DEF BatchesPartition, Cover
<1> QED
    BY <1>5, <1>6, <1>7, <1>8, <1>9, <1>10

\* A goroutine that has its answer, or its error, keeps its batch.
LEMMA FetchStep ==
    ASSUME IInv, NEW b \in fetching, FetchAnswered(b) \/ FetchFailed(b)
    PROVE  IInv'
<1> USE DEF IInv
<1>1. PICK s \in [batch : {b}, ok : BOOLEAN, data : {owned \cap Indices(b), {}}] :
          /\ s.ok => s.data = owned \cap Indices(b)
          /\ sending' = sending \cup {s}
      BY DEF FetchAnswered, FetchFailed
<1>2. /\ fetching' = fetching \ {b}
      /\ UNCHANGED <<input, pc, currentIndex, numWorking, doneCount, res,
                     statusChan, merged>>
      BY DEF FetchAnswered, FetchFailed
<1>3. UNCHANGED <<coinLength, firstIndex, owned>>
      BY <1>2 DEF input
<1>4. b \in Batch /\ owned \subseteq Nat
      BY DEF TypeOK
<1>5. s.batch = b /\ s \in Status
      BY <1>4 DEF Status
<1>6. Queued' = Queued /\ Cover' = Cover
      BY <1>1, <1>2, <1>5 DEF Queued, Cover, Pending
<1>7. s \notin sending
      BY <1>5 DEF BatchInv
<1>8. TypeOK'
      BY <1>1, <1>2, <1>3, <1>5 DEF TypeOK
<1>9. BatchInv'
      BY <1>1, <1>2, <1>3, <1>5, <1>6 DEF BatchInv
<1>10. CountInv'
  <2>1. /\ Cardinality(fetching) \in Nat /\ Cardinality(sending) \in Nat
        /\ Len(statusChan) \in Nat
        BY FS_CardinalityType DEF CountInv, TypeOK
  <2>2. /\ IsFiniteSet(fetching')
        /\ Cardinality(fetching') = Cardinality(fetching) - 1
        BY <1>2, FS_RemoveElement DEF CountInv
  <2>3. /\ IsFiniteSet(sending')
        /\ Cardinality(sending') = Cardinality(sending) + 1
        BY <1>1, <1>7, FS_AddElement DEF CountInv
  <2> QED
      BY <1>2, <2>1, <2>2, <2>3 DEF CountInv
<1>11. ProgressInv'
      BY <1>2, <1>3 DEF ProgressInv, numThreads, Batches
<1>12. DataInv'
      BY <1>1, <1>2, <1>3, <1>5, <1>6 DEF DataInv
<1>13. BatchesPartition'
      BY <1>2, <1>3, <1>6 DEF BatchesPartition, Cover
<1> QED
    BY <1>8, <1>9, <1>10, <1>11, <1>12, <1>13

\* Sending moves an answer into the channel.
LEMMA SendStep ==
    ASSUME IInv, NEW s \in sending, Send(s)
    PROVE  IInv'
<1> USE DEF IInv
<1>1. /\ sending' = sending \ {s}
      /\ statusChan' = Append(statusChan, s)
      /\ UNCHANGED <<input, pc, currentIndex, numWorking, doneCount, res,
                     fetching, merged>>
      BY DEF Send
<1>2. UNCHANGED <<coinLength, firstIndex, owned>>
      BY <1>1 DEF input
<1>3. /\ s \in Status
      /\ statusChan' \in Seq(Status)
      /\ Len(statusChan') = Len(statusChan) + 1
      /\ Queued' = Queued \cup {s}
      BY <1>1, QueueSend DEF TypeOK, Queued
<1>4. sending' \cup Queued' = sending \cup Queued
      BY <1>1, <1>3
<1>5. Cover' = Cover
      BY <1>1, <1>4 DEF Cover, Pending
<1>6. TypeOK'
      BY <1>1, <1>2, <1>3 DEF TypeOK
<1>7. BatchInv'
      BY <1>1, <1>2, <1>5 DEF BatchInv
<1>8. CountInv'
  <2>1. /\ Cardinality(fetching) \in Nat /\ Cardinality(sending) \in Nat
        /\ Len(statusChan) \in Nat
        BY FS_CardinalityType DEF CountInv, TypeOK
  <2>2. /\ IsFiniteSet(sending')
        /\ Cardinality(sending') = Cardinality(sending) - 1
        BY <1>1, FS_RemoveElement DEF CountInv
  <2> QED
      BY <1>1, <1>3, <2>1, <2>2 DEF CountInv
<1>9. ProgressInv'
      BY <1>1, <1>2 DEF ProgressInv, numThreads, Batches
<1>10. DataInv'
      BY <1>1, <1>2, <1>4 DEF DataInv
<1>11. BatchesPartition'
      BY <1>1, <1>2, <1>5 DEF BatchesPartition, Cover
<1> QED
    BY <1>6, <1>7, <1>8, <1>9, <1>10, <1>11

\* Every reachable state satisfies the inductive invariant.
LEMMA SpecIInv == Spec => []IInv
<1>1. IInv /\ UNCHANGED vars => IInv'
      BY DEF IInv, vars, TypeOK, BatchInv, CountInv, ProgressInv, DataInv,
             BatchesPartition, Cover, Pending, Queued, numThreads, Batches
<1>2. IInv /\ [Next]_vars => IInv'
      BY <1>1, SpawnStep, ReceiveDataStep, ReceiveErrorStep, FetchStep, SendStep
      DEF Next, Main, Goroutine, Finished, Spin
<1> QED
    BY InitIInv, <1>2, PTL DEF Spec

-----------------------------------------------------------------------------

\* The loop keeps its types: currentIndex never passes coinLength and
\* numWorking never goes below zero.
THEOREM TypeCorrect == Spec => []TypeOK
BY SpecIInv, PTL DEF IInv

\* Indices are handed out exactly once, whatever the batch size.
THEOREM EachIndexOnce == Spec => []BatchesPartition
BY SpecIInv, PTL DEF IInv

\* In an invariant state in which the loop is done nothing is pending.
LEMMA DoneComplete == IInv => DoneMeansComplete
<1> SUFFICES ASSUME IInv, pc = "done" PROVE res = owned
    BY DEF DoneMeansComplete
<1> USE DEF IInv
<1>1. numWorking = 0 /\ currentIndex = coinLength
      BY DEF ProgressInv
<1>2. /\ Cardinality(fetching) \in Nat /\ Cardinality(sending) \in Nat
      /\ Len(statusChan) \in Nat
      BY FS_CardinalityType DEF CountInv, TypeOK
<1>3. Cardinality(fetching) = 0 /\ Cardinality(sending) = 0 /\ Len(statusChan) = 0
      BY <1>1, <1>2 DEF CountInv
<1>4. fetching = {} /\ sending = {}
      BY <1>3, FS_EmptySet DEF CountInv
<1>5. Queued = {}
      BY <1>3, LenProperties DEF Queued, TypeOK
<1>6. UNION {Indices(b) : b \in merged} = firstIndex .. coinLength - 1
      BY <1>1, <1>4, <1>5 DEF BatchesPartition, Pending
<1> QED
    BY <1>6 DEF DataInv, TypeOK

\* A loop that ends without an error has collected every coin of the account.
THEOREM FetchComplete == Spec => []DoneMeansComplete
BY DoneComplete, SpecIInv, PTL

\* No goroutine is ever stuck on the channel, also after an early return.
THEOREM GoroutinesNeverBlock == Spec => []NoGoroutineBlocks
<1>1. IInv => NoGoroutineBlocks
  <2> SUFFICES ASSUME IInv, sending # {} PROVE Len(statusChan) < MaxGetCoinThreads
      BY DEF NoGoroutineBlocks
  <2> USE SizesAssumption DEF IInv
  <2>1. /\ Cardinality(fetching) \in Nat /\ Cardinality(sending) \in Nat
        /\ Len(statusChan) \in Nat /\ numWorking \in Nat
        BY FS_CardinalityType DEF CountInv, TypeOK
  <2>2. Cardinality(sending) # 0
        BY FS_EmptySet DEF CountInv
  <2> QED
      BY <2>1, <2>2 DEF CountInv
<1> QED
    BY <1>1, SpecIInv, PTL

\* The concurrent loop implements the atomic fetch its caller relies on.
THEOREM Refinement == Spec => ImplementsCoinFetch
<1> DEFINE delivered == IF pc = "done" THEN res ELSE {}
<1>1. Init => Abstract!Init
      BY DEF Init, Abstract!Init
<1>2. DoneMeansComplete' /\ [Next]_vars =>
          [Abstract!Deliver \/ Abstract!Fail]_<<owned, pc, delivered>>
  <2> SUFFICES ASSUME DoneMeansComplete', [Next]_vars
               PROVE  [Abstract!Deliver \/ Abstract!Fail]_<<owned, pc, delivered>>
      OBVIOUS
  <2>1. CASE ReceiveData
    <3>1. pc = "loop" /\ owned' = owned /\ pc' \in {"done", "loop"}
          BY <2>1 DEF ReceiveData, AllReceived, input
    <3>2. pc' = "done" => res' = owned
          BY <3>1 DEF DoneMeansComplete
    <3> QED
        BY <3>1, <3>2 DEF Abstract!Deliver
  <2>2. CASE ReceiveError
        BY <2>2 DEF ReceiveError, input, Abstract!Fail
  <2>3. CASE Spawn \/ Spin \/ Goroutine \/ Finished \/ UNCHANGED vars
        BY <2>3 DEF Spawn, Spin, Goroutine, FetchAnswered, FetchFailed, Send,
            Finished, vars, input
  <2> QED
      BY <2>1, <2>2, <2>3 DEF Next, Main
<1> QED
    BY <1>1, <1>2, FetchComplete, PTL DEF Spec, ImplementsCoinFetch, Abstract!Spec
=============================================================================
