-------------------------- MODULE BatchRoundsProofs --------------------------
(***************************************************************************)
(* Rounds of consolidation and conversion do not get mixed up, for any     *)
(* number of coins, threads, faults and rounds: no worker is at work when  *)
(* a round begins, reports are counted once, no coin is given to a worker  *)
(* while another one counts on it, and there is a fee coin for each worker.*)
(***************************************************************************)
EXTENDS BatchRounds, InductionLemmas, SequenceTheorems

\* What the types leave open.
IdsInv ==
    /\ IsFiniteSet(coins) /\ IsFiniteSet(rest) /\ IsFiniteSet(prv) /\ IsFiniteSet(feeList)
    /\ DOMAIN value \subseteq Nat \ {0} /\ prv \subseteq Nat /\ nextId > 0
    /\ faults \in Nat
    /\ \A id \in feeList : id < nextId
    /\ \A w \in DOMAIN workers : \A id \in workers[w].ins \cup workers[w].fee : id < nextId
    /\ ~FeeInPRV => feeList = {} /\ \A w \in DOMAIN workers : workers[w].fee = {}
    /\ pc \in {"split", "listPRV"} => FeeInPRV

\* What the node and the list of hashes know of a worker agrees with where
\* the worker is; what is in a block is spent for good.
TxsInv ==
    /\ mempool \cap mined = {}
    /\ \A w \in mempool \cup mined : workers[w].at \notin {"start", "feeErr", "free"}
    /\ \A w \in DOMAIN workers : workers[w].at = "done" => w \in mined
    /\ \A w \in mined : workers[w].ins \cap coins = {} /\ workers[w].fee \cap prv = {}
    /\ Listed \subseteq mined \cap Ended
    /\ \A j, k \in DOMAIN txList : j # k /\ txList[j] # 0 => txList[j] # txList[k]

\* The rounds: workers of earlier ones have ended, and the counters count
\* the reports of the current one.
RoundInv ==
    ~ReportsTwice =>
        /\ \A w \in DOMAIN workers : workers[w].at \notin {"feeErr", "free"}
        /\ \A w \in DOMAIN workers : w < first => w \in Ended
        /\ pc \in {"start", "list"} \/ outcome \in {"ok", "allFailed"}
              => Ended = DOMAIN workers
        /\ pc \in {"split", "listPRV"} => first = Len(workers) + 1
        /\ pc \in {"split", "listPRV", "launch"} => numDone = 0 /\ numErr = 0
        /\ pc = "launch" => Ended \cap Round = {}
        /\ pc = "collect" => numDone + numErr = Cardinality(Ended \cap Round)

Sharing(w, v) == \/ workers[w].ins \cap workers[v].ins # {}
                 \/ workers[w].fee \cap workers[v].fee # {}

\* Who still counts on its inputs: the workers of the round and those whose
\* transaction is reported as done.
Holding == {w \in DOMAIN workers : w >= first \/ w \in Listed}

\* The coins of a worker that counts on them are given to no other worker.
ShareInv ==
    ~ReportsTwice =>
        /\ \A w, v \in DOMAIN workers : w < v /\ Sharing(w, v) => w \notin Holding
        /\ pc \in {"split", "listPRV", "launch"} =>
              \A w \in Holding : workers[w].ins \cap rest = {}
        /\ pc = "launch" => \A w \in Holding : workers[w].fee \cap feeList = {}

\* Without a fault nothing is mined after its worker has ended, so that the
\* fee coins there are when a round begins are there for its workers.
FeeInv ==
    faults = 0 =>
        /\ \A w \in mempool : workers[w].at \in {"err", "end"} => ~Spendable(w)
        /\ FeeInPRV /\ pc = "listPRV" => Cardinality(prv) >= NumThreads
        /\ FeeInPRV /\ pc = "launch" => Cardinality(feeList) + numWORKERS >= NumThreads
        /\ outcome # "noFeeCoin"

-----------------------------------------------------------------------------
(* Sums.                                                                   *)

\* The coin that is added last, and the sum of a set in terms of smaller ones.
Picked(s) == CHOOSE x \in s : TRUE
Summand(v, g, s) == IF s = {} THEN 0 ELSE v[Picked(s)] + g[s \ {Picked(s)}]

\* Total is the fold that FiniteSetsExt defines.
LEMMA TotalIs ==
    ASSUME NEW S
    PROVE  Total(S) = (CHOOSE g : g = [s \in SUBSET S |-> Summand(value, g, s)])[S]
BY DEF Total, MapThenSumSet, MapThenFoldSet, Summand, Picked

\* The fold exists: it is built up over the subsets of one size after another.
LEMMA SumExists ==
    ASSUME NEW v, NEW S, IsFiniteSet(S)
    PROVE  \E g : g = [s \in SUBSET S |-> Summand(v, g, s)]
<1> DEFINE Sub(n) == {s \in SUBSET S : Cardinality(s) <= n}
           P == {n \in Nat : \E g : g = [s \in Sub(n) |-> Summand(v, g, s)]}
<1>1. \A s \in SUBSET S : /\ IsFiniteSet(s) /\ Cardinality(s) \in Nat
                          /\ Cardinality(s) <= Cardinality(S)
                          /\ Cardinality(s) = 0 <=> s = {}
                          /\ s # {} => /\ s \ {Picked(s)} \in SUBSET S
                                       /\ Cardinality(s \ {Picked(s)}) = Cardinality(s) - 1
  <2> SUFFICES ASSUME NEW s \in SUBSET S
               PROVE  /\ IsFiniteSet(s) /\ Cardinality(s) \in Nat
                      /\ Cardinality(s) <= Cardinality(S)
                      /\ Cardinality(s) = 0 <=> s = {}
                      /\ s # {} => /\ s \ {Picked(s)} \in SUBSET S
                                   /\ Cardinality(s \ {Picked(s)}) = Cardinality(s) - 1
      OBVIOUS
  <2>1. IsFiniteSet(s) /\ Cardinality(s) <= Cardinality(S)
        BY FS_Subset
  <2>2. Cardinality(s) \in Nat /\ (Cardinality(s) = 0 <=> s = {})
        BY <2>1, FS_CardinalityType, FS_EmptySet
  <2>3. s # {} => Picked(s) \in s
        BY DEF Picked
  <2>4. s # {} => Cardinality(s \ {Picked(s)}) = Cardinality(s) - 1
        BY <2>1, <2>3, FS_RemoveElement
  <2> QED
      BY <2>1, <2>2, <2>4
<1>2. 0 \in P
  <2> DEFINE g == [s \in Sub(0) |-> 0]
  <2>1. ASSUME NEW s \in Sub(0) PROVE s = {}
    <3>1. s \in SUBSET S /\ Cardinality(s) <= 0
          OBVIOUS
    <3>2. Cardinality(s) \in Nat
          BY <1>1, <3>1
    <3>3. Cardinality(s) = 0
          BY <3>1, <3>2
    <3> QED
        BY <1>1, <3>1, <3>3
  <2>2. g = [s \in Sub(0) |-> Summand(v, g, s)]
        BY <2>1 DEF Summand
  <2> QED
      BY <2>2
<1>3. ASSUME NEW n \in Nat, n \in P PROVE n + 1 \in P
  <2>1. PICK g : g = [s \in Sub(n) |-> Summand(v, g, s)]
        BY <1>3
  <2> DEFINE h == [s \in Sub(n + 1) |-> Summand(v, g, s)]
  <2>2. ASSUME NEW s \in Sub(n + 1) PROVE Summand(v, h, s) = Summand(v, g, s)
    <3>1. CASE s = {}
          BY <3>1 DEF Summand
    <3>2. CASE s # {}
      <4> DEFINE t == s \ {Picked(s)}
      <4>1. t \in Sub(n) /\ t \in Sub(n + 1)
            BY <1>1, <3>2
      <4>2. h[t] = Summand(v, g, t)
            BY <4>1
      <4>3. g[t] = Summand(v, g, t)
            BY <2>1, <4>1
      <4> QED
          BY <4>2, <4>3 DEF Summand
    <3> QED
        BY <3>1, <3>2
  <2>3. h = [s \in Sub(n + 1) |-> Summand(v, h, s)]
        BY <2>2
  <2> HIDE DEF h
  <2> QED
      BY <2>3
<1>4. Cardinality(S) \in P
  <2>1. Nat \subseteq P
    <3> HIDE DEF P
    <3> QED
        BY <1>2, <1>3, SetInduction
  <2> QED
      BY <1>1, <2>1
<1>5. Sub(Cardinality(S)) = SUBSET S
      BY <1>1
<1> QED
    BY <1>4, <1>5

\* Amounts are naturals: what a batch of coins is worth in all.
LEMMA TotalIsNat ==
    ASSUME NEW S, IsFiniteSet(S), \A id \in S : value[id] \in Nat
    PROVE  Total(S) \in Nat
<1> DEFINE IsSum(g) == g = [s \in SUBSET S |-> Summand(value, g, s)]
           g == CHOOSE g : IsSum(g)
           Bad == {s \in SUBSET S : g[s] \notin Nat}
<1>1. IsSum(g)
      BY SumExists
<1>2. Total(S) = g[S]
      BY TotalIs
<1> HIDE DEF g
<1> SUFFICES ASSUME Bad # {} PROVE FALSE
    BY <1>2
<1>4. PICK s \in Bad : \A t \in Bad : ~(<<t, s>> \in StrictSubsetOrdering(S))
  <2>1. IsWellFoundedOn(StrictSubsetOrdering(S), SUBSET S)
        BY FS_StrictSubsetOrderingWellFounded, FS_FiniteSubsetsOfFinite
  <2>2. Bad \subseteq SUBSET S
        OBVIOUS
  <2> HIDE DEF Bad
  <2> QED
      BY <2>1, <2>2, WFMin
<1> DEFINE x == Picked(s)
           t == s \ {x}
<1>5. g[s] = Summand(value, g, s)
      BY <1>1
<1>6. s # {}
      BY <1>5 DEF Summand
<1>7. x \in s
      BY <1>6 DEF Picked
<1>8. <<t, s>> \in StrictSubsetOrdering(S) /\ t \in SUBSET S
      BY <1>7 DEF StrictSubsetOrdering
<1>9. g[t] \in Nat
      BY <1>4, <1>8
<1>10. g[s] = value[x] + g[t]
       BY <1>5, <1>6 DEF Summand
<1> QED
    BY <1>7, <1>9, <1>10

-----------------------------------------------------------------------------
(* Types.                                                                  *)

TypeInv == TypeOK /\ IdsInv

Labels == {"start", "feeErr", "free", "wait", "done", "err", "end"}

\* Nothing but the label, and perhaps the amount, of one worker changes.
Relabelled(w, label) ==
    /\ workers' \in Seq(WorkerType) /\ Len(workers') = Len(workers)
    /\ DOMAIN workers' = DOMAIN workers
    /\ workers'[w].at = label
    /\ \A v \in DOMAIN workers : /\ workers'[v].ins = workers[v].ins
                                 /\ workers'[v].fee = workers[v].fee
                                 /\ v # w => workers'[v] = workers[v]

\* A worker is a record of its type.
LEMMA WorkerIs ==
    ASSUME TypeOK, NEW w \in DOMAIN workers
    PROVE  /\ Len(workers) \in Nat /\ DOMAIN workers = 1..Len(workers) /\ w \in Nat
           /\ workers[w] \in WorkerType
           /\ workers[w].at \in Labels /\ workers[w].amount \in Nat
           /\ workers[w].ins \subseteq Nat \ {0} /\ workers[w].fee \subseteq Nat
<1>1. workers \in Seq(WorkerType)
      BY DEF TypeOK
<1>2. Len(workers) \in Nat /\ DOMAIN workers = 1..Len(workers)
      BY <1>1, LenProperties
<1>3. workers[w] \in WorkerType
      BY <1>1, <1>2, ElementOfSeq
<1> QED
    BY <1>2, <1>3 DEF WorkerType, Labels

\* One worker's record is replaced.
LEMMA ReplaceWorker ==
    ASSUME TypeOK, NEW w \in DOMAIN workers, NEW r \in WorkerType,
           workers' = [workers EXCEPT ![w] = r],
           r.ins = workers[w].ins, r.fee = workers[w].fee
    PROVE  Relabelled(w, r.at)
<1>1. workers \in Seq(WorkerType) /\ w \in 1..Len(workers)
      BY WorkerIs DEF TypeOK
<1>2. workers' \in Seq(WorkerType) /\ Len(workers') = Len(workers)
      BY <1>1, ExceptSeq
<1>3. DOMAIN workers' = DOMAIN workers
      OBVIOUS
<1>4. workers'[w] = r /\ \A v \in DOMAIN workers : v # w => workers'[v] = workers[v]
      OBVIOUS
<1> QED
    BY <1>2, <1>3, <1>4 DEF Relabelled

\* A worker goes to another place.
LEMMA SetWorkerIs ==
    ASSUME TypeOK, NEW w \in DOMAIN workers, NEW label \in Labels, SetWorker(w, label)
    PROVE  Relabelled(w, label)
<1> DEFINE r == [workers[w] EXCEPT !.at = label]
<1>1. workers[w] \in WorkerType
      BY WorkerIs
<1>2. r \in WorkerType /\ r.ins = workers[w].ins /\ r.fee = workers[w].fee /\ r.at = label
      BY <1>1 DEF WorkerType, Labels
<1>3. workers' = [workers EXCEPT ![w] = r]
      BY DEF SetWorker
<1> HIDE DEF r
<1> QED
    BY <1>2, <1>3, ReplaceWorker

\* Sending takes the fee off the amount, which covers it.
LEMMA SendIs ==
    ASSUME TypeOK, NEW w \in DOMAIN workers, NEW label \in {"wait", "err"},
           Affords(w), TxMade(w, label)
    PROVE  Relabelled(w, label)
<1> DEFINE left == workers[w].amount - FeeTaken
           r == [workers[w] EXCEPT !.at = label, !.amount = left]
<1>1. workers[w] \in WorkerType /\ workers[w].amount \in Nat
      BY WorkerIs
<1>2. left \in Nat
  <2>1. FeeTaken \in Nat
        BY RoundsAssumption DEF FeeTaken
  <2>2. FeeInPRV => FeeTaken = 0
        BY DEF FeeTaken
  <2>3. ~FeeInPRV => workers[w].amount > FeeTaken
        BY DEF Affords
  <2> QED
      BY <1>1, <2>1, <2>2, <2>3
<1>3. workers' = [workers EXCEPT ![w] = r]
      BY DEF TxMade
<1> HIDE DEF left
<1>4. r \in WorkerType /\ r.ins = workers[w].ins /\ r.fee = workers[w].fee /\ r.at = label
      BY <1>1, <1>2 DEF WorkerType
<1> HIDE DEF r
<1> QED
    BY <1>3, <1>4, ReplaceWorker

\* What a new worker gets, and what it leaves in the lists.
LEMMA LaunchIs ==
    ASSUME TypeInv, Launch
    PROVE  \E batch \in SUBSET rest, feeCoin \in SUBSET feeList :
              LET new == NewWorker(batch, feeCoin)
              IN  /\ new \in WorkerType /\ new.at = "start" /\ new.ins = batch /\ new.fee = feeCoin
                  /\ workers' = Append(workers, new)
                  /\ rest' = rest \ batch /\ feeList' = feeList \ feeCoin
                  /\ IF FeeInPRV THEN Cardinality(feeCoin) = 1 ELSE feeCoin = {}
<1>1. PICK batch \in SUBSET rest, feeCoin \in SUBSET feeList :
          /\ workers' = Append(workers, NewWorker(batch, feeCoin))
          /\ rest' = rest \ batch /\ feeList' = feeList \ feeCoin
          /\ IF FeeInPRV THEN Cardinality(feeCoin) = 1 ELSE feeCoin = {}
  <2> DEFINE size == IF Cardinality(rest) < MaxInputSize THEN Cardinality(rest)
                     ELSE MaxInputSize
  <2>1. PICK batch \in NextOf(rest, size) :
          \/ /\ ~FeeInPRV
             /\ workers' = Append(workers, NewWorker(batch, {}))
             /\ rest' = After(batch)
             /\ UNCHANGED feeList
          \/ /\ FeeInPRV
             /\ \E feeCoin \in NextOf(feeList, 1) :
                   /\ workers' = Append(workers, NewWorker(batch, feeCoin))
                   /\ feeList' = feeList \ feeCoin
             /\ rest' = After(batch)
        BY DEF Launch
  <2> HIDE DEF size
  <2>2. batch \in SUBSET rest /\ rest' = rest \ batch
        BY <2>1 DEF NextOf, kSubset, After
  <2>3. CASE ~FeeInPRV
    <3>1. {} \in SUBSET feeList /\ feeList \ {} = feeList
          OBVIOUS
    <3> QED
        BY <2>1, <2>2, <2>3, <3>1
  <2>4. CASE FeeInPRV
    <3>1. PICK feeCoin \in NextOf(feeList, 1) :
              /\ workers' = Append(workers, NewWorker(batch, feeCoin))
              /\ feeList' = feeList \ feeCoin
          BY <2>1, <2>4
    <3>2. feeCoin \in SUBSET feeList /\ Cardinality(feeCoin) = 1
          BY DEF NextOf, kSubset
    <3> QED
        BY <2>2, <2>4, <3>1, <3>2
  <2> QED
      BY <2>3, <2>4
<1>2. Total(batch) \in Nat
  <2>1. IsFiniteSet(batch) /\ \A id \in batch : value[id] \in Nat
        BY FS_Subset DEF TypeInv, TypeOK, IdsInv
  <2> QED
      BY <2>1, TotalIsNat
<1>3. batch \in SUBSET (Nat \ {0}) /\ feeCoin \in SUBSET Nat
      BY DEF TypeInv, TypeOK, IdsInv
<1> DEFINE new == NewWorker(batch, feeCoin)
<1>4. new \in WorkerType /\ new.at = "start" /\ new.ins = batch /\ new.fee = feeCoin
      BY <1>2, <1>3 DEF NewWorker, WorkerType
<1> QED
    BY <1>1, <1>4

\* The sequence with one more worker.
LEMMA MoreWorkers ==
    ASSUME TypeOK, NEW new \in WorkerType, workers' = Append(workers, new)
    PROVE  /\ workers' \in Seq(WorkerType)
           /\ Len(workers) \in Nat /\ Len(workers') = Len(workers) + 1
           /\ DOMAIN workers = 1..Len(workers) /\ DOMAIN workers' = 1..(Len(workers) + 1)
           /\ DOMAIN workers' = DOMAIN workers \cup {Len(workers) + 1}
           /\ Len(workers) + 1 \notin DOMAIN workers
           /\ \A v \in DOMAIN workers : workers'[v] = workers[v]
           /\ workers'[Len(workers) + 1] = new
<1>1. workers \in Seq(WorkerType)
      BY DEF TypeOK
<1>2. Len(workers) \in Nat /\ DOMAIN workers = 1..Len(workers)
      BY <1>1, LenProperties
<1>3. /\ workers' \in Seq(WorkerType) /\ Len(workers') = Len(workers) + 1
      /\ workers'[Len(workers) + 1] = new
      /\ \A v \in 1..Len(workers) : workers'[v] = workers[v]
      BY <1>1, AppendProperties
<1>4. DOMAIN workers' = 1..(Len(workers) + 1)
      BY <1>3, LenProperties
<1> QED
    BY <1>2, <1>3, <1>4

\* A call begins with its types right.
LEMMA TypeInit == Init => TypeInv
<1> SUFFICES ASSUME Init PROVE TypeInv
    OBVIOUS
<1>1. PICK n \in Counts[kind] : coins = 1..n /\ value \in [1..n -> Values[kind]] /\ nextId = n + 1
      BY DEF Init
<1>2. kind \in Kinds /\ n \in Nat /\ Values[kind] \subseteq Nat
      BY RoundsAssumption DEF Init
<1>3. /\ coins = DOMAIN value /\ DOMAIN value = 1..n /\ nextId \in Nat
      /\ \A id \in DOMAIN value : id < nextId /\ value[id] \in Nat
      BY <1>1, <1>2
<1>4. IsFiniteSet(coins) /\ IsFiniteSet({})
      BY <1>1, <1>2, FS_Interval, FS_EmptySet
<1>5. prv \subseteq Nat /\ IsFiniteSet(prv) /\ \A id \in prv : id < nextId
  <2>1. prv = {} \/ prv = {0}
        BY DEF Init
  <2>2. IsFiniteSet({}) /\ IsFiniteSet({0})
        BY FS_EmptySet, FS_Singleton
  <2>3. 0 < nextId
        BY <1>1, <1>2
  <2> QED
      BY <2>1, <2>2, <2>3
<1>6. workers = <<>> /\ txList = <<>> /\ first = 1 /\ DOMAIN workers = {} /\ Len(workers) = 0
      BY DEF Init
<1>7. workers \in Seq(WorkerType) /\ txList \in Seq(Nat)
      BY <1>6
<1>8. /\ mempool = {} /\ mined = {} /\ rest = {} /\ feeList = {} /\ pc = "start"
      /\ numDone = 0 /\ numErr = 0 /\ timeOut = "set" /\ outcome = "none" /\ faults = 0
      BY DEF Init
<1>9. TypeOK
      BY <1>2, <1>3, <1>5, <1>6, <1>7, <1>8 DEF TypeOK
<1>10. IdsInv
  <2>1. IsFiniteSet(rest) /\ IsFiniteSet(feeList)
        BY <1>4, <1>8
  <2>2. DOMAIN value \subseteq Nat \ {0}
        BY <1>2, <1>3
  <2>3. nextId > 0
        BY <1>1, <1>2
  <2> QED
      BY <1>4, <1>5, <1>6, <1>8, <2>1, <2>2, <2>3 DEF IdsInv
<1> QED
    BY <1>9, <1>10 DEF TypeInv

\* A step of a worker keeps the types.
LEMMA RelabelType ==
    ASSUME TypeInv, NEW w \in DOMAIN workers, NEW label, Relabelled(w, label),
           UNCHANGED <<kind, coins, value, nextId, prv, mined, pc, rest, feeList, first,
                       timeOut, outcome>>,
           mempool' \subseteq DOMAIN workers, faults' \in Nat,
           numDone' \in Nat, numErr' \in Nat, txList' \in Seq(Nat)
    PROVE  TypeInv'
<1>1. /\ workers' \in Seq(WorkerType) /\ Len(workers') = Len(workers)
      /\ DOMAIN workers' = DOMAIN workers
      /\ \A v \in DOMAIN workers : workers'[v].ins = workers[v].ins /\ workers'[v].fee = workers[v].fee
      BY DEF Relabelled
<1>2. TypeOK'
      BY <1>1 DEF TypeInv, TypeOK
<1>3. FeeInPRV' = FeeInPRV
      BY DEF FeeInPRV
<1>4. IdsInv'
      BY <1>1, <1>3 DEF TypeInv, IdsInv
<1> QED
    BY <1>2, <1>4 DEF TypeInv

\* A new worker has an amount: the sum of its batch.
LEMMA LaunchType ==
    ASSUME TypeInv, Launch
    PROVE  TypeInv'
<1>1. UNCHANGED <<kind, coins, value, nextId, prv, mempool, mined, pc, first, numDone, numErr,
                  timeOut, txList, outcome, faults>>
      BY DEF Launch, chainVars
<1>2. PICK batch \in SUBSET rest, feeCoin \in SUBSET feeList :
          LET new == NewWorker(batch, feeCoin)
          IN  /\ new \in WorkerType /\ new.at = "start" /\ new.ins = batch /\ new.fee = feeCoin
              /\ workers' = Append(workers, new)
              /\ rest' = rest \ batch /\ feeList' = feeList \ feeCoin
              /\ IF FeeInPRV THEN Cardinality(feeCoin) = 1 ELSE feeCoin = {}
      BY LaunchIs
<1> DEFINE new == NewWorker(batch, feeCoin)
           n == Len(workers) + 1
<1>3. /\ workers' \in Seq(WorkerType)
      /\ Len(workers) \in Nat /\ Len(workers') = n
      /\ DOMAIN workers' = DOMAIN workers \cup {n}
      /\ \A v \in DOMAIN workers : workers'[v] = workers[v]
      /\ workers'[n] = new
      BY <1>2, MoreWorkers DEF TypeInv
<1>4. new.ins \subseteq rest /\ new.fee \subseteq feeList
      BY <1>2
<1> HIDE DEF new
<1>5. TypeOK'
      BY <1>1, <1>2, <1>3 DEF TypeInv, TypeOK
<1>6. IdsInv'
  <2>1. IsFiniteSet(rest') /\ IsFiniteSet(feeList')
        BY <1>2, FS_Subset DEF TypeInv, IdsInv
  <2>2. \A id \in rest \cup feeList : id < nextId
        BY DEF TypeInv, TypeOK, IdsInv
  <2>3. \A w \in DOMAIN workers' : \A id \in workers'[w].ins \cup workers'[w].fee : id < nextId
        BY <1>3, <1>4, <2>2 DEF TypeInv, IdsInv
  <2>4. ~FeeInPRV => feeList' = {} /\ \A w \in DOMAIN workers' : workers'[w].fee = {}
        BY <1>2, <1>3 DEF TypeInv, IdsInv, new
  <2>5. FeeInPRV' = FeeInPRV
        BY <1>1 DEF FeeInPRV
  <2>6. \A id \in feeList' : id < nextId
        BY <1>2, <2>2
  <2> QED
      BY <1>1, <2>1, <2>3, <2>4, <2>5, <2>6 DEF TypeInv, IdsInv
<1> QED
    BY <1>5, <1>6 DEF TypeInv

\* A mined transaction makes coins with new ids.
LEMMA MineType ==
    ASSUME TypeInv, NEW w \in DOMAIN workers, Mine(w)
    PROVE  TypeInv'
<1>1. /\ UNCHANGED <<kind, pc, rest, feeList, first, numDone, numErr, timeOut, txList, outcome,
                     workers, faults>>
      /\ mempool' \subseteq mempool /\ mined' = mined \cup {w} /\ nextId' = nextId + 2
      /\ coins' \subseteq coins \cup {nextId} /\ Spendable(w)
      /\ \/ Converts /\ coins' \subseteq coins /\ value' = value
         \/ value' = [id \in DOMAIN value \cup {nextId} |->
                            IF id = nextId THEN workers[w].amount ELSE value[id]]
      /\ prv' \subseteq prv \cup {nextId + 1}
      /\ FeeInPRV \/ prv' \subseteq prv
      BY DEF Mine, mainVars, Change
<1>2. workers[w].amount \in Nat
      BY WorkerIs DEF TypeInv
<1>3. nextId \in Nat
      BY DEF TypeInv, TypeOK
<1>4. DOMAIN value \subseteq DOMAIN value' /\ DOMAIN value' \subseteq DOMAIN value \cup {nextId}
      /\ coins' \subseteq DOMAIN value'
      /\ \A id \in DOMAIN value' : value'[id] \in Nat /\ id < nextId'
  <2>1. coins \subseteq DOMAIN value
        BY DEF TypeInv, TypeOK
  <2>2. \A id \in DOMAIN value : value[id] \in Nat /\ id < nextId /\ id \in Nat
        BY DEF TypeInv, TypeOK, IdsInv
  <2>3. \A id \in Nat : id < nextId => id < nextId'
        BY <1>1, <1>3
  <2>4. nextId < nextId'
        BY <1>1, <1>3
  <2> QED
      BY <1>1, <1>2, <2>1, <2>2, <2>3, <2>4
<1>5. \A id \in Nat : id < nextId => id < nextId'
      BY <1>1, <1>3
<1>6. nextId + 1 < nextId' /\ nextId + 1 \in Nat /\ nextId' \in Nat
      BY <1>1, <1>3
<1>7. nextId # 0 /\ nextId' > 0
      BY <1>1, <1>3 DEF TypeInv, IdsInv
<1>8. TypeOK'
  <2>1. prv \subseteq Nat /\ (\A id \in prv : id < nextId) /\ rest \subseteq DOMAIN value
        BY DEF TypeInv, TypeOK, IdsInv
  <2>2. \A id \in prv' : id < nextId'
        BY <1>1, <1>5, <1>6, <2>1
  <2>3. mempool' \subseteq DOMAIN workers' /\ mined' \subseteq DOMAIN workers'
        BY <1>1 DEF TypeInv, TypeOK
  <2> QED
      BY <1>1, <1>4, <1>6, <2>1, <2>2, <2>3 DEF TypeInv, TypeOK
<1>9. IdsInv'
  <2>1. IsFiniteSet(coins') /\ IsFiniteSet(prv')
    <3>1. IsFiniteSet(coins \cup {nextId}) /\ IsFiniteSet(prv \cup {nextId + 1})
          BY FS_AddElement DEF TypeInv, IdsInv
    <3> QED
        BY <1>1, <3>1, FS_Subset
  <2>2. DOMAIN value' \subseteq Nat \ {0} /\ prv' \subseteq Nat
        BY <1>1, <1>3, <1>4, <1>6, <1>7 DEF TypeInv, IdsInv
  <2>3. /\ \A id \in feeList : id < nextId /\ id \in Nat
        /\ \A v \in DOMAIN workers : \A id \in workers[v].ins \cup workers[v].fee :
              id < nextId /\ id \in Nat
        BY WorkerIs DEF TypeInv, TypeOK, IdsInv
  <2>4. FeeInPRV' = FeeInPRV
        BY <1>1 DEF FeeInPRV
  <2>5. faults \in Nat
        BY DEF TypeInv, IdsInv
  <2>6. /\ ~FeeInPRV => feeList = {} /\ \A v \in DOMAIN workers : workers[v].fee = {}
        /\ pc \in {"split", "listPRV"} => FeeInPRV
        BY DEF TypeInv, IdsInv
  <2>7. IsFiniteSet(rest) /\ IsFiniteSet(feeList)
        BY DEF TypeInv, IdsInv
  <2> QED
      BY <1>1, <1>5, <1>7, <2>1, <2>2, <2>3, <2>4, <2>5, <2>6, <2>7 DEF IdsInv
<1> QED
    BY <1>8, <1>9 DEF TypeInv

\* The main goroutine's steps that leave the workers and the chain alone.
LEMMA MainType ==
    ASSUME TypeInv,
           UNCHANGED <<kind, value, nextId, prv, mempool, mined, workers>>,
           coins' \subseteq coins,
           rest' \subseteq DOMAIN value, IsFiniteSet(rest'),
           feeList' = feeList \/ (FeeInPRV /\ feeList' = prv),
           first' \in 1 .. Len(workers) + 1,
           numDone' \in Nat, numErr' \in Nat, timeOut' \in {"set", "fired"},
           txList' \in Seq(Nat), faults' \in Nat,
           pc' \in {"start", "list", "split", "listPRV", "launch", "collect", "returned"},
           outcome' \in {"none", "ok", "nothing", "error", "allFailed", "noFeeCoin", "time-out"},
           (pc' = "returned") = (outcome' # "none"),
           pc' \in {"split", "listPRV"} => FeeInPRV
    PROVE  TypeInv'
<1>1. IsFiniteSet(coins') /\ IsFiniteSet(feeList')
      BY FS_Subset DEF TypeInv, IdsInv
<1>2. feeList' \subseteq Nat /\ \A id \in feeList' : id < nextId
      BY DEF TypeInv, TypeOK, IdsInv
<1>3. TypeOK'
      BY <1>2 DEF TypeInv, TypeOK
<1>4. FeeInPRV' = FeeInPRV
      BY DEF FeeInPRV
<1>5. IdsInv'
      BY <1>1, <1>2, <1>4 DEF TypeInv, IdsInv
<1> QED
    BY <1>3, <1>5 DEF TypeInv

\* The number of faults counts.
LEMMA FaultIs ==
    ASSUME TypeInv, Fault
    PROVE  faults' \in Nat /\ faults' > 0 /\ faults < faults'
BY DEF Fault, TypeInv, IdsInv

\* The split makes fee coins with new ids.
LEMMA SplitType ==
    ASSUME TypeInv, SplitPRVForFees
    PROVE  TypeInv'
<1>1. /\ UNCHANGED <<kind, coins, value, mempool, mined, rest, feeList, workers, first,
                     numDone, numErr, timeOut, outcome, faults>>
      /\ pc = "split" /\ pc' = "listPRV"
      /\ nextId' = nextId \/ nextId' = nextId + NumThreads + 1
      /\ \/ prv' = prv /\ nextId' = nextId
         \/ /\ nextId' = nextId + NumThreads + 1
            /\ prv' \subseteq prv \cup (nextId .. nextId + NumThreads)
      /\ txList' = txList \/ txList' = Append(txList, 0)
  <2>1. nextId \in Nat /\ NumThreads \in Nat
        BY RoundsAssumption DEF TypeInv, TypeOK
  <2>2. /\ nextId + NumThreads \in nextId .. nextId + NumThreads
        /\ nextId .. nextId + NumThreads - 1 \subseteq nextId .. nextId + NumThreads
        BY <2>1
  <2> QED
      BY <2>2 DEF SplitPRVForFees, Change
<1>2. nextId \in Nat /\ NumThreads \in Nat /\ nextId > 0
      BY RoundsAssumption DEF TypeInv, TypeOK, IdsInv
<1>3. nextId' \in Nat /\ nextId' > 0 /\ \A id \in Nat : id < nextId => id < nextId'
      BY <1>1, <1>2
<1>4. prv' \subseteq Nat /\ IsFiniteSet(prv') /\ \A id \in prv' : id < nextId'
  <2> DEFINE fresh == nextId .. nextId + NumThreads
  <2>1. IsFiniteSet(fresh)
        BY <1>2, FS_Interval
  <2>2. fresh \subseteq Nat
        BY <1>2
  <2>3. nextId' = nextId + NumThreads + 1 => \A id \in fresh : id < nextId'
        BY <1>2
  <2> HIDE DEF fresh
  <2>4. prv \subseteq Nat /\ IsFiniteSet(prv) /\ \A id \in prv : id < nextId
        BY DEF TypeInv, TypeOK, IdsInv
  <2>5. IsFiniteSet(prv \cup fresh)
        BY <2>1, <2>4, FS_Union
  <2>6. prv' \subseteq prv \cup fresh
        BY <1>1 DEF fresh
  <2>7. IsFiniteSet(prv')
        BY <2>5, <2>6, FS_Subset
  <2>8. prv' \subseteq Nat
        BY <2>2, <2>4, <2>6
  <2>9. \A id \in prv' : id < nextId'
        BY <1>1, <1>3, <2>3, <2>4, <2>6 DEF fresh
  <2> QED
      BY <2>7, <2>8, <2>9
<1>5. txList' \in Seq(Nat)
  <2>1. txList \in Seq(Nat) /\ 0 \in Nat
        BY DEF TypeInv, TypeOK
  <2>2. Append(txList, 0) \in Seq(Nat)
        BY <2>1, AppendProperties
  <2> QED
      BY <1>1, <2>1, <2>2
<1>6. \A id \in DOMAIN value : id < nextId'
      BY <1>3 DEF TypeInv, TypeOK, IdsInv
<1>7. TypeOK'
      BY <1>1, <1>3, <1>4, <1>5, <1>6 DEF TypeInv, TypeOK
<1>8. IdsInv'
  <2>1. \A id \in feeList : id < nextId'
        BY <1>3 DEF TypeInv, TypeOK, IdsInv
  <2>2. \A w \in DOMAIN workers : \A id \in workers[w].ins \cup workers[w].fee : id < nextId'
        BY <1>3, WorkerIs DEF TypeInv, TypeOK, IdsInv
  <2>3. FeeInPRV' = FeeInPRV
        BY <1>1 DEF FeeInPRV
  <2> QED
      BY <1>1, <1>3, <1>4, <2>1, <2>2, <2>3 DEF TypeInv, IdsInv
<1> QED
    BY <1>7, <1>8 DEF TypeInv

\* The labels the workers' steps and the reports lead to.
LEMMA WorkerStepIs ==
    ASSUME TypeInv, NEW w \in DOMAIN workers
    PROVE  /\ (TooPoor(w) \/ FeeNotCovered(w) \/ TokenFeeFails(w)
               \/ SendFails(w) \/ WaitFails(w) \/ InBlock(w)) =>
                 /\ UNCHANGED <<chainVars, mainVars>> /\ faults' \in Nat
                 /\ (faults' = faults \/ faults' > faults)
           /\ TooPoor(w) \/ FeeNotCovered(w) \/ SendFails(w) \/ WaitFails(w) => Relabelled(w, "err")
           /\ TokenFeeFails(w) => Relabelled(w, "feeErr")
           /\ InBlock(w) => Relabelled(w, "done")
           /\ Send(w) => /\ Relabelled(w, "wait")
                         /\ UNCHANGED <<coins, value, nextId, prv, mined, mainVars>>
                         /\ (mempool' = mempool \cup {w} \/ (mempool' = mempool /\ faults' > 0))
                         /\ faults' \in Nat /\ (faults' = faults \/ faults' > faults)
           /\ AnswerUnreadable(w) =>
                 /\ Relabelled(w, "err")
                 /\ UNCHANGED <<coins, value, nextId, prv, mined, mainVars>>
                 /\ mempool' = mempool \cup {w}
                 /\ faults' \in Nat /\ faults' > faults
           /\ ReceiveDone(w) => Relabelled(w, "end")
           /\ ReceiveErr(w) => \/ workers[w].at = "err" /\ Relabelled(w, "end")
                               \/ workers[w].at = "feeErr" /\ Relabelled(w, "free")
<1>1. TypeOK /\ faults \in Nat
      BY DEF TypeInv, IdsInv
<1>2. \A label \in Labels : SetWorker(w, label) => Relabelled(w, label)
      BY <1>1, SetWorkerIs
<1>3. {"err", "feeErr", "done", "end", "free"} \subseteq Labels
      BY DEF Labels
<1>4. Fault => faults' \in Nat /\ faults' > 0 /\ faults' > faults
      BY <1>1 DEF Fault
<1>5. (TooPoor(w) \/ FeeNotCovered(w) \/ TokenFeeFails(w)
       \/ SendFails(w) \/ WaitFails(w) \/ InBlock(w)) =>
                 /\ UNCHANGED <<chainVars, mainVars>> /\ faults' \in Nat
                 /\ (faults' = faults \/ faults' > faults)
      BY <1>1, <1>4 DEF TooPoor, FeeNotCovered, TokenFeeFails, SendFails, WaitFails, InBlock
<1>6. TooPoor(w) \/ FeeNotCovered(w) \/ SendFails(w) \/ WaitFails(w) => Relabelled(w, "err")
      BY <1>2, <1>3 DEF TooPoor, FeeNotCovered, SendFails, WaitFails
<1>7. TokenFeeFails(w) => Relabelled(w, "feeErr")
      BY <1>2, <1>3 DEF TokenFeeFails
<1>8. InBlock(w) => Relabelled(w, "done")
      BY <1>2, <1>3 DEF InBlock
<1>9. /\ Send(w) => Relabelled(w, "wait")
      /\ AnswerUnreadable(w) => Relabelled(w, "err")
      BY <1>1, SendIs DEF Send, AnswerUnreadable
<1>10. Send(w) => /\ UNCHANGED <<coins, value, nextId, prv, mined, mainVars>>
                  /\ (mempool' = mempool \cup {w} \/ (mempool' = mempool /\ faults' > 0))
                  /\ faults' \in Nat /\ (faults' = faults \/ faults' > faults)
  <2>1. Send(w) => /\ UNCHANGED <<coins, value, nextId, prv, mined, mainVars>>
                   /\ \/ mempool' = mempool \cup {w} /\ faults' = faults
                      \/ Fault /\ mempool' = mempool
        BY DEF Send
  <2> QED
      BY <1>1, <1>4, <2>1
<1>11. ReceiveDone(w) => Relabelled(w, "end")
       BY <1>2, <1>3 DEF ReceiveDone
<1>12. ReceiveErr(w) => \/ workers[w].at = "err" /\ Relabelled(w, "end")
                        \/ workers[w].at = "feeErr" /\ Relabelled(w, "free")
       BY <1>2, <1>3 DEF ReceiveErr
<1>13. AnswerUnreadable(w) =>
          /\ UNCHANGED <<coins, value, nextId, prv, mined, mainVars>>
          /\ mempool' = mempool \cup {w} /\ faults' \in Nat /\ faults' > faults
       BY <1>4 DEF AnswerUnreadable
<1> QED
    BY <1>5, <1>6, <1>7, <1>8, <1>9, <1>10, <1>11, <1>12, <1>13

\* The steps of a worker and the reception of its report.
LEMMA WorkerStepType ==
    ASSUME TypeInv, NEW w \in DOMAIN workers,
           Worker(w) \/ TokenFeeFails(w) \/ SendFails(w) \/ AnswerUnreadable(w) \/ ReceiveDone(w) \/ ReceiveErr(w)
    PROVE  TypeInv'
<1>1. /\ mempool \subseteq DOMAIN workers /\ faults \in Nat /\ numDone \in Nat /\ numErr \in Nat
      /\ txList \in Seq(Nat) /\ w \in Nat
      BY WorkerIs DEF TypeInv, TypeOK, IdsInv
<1>2. CASE \/ TooPoor(w) \/ FeeNotCovered(w) \/ TokenFeeFails(w)
           \/ SendFails(w) \/ WaitFails(w) \/ InBlock(w)
  <2>1. \E label : Relabelled(w, label)
        BY <1>2, WorkerStepIs
  <2>2. UNCHANGED <<chainVars, mainVars>> /\ faults' \in Nat
        BY <1>2, WorkerStepIs
  <2> QED
      BY <1>1, <2>1, <2>2, RelabelType DEF chainVars, mainVars
<1>3. CASE Send(w) \/ AnswerUnreadable(w)
  <2>1. /\ Relabelled(w, "wait") \/ Relabelled(w, "err")
        /\ faults' \in Nat /\ mempool' \subseteq DOMAIN workers
        BY <1>1, <1>3, WorkerStepIs
  <2>2. UNCHANGED <<coins, value, nextId, prv, mined, mainVars>>
        BY <1>3, WorkerStepIs
  <2> QED
      BY <1>1, <2>1, <2>2, RelabelType DEF mainVars
<1>4. CASE ReceiveDone(w)
  <2>1. Relabelled(w, "end")
        BY <1>4, WorkerStepIs
  <2>2. /\ UNCHANGED <<kind, coins, value, nextId, prv, mined, mempool, pc, rest, feeList, first,
                       timeOut, outcome, numErr, faults>>
        /\ numDone' = numDone + 1 /\ txList' = Append(txList, w)
        BY <1>4 DEF ReceiveDone, chainVars
  <2>3. numDone' \in Nat /\ txList' \in Seq(Nat)
        BY <1>1, <2>2, AppendProperties
  <2> QED
      BY <1>1, <2>1, <2>2, <2>3, RelabelType
<1>5. CASE ReceiveErr(w)
  <2>1. \E label : Relabelled(w, label)
        BY <1>5, WorkerStepIs
  <2>2. /\ UNCHANGED <<kind, coins, value, nextId, prv, mined, mempool, pc, rest, feeList, first,
                       timeOut, outcome, numDone, txList, faults>>
        /\ numErr' = numErr + 1
        BY <1>5 DEF ReceiveErr, chainVars
  <2>3. numErr' \in Nat
        BY <1>1, <2>2
  <2> QED
      BY <1>1, <2>1, <2>2, <2>3, RelabelType
<1> QED
    BY <1>2, <1>3, <1>4, <1>5 DEF Worker

\* The steps that neither start nor concern a worker, nor make coins.
Quiet == \/ StartConsolidating \/ StartConverting \/ ConvertDirectly \/ List \/ ListPRV
         \/ ListOrSplitFails \/ TooLittlePRV \/ NoFeeCoin \/ AllLaunched
         \/ TimerExpires \/ ReceiveTimeOut \/ Settle \/ UNCHANGED vars

\* The steps of the main goroutine that touch no worker.
LEMMA QuietType ==
    ASSUME TypeInv, Quiet
    PROVE  TypeInv'
<1>1. /\ kind \in Kinds /\ rest \subseteq DOMAIN value /\ IsFiniteSet(rest)
      /\ coins \subseteq DOMAIN value /\ IsFiniteSet(coins) /\ faults \in Nat
      /\ first \in 1 .. Len(workers) + 1 /\ Len(workers) \in Nat
      /\ numDone \in Nat /\ numErr \in Nat /\ timeOut \in {"set", "fired"}
      /\ txList \in Seq(Nat)
      BY LenProperties DEF TypeInv, TypeOK, IdsInv
<1>2. /\ pc \in {"start", "list", "split", "listPRV", "launch", "collect", "returned"}
      /\ outcome \in {"none", "ok", "nothing", "error", "allFailed", "noFeeCoin", "time-out"}
      /\ (pc = "returned") = (outcome # "none")
      /\ pc \in {"split", "listPRV"} => FeeInPRV
      BY DEF TypeInv, TypeOK, IdsInv
<1>3. Fault => faults' \in Nat
      BY FaultIs
<1>4. 0 \in Nat /\ <<0>> \in Seq(Nat) /\ Len(workers) + 1 \in 1 .. Len(workers) + 1
      BY <1>1
<1>5. CASE StartConsolidating \/ StartConverting
      BY <1>1, <1>2, <1>5, MainType DEF StartConsolidating, StartConverting, Return, chainVars
<1>6. CASE ConvertDirectly
      BY <1>1, <1>2, <1>3, <1>4, <1>6, MainType DEF ConvertDirectly, Return
<1>7. CASE List
      BY <1>1, <1>2, <1>4, <1>7, MainType DEF List, Return, chainVars
<1>8. CASE ListPRV
      BY <1>1, <1>2, <1>8, MainType DEF ListPRV, chainVars
<1>9. CASE ListOrSplitFails \/ TooLittlePRV \/ NoFeeCoin \/ ReceiveTimeOut
      BY <1>1, <1>2, <1>3, <1>9, MainType DEF ListOrSplitFails, TooLittlePRV, NoFeeCoin,
         ReceiveTimeOut, Return, chainVars
<1>10. CASE AllLaunched \/ TimerExpires
       BY <1>1, <1>2, <1>10, MainType DEF AllLaunched, TimerExpires, chainVars
<1>11. CASE Settle
       BY <1>1, <1>2, <1>11, MainType DEF Settle, Return, chainVars
<1>12. CASE UNCHANGED vars
       BY <1>1, <1>2, <1>12, MainType DEF vars
<1> QED
    BY <1>5, <1>6, <1>7, <1>8, <1>9, <1>10, <1>11, <1>12 DEF Quiet

\* The steps, sorted by what they touch.
LEMMA Steps ==
    ASSUME [Next]_vars
    PROVE  \/ Quiet \/ SplitPRVForFees \/ Launch
           \/ \E w \in DOMAIN workers :
                 \/ TooPoor(w) \/ FeeNotCovered(w) \/ Send(w) \/ InBlock(w) \/ WaitFails(w)
                 \/ TokenFeeFails(w) \/ SendFails(w) \/ AnswerUnreadable(w)
                 \/ ReceiveDone(w) \/ ReceiveErr(w) \/ Mine(w) \/ Drop(w)
<1>1. Reporting \subseteq DOMAIN workers
      BY DEF Reporting
<1> QED
    BY <1>1 DEF Next, Main, Worker, Node, Quiet, Spin, Finished

\* Every step keeps the types.
LEMMA TypeNext ==
    ASSUME TypeInv, [Next]_vars
    PROVE  TypeInv'
<1>1. CASE Quiet
      BY <1>1, QuietType
<1>2. CASE SplitPRVForFees \/ Launch
      BY <1>2, SplitType, LaunchType
<1>3. ASSUME NEW w \in DOMAIN workers,
             \/ TooPoor(w) \/ FeeNotCovered(w) \/ Send(w) \/ InBlock(w) \/ WaitFails(w)
             \/ TokenFeeFails(w) \/ SendFails(w) \/ AnswerUnreadable(w) \/ ReceiveDone(w) \/ ReceiveErr(w)
      PROVE  TypeInv'
  <2>1. Worker(w) \/ TokenFeeFails(w) \/ SendFails(w) \/ AnswerUnreadable(w) \/ ReceiveDone(w) \/ ReceiveErr(w)
        BY <1>3 DEF Worker
  <2> QED
      BY <2>1, WorkerStepType
<1>4. ASSUME NEW w \in DOMAIN workers, Mine(w) PROVE TypeInv'
      BY <1>4, MineType
<1>5. ASSUME NEW w \in DOMAIN workers, Drop(w) PROVE TypeInv'
  <2>1. mempool' \subseteq mempool /\ UNCHANGED <<coins, value, nextId, prv, mined, workers, mainVars, faults>>
        BY <1>5 DEF Drop
  <2>2. TypeOK'
        BY <2>1 DEF TypeInv, TypeOK, mainVars
  <2>3. IdsInv'
        BY <2>1 DEF TypeInv, IdsInv, mainVars, FeeInPRV
  <2> QED
      BY <2>2, <2>3 DEF TypeInv
<1> QED
    BY <1>1, <1>2, <1>3, <1>4, <1>5, Steps

\* Types and ids are right throughout.
LEMMA SpecTypeInv == Spec => []TypeInv
<1>1. Init => TypeInv
      BY TypeInit
<1>2. TypeInv /\ [Next]_vars => TypeInv'
      BY TypeNext
<1> QED
    BY <1>1, <1>2, PTL DEF Spec

\* Types are kept; in particular amounts stay naturals: a worker takes the
\* fee off its batch only after checking that it is there.
THEOREM TypeCorrect == Spec => []TypeOK
<1>1. TypeInv => TypeOK
      BY DEF TypeInv
<1> QED
    BY <1>1, SpecTypeInv, PTL

-----------------------------------------------------------------------------
(* The node and the list of hashes.                                        *)

\* What quiet steps leave alone.
LEMMA QuietIs ==
    ASSUME Quiet
    PROVE  /\ UNCHANGED <<kind, value, nextId, prv, mempool, mined, workers>>
           /\ coins' \subseteq coins
           /\ txList' = txList \/ (txList' = <<0>> /\ pc = "start")
<1>1. CASE ConvertDirectly
  <2>1. coins' = coins \/ coins' = {}
        BY <1>1 DEF ConvertDirectly
  <2>2. /\ UNCHANGED <<kind, value, nextId, prv, mempool, mined, workers>>
        /\ txList' = txList \/ (txList' = <<0>> /\ pc = "start")
        BY <1>1 DEF ConvertDirectly
  <2> QED
      BY <2>1, <2>2
<1>2. CASE UNCHANGED vars
      BY <1>2 DEF vars
<1>3. CASE ~ConvertDirectly /\ ~UNCHANGED vars
  <2>1. UNCHANGED <<kind, coins, value, nextId, prv, mempool, mined, workers, txList>>
        BY <1>3 DEF Quiet, StartConsolidating, StartConverting, List, ListPRV, ListOrSplitFails,
           TooLittlePRV, NoFeeCoin, AllLaunched, TimerExpires, ReceiveTimeOut, Settle, chainVars
  <2> QED
      BY <2>1
<1> QED
    BY <1>1, <1>2, <1>3

Distinct == \A j, k \in DOMAIN txList : j # k /\ txList[j] # 0 => txList[j] # txList[k]

\* One more hash.
LEMMA AppendListed ==
    ASSUME txList \in Seq(Nat), NEW x \in Nat, txList' = Append(txList, x), x \notin Listed, Distinct
    PROVE  Listed' = Listed \cup ({x} \ {0}) /\ Distinct'
<1> DEFINE n == Len(txList)
<1>1. n \in Nat /\ DOMAIN txList = 1..n
      BY LenProperties
<1>2. /\ txList' \in Seq(Nat) /\ Len(txList') = n + 1 /\ txList'[n + 1] = x
      /\ \A k \in 1..n : txList'[k] = txList[k]
      BY AppendProperties
<1>3. DOMAIN txList' = 1..(n + 1)
      BY <1>2, LenProperties
<1>4. DOMAIN txList' = DOMAIN txList \cup {n + 1} /\ n + 1 \notin DOMAIN txList
      BY <1>1, <1>3
<1>5. \A k \in DOMAIN txList : txList'[k] = txList[k]
      BY <1>1, <1>2
<1> HIDE DEF n
<1>6. Listed' = Listed \cup ({x} \ {0})
      BY <1>2, <1>4, <1>5 DEF Listed
<1>7. \A k \in DOMAIN txList : txList[k] # 0 => txList[k] # x
      BY DEF Listed
<1>8. Distinct'
      BY <1>2, <1>4, <1>5, <1>7 DEF Distinct
<1> QED
    BY <1>6, <1>8

\* A list without hashes of workers.
LEMMA NoneListed == txList' = <<0>> => Listed' = {} /\ Distinct'
<1>1. txList' = <<0>> => DOMAIN txList' = {1} /\ txList'[1] = 0
      OBVIOUS
<1> QED
    BY <1>1 DEF Listed, Distinct

\* A worker moves on; its transaction stays what it is.
LEMMA RelabelTxs ==
    ASSUME TypeInv, TxsInv, NEW w \in DOMAIN workers, NEW label, Relabelled(w, label),
           UNCHANGED <<coins, prv, mined>>,
           workers[w].at # "end",
           mempool' = mempool \/ (mempool' = mempool \cup {w} /\ w \notin mined),
           w \in mempool' \cup mined => label \notin {"start", "feeErr", "free"},
           label = "done" => w \in mined,
           txList' = txList \/ (txList' = Append(txList, w) /\ w \in mined /\ label = "end")
    PROVE  TxsInv'
<1>1. /\ DOMAIN workers' = DOMAIN workers
      /\ workers'[w].at = label
      /\ \A v \in DOMAIN workers : /\ workers'[v].ins = workers[v].ins
                                   /\ workers'[v].fee = workers[v].fee
                                   /\ v # w => workers'[v] = workers[v]
      BY DEF Relabelled
<1>2. mempool \subseteq DOMAIN workers /\ mined \subseteq DOMAIN workers
      BY DEF TypeInv, TypeOK
<1>3. Ended' = IF label = "end" THEN Ended \cup {w} ELSE Ended
      BY <1>1 DEF Ended
<1>4. Distinct /\ Listed \subseteq mined \cap Ended /\ w \notin Ended
      BY DEF TxsInv, Distinct, Ended
<1>5. Listed' \subseteq mined \cap Ended' /\ Distinct'
  <2>1. CASE txList' = txList
    <3>1. Listed' = Listed /\ Distinct'
          BY <1>4, <2>1 DEF Listed, Distinct
    <3> QED
        BY <1>3, <1>4, <3>1
  <2>2. CASE txList' = Append(txList, w) /\ w \in mined /\ label = "end"
    <3>1. txList \in Seq(Nat) /\ w \in Nat
          BY WorkerIs DEF TypeInv, TypeOK
    <3>2. Listed' = Listed \cup ({w} \ {0}) /\ Distinct'
          BY <1>4, <2>2, <3>1, AppendListed
    <3> QED
        BY <1>3, <1>4, <2>2, <3>2
  <2> QED
      BY <2>1, <2>2
<1>6. mempool' \cap mined' = {}
      BY DEF TxsInv
<1>7. \A v \in mempool' \cup mined' : workers'[v].at \notin {"start", "feeErr", "free"}
      BY <1>1, <1>2 DEF TxsInv
<1>8. \A v \in DOMAIN workers' : workers'[v].at = "done" => v \in mined'
      BY <1>1 DEF TxsInv
<1>9. \A v \in mined' : workers'[v].ins \cap coins' = {} /\ workers'[v].fee \cap prv' = {}
      BY <1>1, <1>2 DEF TxsInv
<1> QED
    BY <1>5, <1>6, <1>7, <1>8, <1>9 DEF TxsInv, Distinct

\* A worker reports only what is in a block, and is listed once.
LEMMA WorkerTxs ==
    ASSUME TypeInv, TxsInv, NEW w \in DOMAIN workers,
           \/ TooPoor(w) \/ FeeNotCovered(w) \/ Send(w) \/ InBlock(w) \/ WaitFails(w)
           \/ TokenFeeFails(w) \/ SendFails(w) \/ AnswerUnreadable(w) \/ ReceiveDone(w) \/ ReceiveErr(w)
    PROVE  TxsInv'
<1>1. CASE TooPoor(w) \/ FeeNotCovered(w) \/ SendFails(w) \/ WaitFails(w)
  <2>1. Relabelled(w, "err") /\ UNCHANGED <<chainVars, mainVars>>
        BY <1>1, WorkerStepIs
  <2>2. workers[w].at # "end"
        BY <1>1 DEF TooPoor, FeeNotCovered, SendFails, WaitFails
  <2> QED
      BY <2>1, <2>2, RelabelTxs DEF chainVars, mainVars
<1>2. CASE TokenFeeFails(w)
  <2>1. Relabelled(w, "feeErr") /\ UNCHANGED <<chainVars, mainVars>>
        BY <1>2, WorkerStepIs
  <2>2. workers[w].at = "start"
        BY <1>2 DEF TokenFeeFails
  <2>3. w \notin mempool \cup mined
        BY <2>2 DEF TxsInv
  <2> QED
      BY <2>1, <2>2, <2>3, RelabelTxs DEF chainVars, mainVars
<1>3. CASE InBlock(w)
  <2>1. Relabelled(w, "done") /\ UNCHANGED <<chainVars, mainVars>>
        BY <1>3, WorkerStepIs
  <2>2. workers[w].at # "end" /\ w \in mined
        BY <1>3 DEF InBlock
  <2> QED
      BY <2>1, <2>2, RelabelTxs DEF chainVars, mainVars
<1>4. CASE Send(w) \/ AnswerUnreadable(w)
  <2>1. /\ Relabelled(w, "wait") \/ Relabelled(w, "err")
        /\ UNCHANGED <<coins, value, nextId, prv, mined, mainVars>>
        /\ mempool' = mempool \/ mempool' = mempool \cup {w}
        BY <1>4, WorkerStepIs
  <2>2. workers[w].at \in {"start", "free"}
        BY <1>4 DEF Send, AnswerUnreadable
  <2>3. w \notin mined /\ workers[w].at # "end"
        BY <2>2 DEF TxsInv
  <2> QED
      BY <2>1, <2>3, RelabelTxs DEF mainVars
<1>5. CASE ReceiveDone(w)
  <2>1. Relabelled(w, "end")
        BY <1>5, WorkerStepIs
  <2>2. workers[w].at = "done" /\ txList' = Append(txList, w) /\ UNCHANGED chainVars
        BY <1>5 DEF ReceiveDone
  <2>3. w \in mined
        BY <2>2 DEF TxsInv
  <2> QED
      BY <2>1, <2>2, <2>3, RelabelTxs DEF chainVars
<1>6. CASE ReceiveErr(w)
  <2>1. \/ workers[w].at = "err" /\ Relabelled(w, "end")
        \/ workers[w].at = "feeErr" /\ Relabelled(w, "free")
        BY <1>6, WorkerStepIs
  <2>2. txList' = txList /\ UNCHANGED chainVars
        BY <1>6 DEF ReceiveErr
  <2>3. workers[w].at = "feeErr" => w \notin mempool \cup mined
        BY DEF TxsInv
  <2> QED
      BY <2>1, <2>2, <2>3, RelabelTxs DEF chainVars
<1> QED
    BY <1>1, <1>2, <1>3, <1>4, <1>5, <1>6

\* Quiet steps list no worker.
LEMMA QuietTxs ==
    ASSUME TypeInv, TxsInv, Quiet
    PROVE  TxsInv'
<1>1. /\ UNCHANGED <<prv, mempool, mined, workers>> /\ coins' \subseteq coins
      /\ txList' = txList \/ txList' = <<0>>
      BY QuietIs
<1>2. Listed \subseteq mined \cap Ended /\ Distinct
      BY DEF TxsInv, Distinct
<1>3. Listed' \subseteq mined \cap Ended /\ Distinct'
  <2>1. CASE txList' = txList
        BY <1>2, <2>1 DEF Listed, Distinct
  <2>2. CASE txList' = <<0>>
        BY <2>2, NoneListed
  <2> QED
      BY <1>1, <2>1, <2>2
<1>4. Ended' = Ended
      BY <1>1 DEF Ended
<1>5. \A w \in mined : workers[w].ins \cap coins' = {} /\ workers[w].fee \cap prv = {}
      BY <1>1 DEF TxsInv
<1> QED
    BY <1>1, <1>3, <1>4, <1>5 DEF TxsInv, Distinct

\* Coins made by a split are new.
LEMMA SplitIs ==
    ASSUME TypeInv, SplitPRVForFees
    PROVE  /\ UNCHANGED <<kind, coins, value, mempool, mined, rest, feeList, workers, first,
                          numDone, numErr, timeOut, outcome, faults>>
           /\ pc = "split" /\ pc' = "listPRV"
           /\ \A id \in prv' : id \in prv \/ (id \in Nat /\ id >= nextId)
           /\ Listed' = Listed /\ (Distinct => Distinct')
<1>1. /\ UNCHANGED <<kind, coins, value, mempool, mined, rest, feeList, workers, first,
                     numDone, numErr, timeOut, outcome, faults>>
      /\ pc = "split" /\ pc' = "listPRV"
      /\ \/ prv' = prv
         \/ \E kept \in SUBSET prv, change \in {{}, {nextId + NumThreads}} :
               prv' = kept \cup change \cup nextId .. nextId + NumThreads - 1
      /\ txList' = txList \/ txList' = Append(txList, 0)
      BY DEF SplitPRVForFees, Change
<1>2. nextId \in Nat /\ NumThreads \in Nat /\ txList \in Seq(Nat)
      BY RoundsAssumption DEF TypeInv, TypeOK
<1>3. \A id \in prv' : id \in prv \/ (id \in Nat /\ id >= nextId)
      BY <1>1, <1>2
<1>4. 0 \notin Listed
      BY DEF Listed
<1>5. Listed' = Listed /\ (Distinct => Distinct')
  <2>1. CASE txList' = txList
        BY <2>1 DEF Listed, Distinct
  <2>2. CASE txList' = Append(txList, 0)
    <3>1. Listed' = Listed
      <4> DEFINE n == Len(txList)
      <4>1. n \in Nat /\ DOMAIN txList = 1..n
            BY <1>2, LenProperties
      <4>2. /\ txList' \in Seq(Nat) /\ Len(txList') = n + 1 /\ txList'[n + 1] = 0
            /\ \A k \in 1..n : txList'[k] = txList[k]
            BY <1>2, <2>2, AppendProperties
      <4>3. DOMAIN txList' = 1..(n + 1)
            BY <4>2, LenProperties
      <4>4. DOMAIN txList' = DOMAIN txList \cup {n + 1}
            BY <4>1, <4>3
      <4>5. \A k \in DOMAIN txList : txList'[k] = txList[k]
            BY <4>1, <4>2
      <4> HIDE DEF n
      <4> QED
          BY <4>2, <4>4, <4>5 DEF Listed
    <3>2. Distinct => Distinct'
          BY <1>2, <1>4, <2>2, AppendListed
    <3> QED
        BY <3>1, <3>2
  <2> QED
      BY <1>1, <2>1, <2>2
<1> QED
    BY <1>1, <1>3, <1>5

\* The split spends no coin for a second time.
LEMMA SplitTxs ==
    ASSUME TypeInv, TxsInv, SplitPRVForFees
    PROVE  TxsInv'
<1>1. /\ UNCHANGED <<coins, mempool, mined, workers>>
      /\ \A id \in prv' : id \in prv \/ (id \in Nat /\ id >= nextId)
      /\ Listed' = Listed /\ (Distinct => Distinct')
      BY SplitIs
<1>2. Ended' = Ended
      BY <1>1 DEF Ended
<1>3. nextId \in Nat
      BY DEF TypeInv, TypeOK
<1>4. ASSUME NEW w \in mined PROVE workers[w].fee \cap prv' = {}
  <2>1. w \in DOMAIN workers
        BY DEF TypeInv, TypeOK
  <2>2. \A id \in workers[w].fee : id < nextId /\ id \in Nat
        BY <2>1, WorkerIs DEF TypeInv, IdsInv
  <2>3. workers[w].fee \cap prv = {}
        BY DEF TxsInv
  <2> QED
      BY <1>1, <1>3, <2>2, <2>3
<1> QED
    BY <1>1, <1>2, <1>4 DEF TxsInv, Distinct

\* A new worker has no transaction yet.
LEMMA LaunchTxs ==
    ASSUME TypeInv, TxsInv, Launch
    PROVE  TxsInv'
<1>1. UNCHANGED <<coins, prv, mempool, mined, txList>>
      BY DEF Launch, chainVars
<1>2. PICK new \in WorkerType : new.at = "start" /\ workers' = Append(workers, new)
      BY LaunchIs
<1>3. /\ DOMAIN workers' = DOMAIN workers \cup {Len(workers) + 1}
      /\ Len(workers) + 1 \notin DOMAIN workers
      /\ \A v \in DOMAIN workers : workers'[v] = workers[v]
      /\ workers'[Len(workers) + 1] = new
      BY <1>2, MoreWorkers DEF TypeInv
<1>4. mempool \subseteq DOMAIN workers /\ mined \subseteq DOMAIN workers
      BY DEF TypeInv, TypeOK
<1>5. Ended' = Ended /\ Listed' = Listed
      BY <1>1, <1>2, <1>3 DEF Ended, Listed
<1> QED
    BY <1>1, <1>2, <1>3, <1>4, <1>5 DEF TxsInv

\* What mining a transaction does: its inputs are gone, and what is new has
\* not been there before.
LEMMA MineIs ==
    ASSUME TypeInv, NEW w \in DOMAIN workers, Mine(w)
    PROVE  /\ UNCHANGED <<workers, mainVars, faults>>
           /\ w \in mempool /\ Spendable(w)
           /\ mempool' = mempool \ {w} /\ mined' = mined \cup {w}
           /\ \A id \in coins' : (id \in coins /\ id \notin workers[w].ins) \/ id = nextId
           /\ \A id \in prv' : (id \in prv /\ id \notin workers[w].fee) \/ id = nextId + 1
           /\ \A v \in DOMAIN workers : nextId \notin workers[v].ins /\ nextId + 1 \notin workers[v].fee
<1>1. nextId \in Nat
      BY DEF TypeInv, TypeOK
<1>2. \A v \in DOMAIN workers : nextId \notin workers[v].ins /\ nextId + 1 \notin workers[v].fee
      BY <1>1 DEF TypeInv, IdsInv
<1> QED
    BY <1>2 DEF Mine, Change

\* What the node mines is spent, and was not before.
LEMMA NodeTxs ==
    ASSUME TypeInv, TxsInv, NEW w \in DOMAIN workers, Mine(w) \/ Drop(w)
    PROVE  TxsInv'
<1>1. CASE Mine(w)
  <2>1. /\ UNCHANGED <<workers, mainVars>> /\ w \in mempool
        /\ mempool' = mempool \ {w} /\ mined' = mined \cup {w}
        /\ \A id \in coins' : (id \in coins /\ id \notin workers[w].ins) \/ id = nextId
        /\ \A id \in prv' : (id \in prv /\ id \notin workers[w].fee) \/ id = nextId + 1
        /\ \A v \in DOMAIN workers : nextId \notin workers[v].ins /\ nextId + 1 \notin workers[v].fee
        BY <1>1, MineIs
  <2>2. Ended' = Ended /\ Listed' = Listed /\ txList' = txList
        BY <2>1 DEF Ended, Listed, mainVars
  <2>3. mined \subseteq DOMAIN workers
        BY DEF TypeInv, TypeOK
  <2>4. \A v \in mined' : workers[v].ins \cap coins' = {} /\ workers[v].fee \cap prv' = {}
        BY <2>1, <2>3 DEF TxsInv
  <2> QED
      BY <2>1, <2>2, <2>4 DEF TxsInv
<1>2. CASE Drop(w)
  <2>1. mempool' \subseteq mempool /\ UNCHANGED <<coins, prv, mined, workers, txList>>
        BY <1>2 DEF Drop, mainVars
  <2>2. Ended' = Ended /\ Listed' = Listed
        BY <2>1 DEF Ended, Listed
  <2> QED
      BY <2>1, <2>2 DEF TxsInv
<1> QED
    BY <1>1, <1>2

\* Every step keeps what the node and the list know.
LEMMA TxsNext ==
    ASSUME TypeInv, TxsInv, [Next]_vars
    PROVE  TxsInv'
BY Steps, QuietTxs, SplitTxs, LaunchTxs, WorkerTxs, NodeTxs

-----------------------------------------------------------------------------
(* The rounds.                                                             *)

RoundPart ==
    /\ \A w \in DOMAIN workers : workers[w].at \notin {"feeErr", "free"}
    /\ \A w \in DOMAIN workers : w < first => w \in Ended
    /\ pc \in {"start", "list"} \/ outcome \in {"ok", "allFailed"} => Ended = DOMAIN workers
    /\ pc \in {"split", "listPRV"} => first = Len(workers) + 1
    /\ pc \in {"split", "listPRV", "launch"} => numDone = 0 /\ numErr = 0
    /\ pc = "launch" => Ended \cap Round = {}
    /\ pc = "collect" => numDone + numErr = Cardinality(Ended \cap Round)

\* Faults are only ever added, and the function called stays the same.
LEMMA FaultsGrow ==
    ASSUME TypeInv, [Next]_vars
    PROVE  /\ kind' = kind /\ faults \in Nat /\ faults' \in Nat
           /\ (faults' = faults \/ faults' > faults)
<1>1. faults \in Nat /\ (Fault => faults' > faults)
      BY FaultIs DEF TypeInv, IdsInv
<1>2. kind' = kind /\ (faults' = faults \/ faults' > faults)
  <2>1. CASE Quiet
    <3>1. kind' = kind
          BY <2>1, QuietIs
    <3>2. faults' = faults \/ Fault
          BY <2>1 DEF Quiet, StartConsolidating, StartConverting, ConvertDirectly, List, ListPRV,
             ListOrSplitFails, TooLittlePRV, NoFeeCoin, AllLaunched, TimerExpires,
             ReceiveTimeOut, Settle, vars
    <3> QED
        BY <1>1, <3>1, <3>2
  <2>2. CASE SplitPRVForFees \/ Launch
        BY <2>2 DEF SplitPRVForFees, Launch
  <2>3. ASSUME NEW w \in DOMAIN workers,
               \/ TooPoor(w) \/ FeeNotCovered(w) \/ Send(w) \/ InBlock(w) \/ WaitFails(w)
               \/ TokenFeeFails(w) \/ SendFails(w) \/ AnswerUnreadable(w)
        PROVE  kind' = kind /\ (faults' = faults \/ faults' > faults)
        BY <2>3, WorkerStepIs DEF mainVars
  <2>4. ASSUME NEW w \in DOMAIN workers,
               ReceiveDone(w) \/ ReceiveErr(w) \/ Mine(w) \/ Drop(w)
        PROVE  kind' = kind /\ faults' = faults
        BY <2>4 DEF ReceiveDone, ReceiveErr, Mine, Drop, mainVars
  <2> QED
      BY <2>1, <2>2, <2>3, <2>4, Steps
<1>3. faults' \in Nat
      BY TypeNext DEF TypeInv, IdsInv
<1> QED
    BY <1>1, <1>2, <1>3

\* Whether workers report twice only ever becomes true.
LEMMA ReportsTwiceStays ==
    ASSUME TypeInv, [Next]_vars, ~ReportsTwice'
    PROVE  ~ReportsTwice
<1>1. kind' = kind /\ (faults > 0 => faults' > 0)
      BY FaultsGrow
<1> QED
    BY <1>1 DEF ReportsTwice

\* The size of a round.
LEMMA RoundIs ==
    ASSUME TypeOK
    PROVE  /\ Len(workers) \in Nat /\ DOMAIN workers = 1..Len(workers)
           /\ first \in Nat /\ first >= 1 /\ first <= Len(workers) + 1
           /\ IsFiniteSet(Round) /\ Cardinality(Round) = numWORKERS
           /\ Ended \subseteq DOMAIN workers /\ Round \subseteq DOMAIN workers
           /\ IsFiniteSet(Ended \cap Round) /\ Cardinality(Ended \cap Round) \in Nat
           /\ Cardinality(Ended \cap Round) <= numWORKERS
           /\ Cardinality(Ended \cap Round) = numWORKERS => Round \subseteq Ended
<1>1. /\ Len(workers) \in Nat /\ DOMAIN workers = 1..Len(workers)
      /\ first \in Nat /\ first >= 1 /\ first <= Len(workers) + 1
      BY LenProperties DEF TypeOK
<1>2. IsFiniteSet(Round) /\ Cardinality(Round) = numWORKERS
  <2>1. /\ IsFiniteSet(Round)
        /\ Cardinality(Round) = IF first > Len(workers) THEN 0 ELSE Len(workers) - first + 1
    <3>1. first \in Int /\ Len(workers) \in Int
          BY <1>1
    <3> QED
        BY <3>1, FS_Interval, Zenon DEF Round
  <2> QED
      BY <1>1, <2>1 DEF numWORKERS
<1>3. Ended \subseteq DOMAIN workers /\ Round \subseteq DOMAIN workers
      BY <1>1 DEF Ended, Round
<1>4. /\ IsFiniteSet(Ended \cap Round) /\ Cardinality(Ended \cap Round) <= Cardinality(Round)
      /\ Cardinality(Ended \cap Round) = Cardinality(Round) => Ended \cap Round = Round
      BY <1>2, FS_Subset
<1>5. Cardinality(Ended \cap Round) \in Nat
      BY <1>4, FS_CardinalityType
<1> QED
    BY <1>1, <1>2, <1>3, <1>4, <1>5

\* A round ends, and the next begins, with all reports counted.
LEMMA QuietRound ==
    ASSUME TypeInv, RoundPart, Quiet
    PROVE  RoundPart'
<1>1. TypeOK
      BY DEF TypeInv
<1>2. workers' = workers
      BY QuietIs
<1>3. Ended' = Ended
      BY <1>2 DEF Ended
<1>4. /\ \A w \in DOMAIN workers : workers[w].at \notin {"feeErr", "free"}
      /\ \A w \in DOMAIN workers : w < first => w \in Ended
      BY DEF RoundPart
<1>5. CASE StartConsolidating \/ StartConverting \/ ConvertDirectly
  <2>1. pc = "start" /\ first' = first /\ pc' \in {"list", "returned"}
        BY <1>5 DEF StartConsolidating, StartConverting, ConvertDirectly, Return
  <2>2. Ended = DOMAIN workers
        BY <2>1 DEF RoundPart
  <2> QED
      BY <1>2, <1>3, <1>4, <2>1, <2>2 DEF RoundPart
<1>6. CASE List
  <2>1. Ended = DOMAIN workers
        BY <1>6 DEF List, RoundPart
  <2>2. \/ pc' = "returned" /\ first' = first
        \/ /\ pc' \in {"split", "launch"} /\ first' = Len(workers) + 1
           /\ numDone' = 0 /\ numErr' = 0
        BY <1>6 DEF List, Return
  <2>3. first' = Len(workers) + 1 => Round' = {}
    <3>1. Round' = first' .. Len(workers)
          BY <1>2 DEF Round
    <3>2. Len(workers) \in Nat
          BY <1>1, RoundIs
    <3> QED
        BY <3>1, <3>2
  <2> QED
      BY <1>2, <1>3, <1>4, <2>1, <2>2, <2>3 DEF RoundPart
<1>7. CASE ListPRV
  <2>1. pc = "listPRV" /\ pc' = "launch" /\ UNCHANGED <<first, numDone, numErr, outcome>>
        BY <1>7 DEF ListPRV
  <2>2. first = Len(workers) + 1 /\ numDone = 0 /\ numErr = 0
        BY <2>1 DEF RoundPart
  <2>3. Round' = {}
    <3>1. Round' = first .. Len(workers)
          BY <1>2, <2>1 DEF Round
    <3>2. Len(workers) \in Nat
          BY <1>1, RoundIs
    <3> QED
        BY <2>2, <3>1, <3>2
  <2>4. outcome' = "none"
        BY <2>1 DEF TypeInv, TypeOK
  <2> QED
      BY <1>2, <1>3, <1>4, <2>1, <2>2, <2>3, <2>4 DEF RoundPart
<1>8. CASE ListOrSplitFails \/ TooLittlePRV \/ NoFeeCoin \/ ReceiveTimeOut
  <2>1. pc' = "returned" /\ outcome' \notin {"ok", "allFailed"} /\ first' = first
        BY <1>8 DEF ListOrSplitFails, TooLittlePRV, NoFeeCoin, ReceiveTimeOut, Return
  <2> QED
      BY <1>2, <1>3, <1>4, <2>1 DEF RoundPart
<1>9. CASE AllLaunched
  <2>1. pc = "launch" /\ pc' = "collect" /\ UNCHANGED <<first, numDone, numErr, outcome>>
        BY <1>9 DEF AllLaunched
  <2>2. Ended \cap Round = {} /\ numDone = 0 /\ numErr = 0
        BY <2>1 DEF RoundPart
  <2>3. outcome' = "none"
        BY <2>1 DEF TypeInv, TypeOK
  <2>4. Ended' \cap Round' = {}
        BY <1>2, <1>3, <2>1, <2>2 DEF Round
  <2>5. Cardinality(Ended' \cap Round') = 0
        BY <2>4, FS_EmptySet
  <2> QED
      BY <1>2, <1>3, <1>4, <2>1, <2>2, <2>3, <2>5 DEF RoundPart
<1>10. CASE TimerExpires
  <2>1. UNCHANGED <<pc, first, numDone, numErr, outcome>>
        BY <1>10 DEF TimerExpires
  <2>2. Round' = Round
        BY <1>2, <2>1 DEF Round
  <2> QED
      BY <1>2, <1>3, <2>1, <2>2 DEF RoundPart
<1>11. CASE Settle
  <2>1. /\ pc = "collect" /\ pc' \in {"list", "returned"} /\ first' = first
        /\ numDone = numWORKERS \/ numErr = numWORKERS \/ numDone + numErr = numWORKERS
        BY <1>11 DEF Settle, Return, AllReported
  <2>2. numDone + numErr = Cardinality(Ended \cap Round) /\ numDone \in Nat /\ numErr \in Nat
        BY <2>1 DEF RoundPart, TypeInv, TypeOK
  <2>3. Round \subseteq Ended
    <3>1. /\ Cardinality(Ended \cap Round) <= numWORKERS
          /\ Cardinality(Ended \cap Round) = numWORKERS => Round \subseteq Ended
          /\ numWORKERS \in Int
          BY <1>1, RoundIs DEF numWORKERS
    <3> QED
        BY <2>1, <2>2, <3>1
  <2>4. Ended = DOMAIN workers
    <3>1. \A w \in DOMAIN workers : w < first \/ w \in Round
          BY <1>1, RoundIs DEF Round
    <3> QED
        BY <1>1, <1>4, <2>3, <3>1, RoundIs
  <2> QED
      BY <1>2, <1>3, <1>4, <2>1, <2>4 DEF RoundPart
<1>12. CASE UNCHANGED vars
  <2>1. UNCHANGED <<pc, first, numDone, numErr, outcome>>
        BY <1>12 DEF vars
  <2>2. Round' = Round
        BY <1>2, <2>1 DEF Round
  <2> QED
      BY <1>2, <1>3, <2>1, <2>2 DEF RoundPart
<1> QED
    BY <1>5, <1>6, <1>7, <1>8, <1>9, <1>10, <1>11, <1>12 DEF Quiet

\* A new worker belongs to the round and has not ended.
LEMMA LaunchRound ==
    ASSUME TypeInv, RoundPart, Launch
    PROVE  RoundPart'
<1>1. pc = "launch" /\ UNCHANGED <<pc, first, numDone, numErr, outcome>>
      BY DEF Launch
<1>2. PICK new \in WorkerType : new.at = "start" /\ workers' = Append(workers, new)
      BY LaunchIs
<1> DEFINE n == Len(workers) + 1
<1>3. /\ DOMAIN workers' = DOMAIN workers \cup {n} /\ Len(workers') = n
      /\ n \notin DOMAIN workers
      /\ \A v \in DOMAIN workers : workers'[v] = workers[v]
      /\ workers'[n] = new
      BY <1>2, MoreWorkers DEF TypeInv
<1>4. Ended' = Ended
      BY <1>2, <1>3 DEF Ended
<1>5. first <= n /\ first \in Nat /\ Len(workers) \in Nat /\ Ended \subseteq DOMAIN workers
      BY RoundIs DEF TypeInv
<1>6. Round' = Round \cup {n}
  <2>1. Round' = first .. n
        BY <1>1, <1>3 DEF Round
  <2>2. Round = first .. Len(workers)
        BY DEF Round
  <2>3. first .. (Len(workers) + 1) = (first .. Len(workers)) \cup {Len(workers) + 1}
        BY <1>5
  <2> QED
      BY <2>1, <2>2, <2>3
<1>7. outcome' = "none"
      BY <1>1 DEF TypeInv, TypeOK
<1>8. ~(n < first)
      BY <1>5
<1> HIDE DEF n
<1>9. /\ \A w \in DOMAIN workers : workers[w].at \notin {"feeErr", "free"}
      /\ \A w \in DOMAIN workers : w < first => w \in Ended
      /\ numDone = 0 /\ numErr = 0 /\ Ended \cap Round = {}
      BY <1>1 DEF RoundPart
<1>10. Ended' \cap Round' = {}
       BY <1>3, <1>4, <1>5, <1>6, <1>9
<1> QED
    BY <1>1, <1>2, <1>3, <1>4, <1>7, <1>8, <1>9, <1>10 DEF RoundPart

\* A worker moves on without ending.
LEMMA RelabelRound ==
    ASSUME TypeInv, RoundPart, NEW w \in DOMAIN workers, NEW label, Relabelled(w, label),
           UNCHANGED <<pc, first, numDone, numErr, outcome>>,
           label \notin {"end", "feeErr", "free"}, workers[w].at # "end"
    PROVE  RoundPart'
<1>1. /\ DOMAIN workers' = DOMAIN workers /\ Len(workers') = Len(workers)
      /\ workers'[w].at = label
      /\ \A v \in DOMAIN workers : v # w => workers'[v] = workers[v]
      BY DEF Relabelled
<1>2. Ended' = Ended
      BY <1>1 DEF Ended
<1>3. Round' = Round
      BY <1>1 DEF Round
<1> QED
    BY <1>1, <1>2, <1>3 DEF RoundPart

\* A worker's report is received.
LEMMA ReportRound ==
    ASSUME TypeInv, RoundPart, NEW w \in DOMAIN workers, ReceiveDone(w) \/ ReceiveErr(w)
    PROVE  RoundPart'
<1>1. /\ pc = "collect" /\ UNCHANGED <<pc, first, outcome>> /\ workers[w].at # "end"
      /\ \/ numDone' = numDone + 1 /\ numErr' = numErr
         \/ numDone' = numDone /\ numErr' = numErr + 1
      BY DEF ReceiveDone, ReceiveErr
<1>2. Relabelled(w, "end")
      BY WorkerStepIs DEF RoundPart
<1>3. /\ DOMAIN workers' = DOMAIN workers /\ Len(workers') = Len(workers)
      /\ workers'[w].at = "end"
      /\ \A v \in DOMAIN workers : v # w => workers'[v] = workers[v]
      BY <1>2 DEF Relabelled
<1>4. Ended' = Ended \cup {w} /\ w \notin Ended
      BY <1>1, <1>3 DEF Ended
<1>5. Round' = Round
      BY <1>1, <1>3 DEF Round
<1>6. w \in Round
  <2>1. ~(w < first)
        BY <1>4 DEF RoundPart
  <2> QED
      BY <2>1, RoundIs DEF TypeInv, Round
<1>7. Ended' \cap Round' = (Ended \cap Round) \cup {w}
      BY <1>4, <1>5, <1>6
<1>8. Cardinality(Ended' \cap Round') = Cardinality(Ended \cap Round) + 1
  <2>1. IsFiniteSet(Ended \cap Round) /\ w \notin Ended \cap Round
        BY <1>4, RoundIs DEF TypeInv
  <2> QED
      BY <1>7, <2>1, FS_AddElement
<1>9. numDone + numErr = Cardinality(Ended \cap Round)
      BY <1>1 DEF RoundPart
<1>10. numDone' + numErr' = Cardinality(Ended' \cap Round')
  <2>1. numDone \in Nat /\ numErr \in Nat /\ Cardinality(Ended \cap Round) \in Nat
        BY RoundIs DEF TypeInv, TypeOK
  <2> QED
      BY <1>1, <1>8, <1>9, <2>1
<1>11. outcome' = "none"
       BY <1>1 DEF TypeInv, TypeOK
<1> QED
    BY <1>1, <1>3, <1>4, <1>10, <1>11 DEF RoundPart

\* Every step keeps the rounds apart, unless a worker reports twice.
LEMMA RoundNext ==
    ASSUME TypeInv, RoundInv, [Next]_vars
    PROVE  RoundInv'
<1> SUFFICES ASSUME ~ReportsTwice' PROVE RoundPart'
    BY DEF RoundInv, RoundPart
<1>1. RoundPart
      BY ReportsTwiceStays DEF RoundInv, RoundPart
<1>2. CASE Quiet \/ Launch
      BY <1>1, <1>2, QuietRound, LaunchRound
<1>3. CASE SplitPRVForFees
  <2>1. UNCHANGED <<workers, first, numDone, numErr, outcome>> /\ pc = "split" /\ pc' = "listPRV"
        BY <1>3 DEF SplitPRVForFees
  <2>2. Ended' = Ended /\ Round' = Round
        BY <2>1 DEF Ended, Round
  <2> QED
      BY <1>1, <2>1, <2>2 DEF RoundPart
<1>4. ASSUME NEW w \in DOMAIN workers,
             \/ TooPoor(w) \/ FeeNotCovered(w) \/ SendFails(w) \/ WaitFails(w)
             \/ Send(w) \/ AnswerUnreadable(w) \/ InBlock(w)
      PROVE  RoundPart'
  <2>1. \E label \in {"err", "wait", "done"} : Relabelled(w, label)
        BY <1>4, WorkerStepIs
  <2>2. UNCHANGED <<pc, first, numDone, numErr, outcome>>
        BY <1>4, WorkerStepIs DEF mainVars
  <2>3. workers[w].at # "end"
        BY <1>4 DEF TooPoor, FeeNotCovered, SendFails, WaitFails, Send, AnswerUnreadable, InBlock
  <2> QED
      BY <1>1, <2>1, <2>2, <2>3, RelabelRound
<1>5. ASSUME NEW w \in DOMAIN workers, TokenFeeFails(w) PROVE FALSE
  <2>1. kind = "TokenV1" /\ kind' = kind /\ Fault
        BY <1>5 DEF TokenFeeFails, mainVars
  <2> QED
      BY <2>1, FaultIs DEF ReportsTwice
<1>6. ASSUME NEW w \in DOMAIN workers, ReceiveDone(w) \/ ReceiveErr(w) PROVE RoundPart'
      BY <1>1, <1>6, ReportRound
<1>7. ASSUME NEW w \in DOMAIN workers, Mine(w) \/ Drop(w) PROVE RoundPart'
  <2>1. UNCHANGED <<workers, first, numDone, numErr, outcome, pc>>
        BY <1>7 DEF Mine, Drop, mainVars
  <2>2. Ended' = Ended /\ Round' = Round
        BY <2>1 DEF Ended, Round
  <2> QED
      BY <1>1, <2>1, <2>2 DEF RoundPart
<1> QED
    BY <1>2, <1>3, <1>4, <1>5, <1>6, <1>7, Steps

-----------------------------------------------------------------------------
(* The coins of a worker.                                                  *)

SharePart ==
    /\ \A w, v \in DOMAIN workers : w < v /\ Sharing(w, v) => w \notin Holding
    /\ pc \in {"split", "listPRV", "launch"} =>
          \A w \in Holding : workers[w].ins \cap rest = {}
    /\ pc = "launch" => \A w \in Holding : workers[w].fee \cap feeList = {}

\* Steps that give no coin to a worker.
LEMMA SameShare ==
    ASSUME SharePart, DOMAIN workers' = DOMAIN workers,
           \A v \in DOMAIN workers : workers'[v].ins = workers[v].ins /\ workers'[v].fee = workers[v].fee,
           Holding' \subseteq Holding,
           \/ UNCHANGED <<pc, rest, feeList>>
           \/ pc' \notin {"split", "listPRV", "launch"}
           \/ pc = "split" /\ pc' = "listPRV" /\ rest' = rest
    PROVE  SharePart'
<1>1. \A w, v \in DOMAIN workers : Sharing(w, v)' = Sharing(w, v)
      BY DEF Sharing
<1>2. Holding \subseteq DOMAIN workers
      BY DEF Holding
<1>3. \A w, v \in DOMAIN workers' : w < v /\ Sharing(w, v)' => w \notin Holding'
      BY <1>1 DEF SharePart
<1>4. pc' \in {"split", "listPRV", "launch"} => \A w \in Holding' : workers'[w].ins \cap rest' = {}
      BY <1>2 DEF SharePart
<1>5. pc' = "launch" => \A w \in Holding' : workers'[w].fee \cap feeList' = {}
      BY <1>2 DEF SharePart
<1> QED
    BY <1>3, <1>4, <1>5 DEF SharePart

\* A new worker gets coins of the list, which no other one holds.
LEMMA LaunchShare ==
    ASSUME TypeInv, SharePart, Launch
    PROVE  SharePart'
<1>1. pc = "launch" /\ pc' = pc /\ first' = first /\ txList' = txList
      BY DEF Launch
<1>2. PICK batch \in SUBSET rest, feeCoin \in SUBSET feeList :
          LET new == NewWorker(batch, feeCoin)
          IN  /\ new \in WorkerType /\ new.at = "start" /\ new.ins = batch /\ new.fee = feeCoin
              /\ workers' = Append(workers, new)
              /\ rest' = rest \ batch /\ feeList' = feeList \ feeCoin
              /\ IF FeeInPRV THEN Cardinality(feeCoin) = 1 ELSE feeCoin = {}
      BY LaunchIs
<1>5. PICK n \in Nat : n = Len(workers) + 1
      BY RoundIs DEF TypeInv
<1>3. /\ DOMAIN workers' = DOMAIN workers \cup {n}
      /\ n \notin DOMAIN workers
      /\ \A v \in DOMAIN workers : workers'[v] = workers[v]
      /\ workers'[n].ins = batch /\ workers'[n].fee = feeCoin
      BY <1>2, <1>5, MoreWorkers DEF TypeInv
<1>4. \A w \in DOMAIN workers : w \in Nat /\ ~(n < w)
      BY <1>5, RoundIs DEF TypeInv
<1>6. Holding \subseteq DOMAIN workers /\ Holding' \subseteq Holding \cup {n}
  <2>1. Listed' = Listed
        BY <1>1 DEF Listed
  <2> QED
      BY <1>1, <1>3, <2>1 DEF Holding
<1>7. rest' = rest \ batch /\ feeList' = feeList \ feeCoin
      BY <1>2
<1>8. /\ \A w \in Holding : workers[w].ins \cap rest = {}
      /\ \A w \in Holding : workers[w].fee \cap feeList = {}
      /\ \A w, v \in DOMAIN workers : w < v /\ Sharing(w, v) => w \notin Holding
      BY <1>1 DEF SharePart
<1>9. \A w, v \in DOMAIN workers : Sharing(w, v)' = Sharing(w, v)
      BY <1>3 DEF Sharing
<1>10. \A w \in Holding : ~Sharing(w, n)'
       BY <1>3, <1>6, <1>8 DEF Sharing
<1>11. ~(n < n)
       BY <1>5
<1>12. ASSUME NEW w \in DOMAIN workers', NEW v \in DOMAIN workers', w < v, Sharing(w, v)'
       PROVE  w \notin Holding'
  <2>1. CASE w = n
        BY <1>3, <1>4, <1>11, <1>12, <2>1
  <2>2. CASE w # n /\ v = n
        BY <1>6, <1>10, <1>12, <2>2
  <2>3. CASE w # n /\ v # n
        BY <1>3, <1>6, <1>8, <1>9, <1>12, <2>3
  <2> QED
      BY <2>1, <2>2, <2>3
<1>13. \A w \in Holding' : workers'[w].ins \cap rest' = {} /\ workers'[w].fee \cap feeList' = {}
       BY <1>3, <1>6, <1>7, <1>8
<1> QED
    BY <1>12, <1>13 DEF SharePart

\* Listing the coins anew.
LEMMA ListShare ==
    ASSUME TypeInv, TxsInv, RoundPart, SharePart, List \/ ListPRV
    PROVE  SharePart'
<1>1. workers' = workers /\ txList' = txList
      BY DEF List, ListPRV
<1>2. Listed' = Listed
      BY <1>1 DEF Listed
<1>3. Len(workers) \in Nat /\ DOMAIN workers = 1..Len(workers)
      BY RoundIs DEF TypeInv
<1>4. \A w \in Listed : workers[w].ins \cap coins = {} /\ workers[w].fee \cap prv = {}
      BY DEF TxsInv
<1>5. \A w, v : Sharing(w, v)' = Sharing(w, v)
      BY <1>1 DEF Sharing
<1>6. ASSUME first' = Len(workers) + 1, first <= first'
      PROVE  Holding' \subseteq Listed /\ Holding' \subseteq Holding
      BY <1>1, <1>2, <1>3, <1>6 DEF Holding
<1>7. CASE List
  <2>1. CASE pc' = "returned" /\ first' = first
    <3>1. Holding' = Holding
          BY <1>1, <1>2, <2>1 DEF Holding
    <3> QED
        BY <1>1, <2>1, <3>1, SameShare
  <2>2. CASE /\ pc' = IF FeeInPRV THEN "split" ELSE "launch"
             /\ rest' = coins /\ first' = Len(workers) + 1 /\ feeList' = feeList
    <3>1. Holding' \subseteq Listed /\ Holding' \subseteq Holding
          BY <1>6, <2>2, RoundIs DEF TypeInv
    <3>2. \A w \in Holding' : workers'[w].ins \cap rest' = {}
          BY <1>1, <1>4, <2>2, <3>1
    <3>3. pc' = "launch" => feeList' = {}
          BY <2>2 DEF TypeInv, IdsInv
    <3>4. \A w, v \in DOMAIN workers' : w < v /\ Sharing(w, v)' => w \notin Holding'
          BY <1>1, <1>5, <3>1 DEF SharePart
    <3> QED
        BY <3>2, <3>3, <3>4 DEF SharePart
  <2> QED
      BY <1>7, <2>1, <2>2 DEF List, Return
<1>8. CASE ListPRV
  <2>1. pc = "listPRV" /\ pc' = "launch" /\ first' = first /\ rest' = rest /\ feeList' = prv
        BY <1>8 DEF ListPRV
  <2>2. first = Len(workers) + 1
        BY <2>1 DEF RoundPart
  <2>3. Holding' \subseteq Listed /\ Holding' \subseteq Holding
        BY <1>3, <1>6, <2>1, <2>2
  <2>4. \A w \in Holding' : workers'[w].fee \cap feeList' = {}
        BY <1>1, <1>4, <2>1, <2>3
  <2>5. \A w \in Holding' : workers'[w].ins \cap rest' = {}
        BY <1>1, <2>1, <2>3 DEF SharePart
  <2>6. \A w, v \in DOMAIN workers' : w < v /\ Sharing(w, v)' => w \notin Holding'
        BY <1>1, <1>5, <2>3 DEF SharePart
  <2> QED
      BY <2>4, <2>5, <2>6 DEF SharePart
<1> QED
    BY <1>7, <1>8

\* Quiet steps give no coin to a worker.
LEMMA QuietShare ==
    ASSUME TypeInv, TxsInv, RoundPart, SharePart, Quiet
    PROVE  SharePart'
<1>1. workers' = workers /\ (txList' = txList \/ txList' = <<0>>)
      BY QuietIs
<1>2. Listed' \subseteq Listed
      BY <1>1, NoneListed DEF Listed
<1>3. CASE List \/ ListPRV
      BY <1>3, ListShare
<1>4. CASE ~List /\ ~ListPRV
  <2>1. first' = first /\ rest' = rest /\ feeList' = feeList
        BY <1>4 DEF Quiet, StartConsolidating, StartConverting, ConvertDirectly, ListOrSplitFails,
           TooLittlePRV, NoFeeCoin, AllLaunched, TimerExpires, ReceiveTimeOut, Settle, vars
  <2>2. pc' = pc \/ pc' \notin {"split", "listPRV", "launch"}
        BY <1>4 DEF Quiet, StartConsolidating, StartConverting, ConvertDirectly, ListOrSplitFails,
           TooLittlePRV, NoFeeCoin, AllLaunched, TimerExpires, ReceiveTimeOut, Settle, vars, Return
  <2>3. Holding' \subseteq Holding
        BY <1>1, <1>2, <2>1 DEF Holding
  <2> QED
      BY <1>1, <2>1, <2>2, <2>3, SameShare
<1> QED
    BY <1>3, <1>4

\* Every step keeps held coins with one worker.
LEMMA ShareNext ==
    ASSUME TypeInv, TxsInv, RoundInv, ShareInv, [Next]_vars
    PROVE  ShareInv'
<1> SUFFICES ASSUME ~ReportsTwice' PROVE SharePart'
    BY DEF ShareInv, SharePart
<1>1. RoundPart /\ SharePart
      BY ReportsTwiceStays DEF RoundInv, RoundPart, ShareInv, SharePart
<1>2. CASE Quiet \/ Launch
      BY <1>1, <1>2, QuietShare, LaunchShare
<1>3. CASE SplitPRVForFees
  <2>1. UNCHANGED <<workers, first, rest>> /\ Listed' = Listed /\ pc = "split" /\ pc' = "listPRV"
        BY <1>3, SplitIs
  <2>2. Holding' = Holding
        BY <2>1 DEF Holding
  <2> QED
      BY <1>1, <2>1, <2>2, SameShare
<1>4. ASSUME NEW w \in DOMAIN workers,
             \/ TooPoor(w) \/ FeeNotCovered(w) \/ SendFails(w) \/ WaitFails(w)
             \/ Send(w) \/ AnswerUnreadable(w) \/ InBlock(w) \/ TokenFeeFails(w)
      PROVE  SharePart'
  <2>1. PICK label : Relabelled(w, label)
        BY <1>4, WorkerStepIs
  <2>2. UNCHANGED <<pc, rest, feeList, first, txList>>
        BY <1>4, WorkerStepIs DEF mainVars
  <2>3. Holding' = Holding
        BY <2>1, <2>2 DEF Holding, Listed, Relabelled
  <2> QED
      BY <1>1, <2>1, <2>2, <2>3, SameShare DEF Relabelled
<1>5. ASSUME NEW w \in DOMAIN workers, ReceiveDone(w) \/ ReceiveErr(w) PROVE SharePart'
  <2>1. PICK label : Relabelled(w, label)
        BY <1>5, WorkerStepIs
  <2>2. /\ UNCHANGED <<pc, rest, feeList, first>> /\ workers[w].at # "end"
        /\ txList' = txList \/ txList' = Append(txList, w)
        BY <1>5 DEF ReceiveDone, ReceiveErr
  <2>3. w \in Holding /\ w \notin Listed
    <3>1. w \notin Ended /\ Listed \subseteq Ended
          BY <2>2 DEF Ended, TxsInv
    <3>2. ~(w < first)
          BY <1>1, <3>1 DEF RoundPart
    <3>3. w \in Nat /\ first \in Nat
          BY RoundIs DEF TypeInv
    <3>4. w >= first
          BY <3>2, <3>3
    <3> QED
        BY <3>1, <3>4 DEF Holding
  <2>4. Listed' \subseteq Listed \cup {w}
    <3>1. CASE txList' = txList
          BY <3>1 DEF Listed
    <3>2. CASE txList' = Append(txList, w)
      <4>1. txList \in Seq(Nat) /\ w \in Nat /\ Distinct
            BY WorkerIs DEF TypeInv, TypeOK, TxsInv, Distinct
      <4> QED
          BY <2>3, <3>2, <4>1, AppendListed
    <3> QED
        BY <2>2, <3>1, <3>2
  <2>5. Holding' \subseteq Holding
        BY <2>1, <2>2, <2>3, <2>4 DEF Holding, Relabelled
  <2> QED
      BY <1>1, <2>1, <2>2, <2>5, SameShare DEF Relabelled
<1>6. ASSUME NEW w \in DOMAIN workers, Mine(w) \/ Drop(w) PROVE SharePart'
  <2>1. UNCHANGED <<workers, pc, rest, feeList, first, txList>>
        BY <1>6 DEF Mine, Drop, mainVars
  <2>2. Holding' = Holding
        BY <2>1 DEF Holding, Listed
  <2> QED
      BY <1>1, <2>1, <2>2, SameShare
<1> QED
    BY <1>2, <1>3, <1>4, <1>5, <1>6, Steps

-----------------------------------------------------------------------------
(* The fee coins.                                                          *)

FeePart ==
    /\ \A w \in mempool : workers[w].at \in {"err", "end"} => ~Spendable(w)
    /\ FeeInPRV /\ pc = "listPRV" => Cardinality(prv) >= NumThreads
    /\ FeeInPRV /\ pc = "launch" => Cardinality(feeList) + numWORKERS >= NumThreads
    /\ outcome # "noFeeCoin"

\* A transaction that has lost an input never becomes possible again: coins
\* that come into being are new ones.
LEMMA StaysSpent ==
    ASSUME TypeInv, NEW v \in DOMAIN workers, ~Spendable(v),
           workers'[v].ins = workers[v].ins, workers'[v].fee = workers[v].fee,
           \A id \in coins' : id \in coins \/ (id \in Nat /\ id >= nextId),
           \A id \in prv' : id \in prv \/ (id \in Nat /\ id >= nextId)
    PROVE  ~(Spendable(v)')
<1>1. nextId \in Nat
      BY DEF TypeInv, TypeOK
<1>2. \A id \in workers[v].ins \cup workers[v].fee : id < nextId
      BY DEF TypeInv, IdsInv
<1>3. \A id \in workers[v].ins \cup workers[v].fee : ~(id \in Nat /\ id >= nextId)
      BY <1>1, <1>2
<1> QED
    BY <1>3 DEF Spendable

\* A new coin is taken off the list for each new worker.
LEMMA LaunchFee ==
    ASSUME TypeInv, FeePart, Launch
    PROVE  FeePart'
<1>1. pc = "launch" /\ UNCHANGED <<kind, coins, prv, mempool, pc, first, outcome>>
      BY DEF Launch, chainVars
<1>2. PICK feeCoin \in SUBSET feeList, new \in WorkerType :
          /\ workers' = Append(workers, new)
          /\ feeList' = feeList \ feeCoin
          /\ FeeInPRV => Cardinality(feeCoin) = 1
      BY LaunchIs
<1>3. /\ Len(workers) \in Nat /\ Len(workers') = Len(workers) + 1
      /\ \A v \in DOMAIN workers : workers'[v] = workers[v]
      BY <1>2, MoreWorkers DEF TypeInv
<1>4. mempool \subseteq DOMAIN workers /\ first \in Nat
      BY RoundIs DEF TypeInv, TypeOK
<1>5. \A w \in mempool' : workers'[w].at \in {"err", "end"} => ~(Spendable(w)')
      BY <1>1, <1>3, <1>4 DEF FeePart, Spendable
<1>6. FeeInPRV' = FeeInPRV
      BY <1>1 DEF FeeInPRV
<1>7. ASSUME FeeInPRV PROVE Cardinality(feeList') + numWORKERS' >= NumThreads
  <2>1. IsFiniteSet(feeList)
        BY DEF TypeInv, IdsInv
  <2>2. IsFiniteSet(feeCoin) /\ feeList \cap feeCoin = feeCoin
        BY <2>1, FS_Subset
  <2>3. Cardinality(feeList \ feeCoin) = Cardinality(feeList) - Cardinality(feeList \cap feeCoin)
        BY <2>1, <2>2, FS_Difference
  <2>4. Cardinality(feeList) \in Nat
        BY <2>1, FS_CardinalityType
  <2>5. Cardinality(feeList') = Cardinality(feeList) - 1
        BY <1>2, <1>7, <2>2, <2>3
  <2>6. numWORKERS' = numWORKERS + 1 /\ numWORKERS \in Int
        BY <1>1, <1>3, <1>4 DEF numWORKERS
  <2>7. Cardinality(feeList) + numWORKERS >= NumThreads /\ NumThreads \in Nat
        BY <1>1, <1>7, RoundsAssumption DEF FeePart
  <2> QED
      BY <2>4, <2>5, <2>6, <2>7
<1> QED
    BY <1>1, <1>5, <1>6, <1>7 DEF FeePart

\* With NumThreads coins or NumThreads new ones there are enough.
LEMMA SplitFee ==
    ASSUME TypeInv, FeePart, SplitPRVForFees
    PROVE  FeePart'
<1>1. UNCHANGED <<kind, coins, mempool, workers, outcome>> /\ pc' = "listPRV"
      BY SplitIs
<1>2. \A id \in prv' : id \in prv \/ (id \in Nat /\ id >= nextId)
      BY SplitIs
<1>3. mempool \subseteq DOMAIN workers
      BY DEF TypeInv, TypeOK
<1>4. \A w \in mempool' : workers'[w].at \in {"err", "end"} => ~(Spendable(w)')
      BY <1>1, <1>2, <1>3, StaysSpent DEF FeePart
<1>5. Cardinality(prv') >= NumThreads
  <2>1. CASE prv' = prv /\ EnoughFeeCoins
        BY <2>1 DEF EnoughFeeCoins
  <2>2. CASE (nextId .. nextId + NumThreads - 1) \subseteq prv'
    <3> DEFINE last == nextId + NumThreads - 1
    <3>1. nextId \in Nat /\ NumThreads \in Nat \ {0}
          BY RoundsAssumption DEF TypeInv, TypeOK
    <3>2. nextId \in Int /\ last \in Int /\ ~(nextId > last) /\ last - nextId + 1 = NumThreads
          BY <3>1
    <3> HIDE DEF last
    <3>3. Cardinality(nextId .. last) = IF nextId > last THEN 0 ELSE last - nextId + 1
          BY <3>2, FS_Interval, Zenon
    <3>4. IsFiniteSet(prv')
          BY TypeNext, SplitType DEF TypeInv, IdsInv
    <3>5. (nextId .. last) \subseteq prv'
          BY <2>2 DEF last
    <3>6. Cardinality(nextId .. last) <= Cardinality(prv')
          BY <3>4, <3>5, FS_Subset
    <3>7. Cardinality(nextId .. last) = NumThreads
          BY <3>2, <3>3
    <3>8. Cardinality(prv') \in Nat
          BY <3>4, FS_CardinalityType
    <3> QED
        BY <3>1, <3>6, <3>7, <3>8
  <2> QED
      BY <2>1, <2>2 DEF SplitPRVForFees
<1> QED
    BY <1>1, <1>4, <1>5 DEF FeePart

\* With a coin for each thread listed, none is missing.
LEMMA QuietFee ==
    ASSUME TypeInv, RoundPart, FeePart, Quiet
    PROVE  FeePart'
<1>1. UNCHANGED <<kind, prv, mempool, workers>> /\ coins' \subseteq coins
      BY QuietIs
<1>2. mempool \subseteq DOMAIN workers
      BY DEF TypeInv, TypeOK
<1>3. \A w \in mempool' : workers'[w].at \in {"err", "end"} => ~(Spendable(w)')
      BY <1>1, <1>2 DEF FeePart, Spendable
<1>4. FeeInPRV' = FeeInPRV
      BY <1>1 DEF FeeInPRV
<1>5. NumThreads \in Nat /\ Len(workers) \in Nat /\ first \in Nat
      BY RoundIs, RoundsAssumption DEF TypeInv
<1>6. CASE NoFeeCoin
  <2>1. pc = "launch" /\ FeeInPRV /\ numWORKERS < NumThreads /\ feeList = {}
        BY <1>6 DEF NoFeeCoin
  <2>2. Cardinality(feeList) = 0
        BY <2>1, FS_EmptySet
  <2>3. 0 + numWORKERS >= NumThreads
        BY <2>1, <2>2 DEF FeePart
  <2>4. numWORKERS \in Int
        BY <1>5 DEF numWORKERS
  <2> QED
      BY <1>5, <2>1, <2>3, <2>4
<1>7. CASE ListPRV
  <2>1. pc = "listPRV" /\ pc' = "launch" /\ feeList' = prv /\ first' = first /\ outcome' = outcome
        BY <1>7 DEF ListPRV
  <2>2. first = Len(workers) + 1
        BY <2>1 DEF RoundPart
  <2>3. numWORKERS' = 0
        BY <1>1, <1>5, <2>1, <2>2 DEF numWORKERS
  <2>4. FeeInPRV => Cardinality(prv) >= NumThreads
        BY <2>1 DEF FeePart
  <2>5. Cardinality(prv) \in Nat
        BY FS_CardinalityType DEF TypeInv, IdsInv
  <2>6. FeeInPRV => Cardinality(feeList') + numWORKERS' >= NumThreads
        BY <1>5, <2>1, <2>3, <2>4, <2>5
  <2> QED
      BY <1>3, <1>4, <2>1, <2>6 DEF FeePart
<1>8. CASE List
  <2>1. /\ pc' # "listPRV" /\ (FeeInPRV => pc' # "launch")
        /\ (outcome' = outcome \/ outcome' = "ok")
        BY <1>8 DEF List, Return
  <2> QED
      BY <1>3, <1>4, <2>1 DEF FeePart
<1>9. CASE ~NoFeeCoin /\ ~ListPRV /\ ~List
  <2>1. first' = first /\ feeList' = feeList
        BY <1>9 DEF Quiet, StartConsolidating, StartConverting, ConvertDirectly, ListOrSplitFails,
           TooLittlePRV, AllLaunched, TimerExpires, ReceiveTimeOut, Settle, vars
  <2>2. pc' = pc \/ pc' \notin {"listPRV", "launch"}
        BY <1>9 DEF Quiet, StartConsolidating, StartConverting, ConvertDirectly, ListOrSplitFails,
           TooLittlePRV, AllLaunched, TimerExpires, ReceiveTimeOut, Settle, vars, Return
  <2>3. outcome' = outcome \/ outcome' # "noFeeCoin"
        BY <1>9 DEF Quiet, StartConsolidating, StartConverting, ConvertDirectly, ListOrSplitFails,
           TooLittlePRV, AllLaunched, TimerExpires, ReceiveTimeOut, Settle, vars, Return
  <2>4. numWORKERS' = numWORKERS
        BY <1>1, <2>1 DEF numWORKERS
  <2> QED
      BY <1>1, <1>3, <1>4, <2>1, <2>2, <2>3, <2>4 DEF FeePart
<1> QED
    BY <1>6, <1>7, <1>8, <1>9

\* A worker whose label changes: the coins and the lists are as before.
LEMMA RelabelFee ==
    ASSUME TypeInv, FeePart, NEW w \in DOMAIN workers, NEW label, Relabelled(w, label),
           UNCHANGED <<kind, coins, prv, pc, feeList, first, outcome>>,
           mempool' \subseteq mempool \cup {w},
           w \in mempool' /\ label \in {"err", "end"} => ~Spendable(w)
    PROVE  FeePart'
<1>1. /\ Len(workers') = Len(workers) /\ workers'[w].at = label
      /\ \A v \in DOMAIN workers : /\ workers'[v].ins = workers[v].ins
                                   /\ workers'[v].fee = workers[v].fee
                                   /\ v # w => workers'[v] = workers[v]
      BY DEF Relabelled
<1>2. \A v \in DOMAIN workers : Spendable(v)' = Spendable(v)
      BY <1>1 DEF Spendable
<1>3. mempool \subseteq DOMAIN workers
      BY DEF TypeInv, TypeOK
<1>4. \A v \in mempool' : workers'[v].at \in {"err", "end"} => ~(Spendable(v)')
      BY <1>1, <1>2, <1>3 DEF FeePart
<1>5. FeeInPRV' = FeeInPRV /\ numWORKERS' = numWORKERS
      BY <1>1 DEF FeeInPRV, numWORKERS
<1> QED
    BY <1>4, <1>5 DEF FeePart

\* Without a fault a worker gives up only on what cannot be mined any more.
LEMMA WorkerFee ==
    ASSUME TypeInv, TxsInv, FeePart, faults' = 0, NEW w \in DOMAIN workers,
           \/ TooPoor(w) \/ FeeNotCovered(w) \/ Send(w) \/ InBlock(w) \/ WaitFails(w)
           \/ TokenFeeFails(w) \/ SendFails(w) \/ AnswerUnreadable(w) \/ ReceiveDone(w) \/ ReceiveErr(w)
    PROVE  FeePart'
<1>1. ~Fault
      BY FaultIs
<1>2. workers[w].at \in {"start", "free"} => w \notin mempool
      BY DEF TxsInv
<1>3. workers[w].at = "done" => w \notin mempool
      BY DEF TxsInv
<1>4. CASE TooPoor(w) \/ FeeNotCovered(w) \/ SendFails(w)
  <2>1. Relabelled(w, "err") /\ UNCHANGED <<chainVars, mainVars>>
        BY <1>4, WorkerStepIs
  <2>2. w \notin mempool
        BY <1>2, <1>4 DEF TooPoor, FeeNotCovered, SendFails
  <2> QED
      BY <2>1, <2>2, RelabelFee DEF chainVars, mainVars
<1>5. CASE WaitFails(w)
  <2>1. Relabelled(w, "err") /\ UNCHANGED <<chainVars, mainVars>>
        BY <1>5, WorkerStepIs
  <2>2. ~(w \in mempool /\ Spendable(w))
        BY <1>1, <1>5 DEF WaitFails
  <2> QED
      BY <2>1, <2>2, RelabelFee DEF chainVars, mainVars
<1>6. CASE TokenFeeFails(w) \/ AnswerUnreadable(w)
      BY <1>1, <1>6 DEF TokenFeeFails, AnswerUnreadable
<1>7. CASE InBlock(w)
  <2>1. Relabelled(w, "done") /\ UNCHANGED <<chainVars, mainVars>>
        BY <1>7, WorkerStepIs
  <2> QED
      BY <2>1, RelabelFee DEF chainVars, mainVars
<1>8. CASE Send(w)
  <2>1. /\ Relabelled(w, "wait") /\ UNCHANGED <<coins, prv, mainVars>>
        /\ mempool' \subseteq mempool \cup {w}
        BY <1>8, WorkerStepIs
  <2> QED
      BY <2>1, RelabelFee DEF mainVars
<1>9. CASE ReceiveDone(w)
  <2>1. Relabelled(w, "end") /\ workers[w].at = "done"
        BY <1>9, WorkerStepIs DEF ReceiveDone
  <2>2. UNCHANGED <<kind, coins, prv, mempool, pc, feeList, first, outcome>>
        BY <1>9 DEF ReceiveDone, chainVars
  <2> QED
      BY <1>3, <2>1, <2>2, RelabelFee
<1>10. CASE ReceiveErr(w)
  <2>1. \/ workers[w].at = "err" /\ Relabelled(w, "end")
        \/ Relabelled(w, "free")
        BY <1>10, WorkerStepIs
  <2>2. UNCHANGED <<kind, coins, prv, mempool, pc, feeList, first, outcome>>
        BY <1>10 DEF ReceiveErr, chainVars
  <2>3. w \in mempool /\ workers[w].at = "err" => ~Spendable(w)
        BY DEF FeePart
  <2> QED
      BY <2>1, <2>2, <2>3, RelabelFee
<1> QED
    BY <1>4, <1>5, <1>6, <1>7, <1>8, <1>9, <1>10

\* Nothing is mined between the split and the second listing.
LEMMA NodeFee ==
    ASSUME TypeInv, RoundPart, FeePart, NEW w \in DOMAIN workers, Mine(w) \/ Drop(w)
    PROVE  FeePart'
<1>1. /\ UNCHANGED <<kind, workers, pc, feeList, first, outcome>> /\ mempool' \subseteq mempool
      BY DEF Mine, Drop, mainVars
<1>2. mempool \subseteq DOMAIN workers /\ nextId \in Nat
      BY DEF TypeInv, TypeOK
<1>3. /\ \A id \in coins' : id \in coins \/ (id \in Nat /\ id >= nextId)
      /\ \A id \in prv' : id \in prv \/ (id \in Nat /\ id >= nextId)
  <2>1. CASE Mine(w)
    <3>1. /\ \A id \in coins' : id \in coins \/ id = nextId
          /\ \A id \in prv' : id \in prv \/ id = nextId + 1
          BY <2>1, MineIs
    <3> QED
        BY <1>2, <3>1
  <2>2. CASE Drop(w)
        BY <2>2 DEF Drop
  <2> QED
      BY <2>1, <2>2
<1>4. \A v \in mempool' : workers'[v].at \in {"err", "end"} => ~(Spendable(v)')
      BY <1>1, <1>2, <1>3, StaysSpent DEF FeePart
<1>5. FeeInPRV' = FeeInPRV /\ numWORKERS' = numWORKERS
      BY <1>1 DEF FeeInPRV, numWORKERS
<1>6. pc = "listPRV" => prv' = prv
  <2> SUFFICES ASSUME pc = "listPRV", Mine(w) PROVE FALSE
      BY DEF Drop
  <2>2. w < first
        BY RoundIs DEF TypeInv, RoundPart
  <2>3. workers[w].at = "end"
        BY <2>2 DEF RoundPart, Ended
  <2> QED
      BY <2>3, MineIs DEF FeePart
<1> QED
    BY <1>1, <1>4, <1>5, <1>6 DEF FeePart

\* Every step keeps the fee coins sufficient, as long as nothing fails.
LEMMA FeeNext ==
    ASSUME TypeInv, TxsInv, RoundInv, FeeInv, [Next]_vars
    PROVE  FeeInv'
<1> SUFFICES ASSUME faults' = 0 PROVE FeePart'
    BY DEF FeeInv, FeePart
<1>1. faults = 0
      BY FaultsGrow
<1>2. FeePart
      BY <1>1 DEF FeeInv, FeePart
<1>3. RoundPart
      BY <1>1 DEF RoundInv, RoundPart, ReportsTwice
<1> QED
    BY <1>2, <1>3, Steps, QuietFee, SplitFee, LaunchFee, WorkerFee, NodeFee

-----------------------------------------------------------------------------
(* The theorems.                                                           *)

RoundsInv == TypeInv /\ TxsInv /\ RoundInv /\ ShareInv /\ FeeInv

\* A call begins without workers.
LEMMA RoundsInit == Init => RoundsInv
<1> SUFFICES ASSUME Init PROVE RoundsInv
    OBVIOUS
<1>1. TypeInv
      BY TypeInit
<1>2. /\ workers = <<>> /\ txList = <<>> /\ mempool = {} /\ mined = {} /\ first = 1
      /\ pc = "start" /\ outcome = "none"
      BY DEF Init
<1>3. DOMAIN workers = {} /\ DOMAIN txList = {} /\ Listed = {} /\ Ended = {}
      BY <1>2 DEF Listed, Ended
<1>4. TxsInv
      BY <1>2, <1>3 DEF TxsInv
<1>5. RoundInv
      BY <1>2, <1>3 DEF RoundInv
<1>6. ShareInv
      BY <1>2, <1>3 DEF ShareInv, Holding
<1>7. FeeInv
      BY <1>2 DEF FeeInv
<1> QED
    BY <1>1, <1>4, <1>5, <1>6, <1>7 DEF RoundsInv

\* The inductive invariant.
LEMMA SpecRoundsInv == Spec => []RoundsInv
<1>1. RoundsInv /\ [Next]_vars => RoundsInv'
      BY TypeNext, TxsNext, RoundNext, ShareNext, FeeNext DEF RoundsInv
<1> QED
    BY <1>1, RoundsInit, PTL DEF Spec

\* A new round begins, and the call gives up because all its workers failed,
\* only when every goroutine it has started has ended, in every call in which
\* no worker reports twice.
THEOREM RoundsStayApart == Spec => []RoundsApart
<1>1. RoundsInv => RoundsApart
  <2> SUFFICES ASSUME RoundsInv, ~ReportsTwice PROVE RoundQuiescent
      BY DEF RoundsApart
  <2>1. RoundPart /\ TypeOK
        BY DEF RoundsInv, RoundInv, RoundPart, TypeInv
  <2>2. pc \in {"split", "listPRV"} => Ended = DOMAIN workers
        BY <2>1, RoundIs DEF RoundPart, Ended
  <2> QED
      BY <2>1, <2>2 DEF RoundPart, RoundQuiescent
<1> QED
    BY <1>1, SpecRoundsInv, PTL

\* The counters of the select loop have counted each ended worker of the round
\* once, and the list of hashes holds transactions that are in a block, none
\* of them twice, whatever fails.
THEOREM ReportsAreCounted == Spec => []ReportsMatch
<1>1. RoundsInv => ReportsMatch
      BY DEF RoundsInv, RoundInv, TxsInv, ReportsMatch
<1> QED
    BY <1>1, SpecRoundsInv, PTL

\* The transactions of one call share no coin and no fee coin, unless the
\* worker of the earlier one has given up on it.
THEOREM CoinsSpentOnce == Spec => []NoDoubleSpend
<1>1. RoundsInv => NoDoubleSpend
  <2> SUFFICES ASSUME RoundsInv, ~ReportsTwice,
                      NEW w \in mempool \cup mined, NEW v \in mempool \cup mined,
                      w < v, Sharing(w, v)
               PROVE  w \in Ended \ Listed
      BY DEF NoDoubleSpend, Sharing
  <2>1. RoundPart /\ SharePart /\ TypeOK
        BY DEF RoundsInv, RoundInv, RoundPart, ShareInv, SharePart, TypeInv
  <2>2. w \in DOMAIN workers /\ v \in DOMAIN workers
        BY <2>1 DEF TypeOK
  <2>3. w \notin Holding
        BY <2>1, <2>2 DEF SharePart
  <2>4. w < first /\ w \notin Listed
        BY <2>1, <2>2, <2>3, RoundIs DEF Holding
  <2> QED
      BY <2>1, <2>2, <2>4 DEF RoundPart
<1> QED
    BY <1>1, SpecRoundsInv, PTL

\* splitPRVForFees provides a coin for every worker of the round: without a
\* fault, no launch finds the list of fee coins empty.
THEOREM FeeCoinForEachWorker == Spec => []FeeCoinsSuffice
<1>1. RoundsInv => FeeCoinsSuffice
      BY DEF RoundsInv, TypeInv, IdsInv, FeeInv, FeeCoinsSuffice
<1> QED
    BY <1>1, SpecRoundsInv, PTL
==============================================================================
