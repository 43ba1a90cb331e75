# A verification project for go-incognito-sdk-v2

TLA+ modules that model the SDK, TLC configurations that check them on small
instances, and TLAPS proofs of what matters most for every size. All paths
below are relative to the repository.

## The system

The SDK is a client library. `incclient.IncClient` builds, sends and looks up
transactions of the Incognito chain: coins of two versions (v1 with serial
numbers, v2 with one-time addresses), PRV and tokens, conversions, pDEX trades,
bridges and staking. It talks to a full node by JSON-RPC. The parts with state
and goroutines of their own are in `incclient/`; the rest is a long sequential
path from a request to the bytes of a transaction, over `transaction/`,
`coin/`, `metadata/`, `key/`, `wallet/`, `privacy/` and `crypto/`.

| Component | State | Operations | What is hard | What makes it correct |
|---|---|---|---|---|
| coin selection (`tx_utils.go`) | accumulators of one call | `divideCoins`, `chooseBestCoinsByAmount` | off-by-one at the last coin, exact totals | covers the amount, no coin twice, no coin too many |
| coin retrieval (`coin.go`) | none | `GetUnspentOutputCoins`, spent checks, the cached and umbrella variants | parallel lists that must stay aligned, batches | the queries agree, indices belong to their coins |
| UTXO download (`coin_cache.go`) | counters, goroutines, `statusChan` | `syncOutCoinV2`, `getCoinsByIndices` | answers in any order, errors while others are at work, a bounded channel | every coin of the range exactly once, no goroutine blocked for ever |
| UTXO cache (`coin_cache.go`, `coin_cache_utils.go`) | map of accounts, account objects shared by pointer, files, mutex | `GetAndCacheOutCoins`, `load`, `addAccount`, `update`, `store` | unlocked updates of shared objects, the map replaced by `load`, crashes inside `store`, restarts | nothing skipped for good, a result holds the coins asked for and all of them |
| consolidation and conversion (`tx_consolidate*.go`, `tx_convert_enhanced.go`) | lists, worker counts, transaction list, timer | three consolidating calls, two converting calls, `splitPRVForFees`, `waitingCheckTxInBlock` | workers that fail or are late, transactions mined after they were given up, fee coins, time-outs | rounds do not overlap, no double spend, the call returns |
| history processor (`tx_history_worker.go`) | two long-lived channels, history per token | `GetTxsIn`, `GetTxsOut`, `GetTokenHistory`, `GetAllHistory` | answers carry no query; what a failed query leaves in the channels | an answer belongs to its query, all items are answered |
| transaction building and sending (`tx.go`, `txtoken.go`, `tx_convert.go`) | the parameters of one call | create, with or without given coins, convert, send | version 1 first and then version 2 on the same parameters, errors of every RPC, a lost submission, a call made again | what is asked for is built and paid once |
| requests (`pdex.go`, `bridge.go`, `portal.go`, `prv_pegging.go`, `staking.go`, `inscription.go`) | none | payments, burns and metadata | fees that join the amount, receivers of refunds | what is burned is what the metadata declares |
| transaction layer (`transaction/`) | the transaction | change, rings, proofs, signatures, JSON | what a hash covers and when it is set; which proof type is read | value is conserved, signatures verify after re-reading |
| sequential history (`tx_history.go`, `tx_history_utils.go`) | none | amounts in and out | differences of unsigned sums, two fee assets | the history adds up |
| coins (`coin/`) | the coin object | encode, decode, conceal, `Decrypt`, ownership, asset tags | lengths of one or two bytes, objects changed in place | read back as written; recognised and opened by the owner only |
| metadata (`metadata/`) | records | JSON, hashes, signature, `ParseMetadata` | some 60 types | read back as signed |
| keys, wallets, base58 (`key/`, `wallet/`, `common/base58`) | a process-wide cache of strings | serialise, deserialise | the key of the cache, old and new addresses | read back with the keys of its type |
| curve arithmetic (`crypto/`) | none | scalars, field elements, points, tables | carries and reductions that matter for few inputs, exceptional points | agrees with the mathematical definition |
| zero-knowledge proofs (`privacy/`) | none | prove, encode | algebra; byte formats | formats only, here |

`PROJECT.json` lists all components with their status, and under "hazards" what
is hard to test in this code, at its line, with the properties that cover it.

## Modules

| Module | Code | Role |
|---|---|---|
| `ChooseCoins` | `chooseBestCoinsByAmount` | one action per loop iteration and per way out |
| `Utxos` | `coin.go`, `divideCoins`, `getListIdx` | the lists a call chooses from |
| `Requests` | the request functions | what each hands to the builder |
| `TxLayer` | `transaction/tx_generic`, `tx_ver1`, `tx_ver2` | parameters to a signed transaction |
| `TxView` | JSON of transactions, `tx_history*.go`, burn data | reading a transaction back |
| `TxBuild` | `tx.go`, `txtoken.go`, `tx_convert.go`, `initParams*` | composes the five above into the steps of a call, with the node |
| `CoinFetch` | result of the download loop | abstract: one step yields all the account's coins, or an error |
| `CoinSync` | loop of `syncOutCoinV2` and its goroutines | implements `CoinFetch` |
| `UtxoCache` | `GetAndCacheOutCoins` and all below it | several callers, memory, files, mutex, crashes; its `Fetch` is the one step of `CoinFetch` |
| `BatchRounds` | consolidations and conversions | main goroutine, workers, channels, timer; the node mines or drops |
| `TxHistory` | `TxHistoryProcessor`, `TxHistoryWorker` | queries, channels, workers |
| `ScalarArith`, `FieldLimbs`, `EdwardsGroup` | `crypto/curve25519`, `crypto/point.go` | operators on small words; `LoopSteps` is their loop |
| `Metadata` | `metadata/` | fields, hashes, signature, parsing |
| `Encodings` | coins, proofs, ring indices as bytes | writers and readers |
| `KeyStrings` | keys and addresses as bytes and strings | with `base58Cache` as state |
| `CoinOwnership` | one-time addresses, concealment, `Decrypt`, tags | operators that return the changed coin object |
| `ChooseCoinsProofs`, `CoinSyncProofs`, `UtxoCacheProofs`, `BatchRoundsProofs`, `TxHistoryProofs`, `TxBuildProofs` | | the theorems about the module they are named after |
| `TxInputsProofs` | | theorems about `TxBuild` that need what the queries of `Utxos` return and `ChooseCoinsProofs` |
| `InductionLemmas` | | induction over the naturals, for the proofs |
| `MC*` | | instances for TLC; `MCAlgorithms` has the reference definitions |

### How state and actions correspond to the code

`ChooseCoins` keeps the function's variables under their names. `chosen` holds
positions of the list in place of coin objects, and `prefix` is a history
variable with the partial sums, which the proof needs.

`TxBuild` has one action per part of a call between two RPCs: querying the coins
of an asset (or taking those the caller gave), each step of the selection, the
decoys, the initialisation (one step, all of `TxLayer`), the submission. `todo`
lists the assets whose inputs are still to be prepared; `version` is the version
being tried, and a failure under -1 goes on with version 2 and what version 1
left in the parameters. Each RPC may fail; a submission whose connection fails may
have reached the node or not, and is reported as a success; one that the node has
accepted may get an answer that cannot be read, and is reported as an error
(`AnswerUnreadable`; `misread` counts these). After an error the caller may call again. In `TxLayer`
a hash is the tuple of what it covers, a signature the tuple it is made on and a
sum of commitments the sum of values per asset; amounts wrap at `Modulus`. The
order of assignments is the code's, so that setting a field after the hash is
visible. `TxView` writes and reads the fields that decide how JSON is parsed.
The node (external) accepts a transaction whose inputs are unspent and whose
rings name the coins they were made with.

`CoinSync` keeps `currentIndex`, `numWorking`, `doneCount`, `res` and
`statusChan`. A goroutine is a batch in `fetching` (at the RPC) and then a status
in `sending` (at the channel). The `select` receives when the channel holds an
answer and takes its default case otherwise. `merged` is a history variable.

`UtxoCache` keeps the objects in `heap` and pointers in `cachedData`, because
two callers may update one object, or hold objects of which only one is in the
map. An entry of `CachedTokens` is a slot: the `tokenCache` objects that were
made for it (`cells`) and the one the map points to (`cur`). A caller's program
counter names the places between which another caller may run: around each RPC
and each critical section, and inside the updates, which take no lock. `update`
reads the entry in one step (`ReadEntry`) and fills and stores the `tokenCache`
in the next (`Apply`); `updateAllTokens` does the same for each coin
(`IndexCoin`, `FileCoin`). A caller that found no entry puts a new `tokenCache`
in the place of whatever is there by then; `discarded` is a history variable with
the accounts that have lost coins of a list in that way. The new `tokenCache`
shares its map with `updatedRecords` (line 158), so that the loop of
`updateAllTokens` may meet coins others have added (`Aliased`). Inside
`store` the file is emptied in one step and written in the next, with the mutex
held. `Crash` ends the process at any point; it stands also for Go's fatal
"concurrent map writes", which the unlocked updates may raise. Coins are indices
on the chain with an owner and a token. Not kept: the coins' contents, v1 coins
(they are not cached; only how their query may fail), cache-directory errors.

`BatchRounds` shares one loop between five functions that are copies of each
other in the code; `kind` selects what differs: the threshold of the loop, where
the fee comes from, what a worker checks before it sends, what mining does. A
worker is a record with its inputs and the place it is at. One that goes on after
it could not get the token fee fails a second time (`FeeNotCovered`): the builder
asks for the fee again, and the inputs do not cover it. A report over an
unbuffered channel is one step of worker and main goroutine together. `Fault`
marks what the node or the network may do wrong: fail a request, lose a
transaction, mine it after the worker has given up. PRV coins are counted only
if worth a fee; which of them survive a split is nondeterministic.

`TxHistory` keeps the processor's two channels, its history and the query that
is being answered. An item is a hash, public key or serial number; the answer to
it is named by the item, so that a property can tell what an answer belongs to,
which the code cannot. The requests of a worker and its send are one step, as
nothing it does before the send is seen by others; a failure of a request is a
step of its own.

The algorithm modules are operators. `ScalarArith` has one definition for each
phase the unrolled functions repeat (load, multiply, carry, fold, store), with
limbs of 2 bits in place of 21 and an order of the same shape. `FieldLimbs` has
limbs of 4 bits in place of 51 and a modulus 2^20 - 3 in place of 2^255 - 19.
`EdwardsGroup` has all point representations, tables and digit recodings over
the field of 61 elements, with curve constants that satisfy the same equations;
the exponentiation chains are checked at the code's own size, by the bits of the
exponent they reach. In `Encodings` a byte has 16 values and a key is one byte,
so that an info of legal length makes a coin whose length needs two bytes.
`KeyStrings` keeps `base58Cache` as a variable, so that a string depends on the
calls before. In `CoinOwnership` a point is its logarithm modulo a prime; the
coin object goes through sequences of calls with the keys of its owner, of
another and of parts of both.

## Runs

| Run | Properties | What it shows | Distinct states |
|---|---|---|---|
| `tx_build` | `ChosenCoinsSuffice`, `NoSuperfluousCoin`, `NoCoinChosenTwice`, `RingsAreSound`, `SignaturesReadBack`, `ValueConserved`, `PaymentsKept`, `BurnsAsDeclared`, `QueriesAgree`, `AffordableIsBuilt`, `NoDoublePay`, `HistoryAddsUp` | every request function, from the query of the coins to the transaction read back | 274,898 |
| `coin_sync` | `DoneMeansComplete`, `BatchesPartition`, `NoGoroutineBlocks`, `GoroutinesEnd`, `ImplementsCoinFetch` | the concurrent download behaves as one atomic fetch and leaves no goroutine behind | 8,592 |
| `cache_concurrent` | `NoCoinSkipped`, `ResultSound`, `DamageNeedsFault` | two callers that update one cache without a lock, in three calls, with tokens listed late | 3,454,726 up to symmetry |
| `cache_sequential` | `ResultComplete`, `SyncedIsCached`, `CallsReturn` | one caller gets all its coins, over crashes and failures, and every call returns | 296,772 |
| `rounds` | `TypeOK`, `RoundsApart`, `ReportsMatch`, `NoDoubleSpend`, `FeeCoinsSuffice`, `Returns` | the five batch calls with lost, late and refused transactions | 600,496 |
| `history` | `AnswersPure`, `AnswersComplete`, `NothingLeftBehind`, `CallsReturn` | sequences of two calls on one processor, with a failing request | 539,200 |
| `algorithms` | `ScalarsAreReduced`, `PointsAgree`, `FieldElementsCanonical`, `MetadataReadsBack`, `CoinsReadBack`, `KeysReadBack`, `OwnersReadTheirCoins` | arithmetic, byte formats and one-time addresses against reference definitions | 36,333 |
| `lost_submission`, `cache_cold_race`, `convert_leftover`, `token_fee_error`, `history_retry` | one each | a violation; see Findings | |

Bounds, and why they are enough. `tx_build`: all sorted lists of up to four
coins of value up to four and all amounts up to twelve with the fee, which gives
ties, totals met exactly or missed, skipped coins and a last coin that is needed or not; then every
request on an account with coins of both versions and three assets, one with
version 2 only, one with version 1 only and one with a coin that does not
decrypt; given coins of the wrong version, number or without indices; amounts
whose sum wraps. One failing RPC, at any place, and one further call.
`coin_sync`: five indices in batches of two, two threads: a short last batch, a
full thread pool, and errors while another goroutine is at work. Cache: two
accounts, since `load` drops the other one; two callers, since each race found
needs two; three calls, so that one can start behind what another has stored and
a third is writing; one coin on each list at the start and one to be added to
either, so that index 0, which stands for two things in the code, is passed. Crashes
and failures are part of the sequential run; together with concurrent callers they
are beyond TLC at this grain, and the theorems cover them. Rounds: four UTXOs, batches
of two and two threads give two workers and, for consolidation, a second round
over the new coins; values below and above the fee. A token conversion has six
UTXOs, the fewest for which two workers start after a round in which one gave
up, so that a late transaction can take the fee coin one of them needs
(`FeeCoinsSuffice`). Two faults for PRV, one for tokens; the timer fires for
`ConsolidateTokenV1s`. The coins at the start are numbered in the
order of the first listing, which loses nothing since every assignment of values
to numbers is tried; later listings come in any order. An odd number of UTXOs in
a conversion is what `convert_leftover` is about. `history`: three items over
two workers give unequal slices, no items give the short paths. `algorithms`:
patterns at the ends of the ranges, at the order and around it for scalars and
limbs; every key of the small curve for encodings; points that are equal,
opposite, neutral and of small order for sums; every info length for coins;
caches of two strings over three wallets; three calls on a coin object.

### Fairness

`coin_sync`: weak fairness of the loop and of the goroutines taken together (there
are finitely many, each with finitely many steps): Go schedules runnable
goroutines, and an RPC ends with an answer or an error (the HTTP client has a
time-out, rpchandler/rpc/common.go:59). `cache_sequential`: a caller's steps, strongly fair
because a Go mutex in starvation mode is handed over in order; faults are never
required to happen. Rounds: the main goroutine, the workers, the node (it
mines what it has taken; a lost transaction counts as a fault and its worker
gives up after five minutes) and, for `ConsolidateTokenV1s` only, the 30-minute
timer, without which its miscounted reports would leave it waiting.
`history`: the processor and the workers. `tx_build` and `algorithms` state
safety only and assume nothing. Deadlock is checked in every run: a state
without a call under way is the only one in which nothing need happen.

## Findings

Each of the five violation runs shows a place where the code does not do what
its own comment says; `PROJECT.json` quotes the line.

* `cache_cold_race`: two first calls for one account, one for PRV and one for a
  token, each create an object; the second `addAccount` replaces the first, and
  the first caller reads back an empty list and a nil error.
* `convert_leftover`: a list that ends in a batch of one UTXO starts no worker
  for it. The run has no timer: the first round converts two of three UTXOs, and
  then rounds of no workers count 0 of 0 as success and list again for ever. In
  the code the 30-minute timer ends this, with the last UTXO not converted.
* `token_fee_error`: a worker that cannot get the token fee reports the error,
  goes on with a fee of zero and reports a second error; both are counted, and
  the call ends as "all thread fails" while another worker is at its transaction.
* `history_retry`: after an error, answers of the failed query are still under
  way and are filed under the token of the next query.
* `lost_submission`: an error of the connection while a transaction is submitted
  is dropped, and the call reports a hash and no error. With that choice a caller
  who calls again after every error does not pay twice when connections fail;
  an answer that cannot be read is an error (tx.go:254), and then it may
  (`NoDoublePay`).

Seen while modelling. Some are hypotheses of a property, which fails without
them; the others are visible in the definitions.

* An update can lose a coin for good (coin_cache_utils.go:152-170). Two callers
  find no entry for a list; the second stores coins up to an index and a third
  call starts behind it; the first then replaces the entry with the fewer coins it
  has fetched, and the third adds its own and sets `LatestIndex`. Without the
  exception for `discarded` TLC finds this in 44 states (one account, four calls,
  four coins). `NoCoinSkipped` says that there is no other way.
* `GetAllUTXOsV2` "returns all v2 UTXOs" (coin.go:193), but asks for PRV without
  looking at the version, so that PRV coins of version 1 are among them
  (`UmbrellaAgrees`).
* `load` for one account drops the other accounts from memory, so that a call
  may end with "has not been cached" without any failure (`SyncedIsCached` with
  two callers, coin_cache.go:172); a coin synced before the node lists its token
  is never filed under the token (`ResultComplete` with `GrowingTokens`,
  coin_cache_utils.go:265); a failed v1 query leaves the caller's key without
  its OTA key (coin_cache.go:411); with `ClientVersion = 1` `getTxsInV2` answers
  twice (`AnswersPure`, tx_history_worker.go:489).
* Amount and trading fee of a pDEX trade are added without a check
  (`BurnsAsDeclared`, pdex.go:103); a transaction of version 1, and a conversion,
  rely on sums below 2^63, half of what the type allows (`ValueConserved`);
  a version 2 coin that does not decrypt shifts the indices of the coins after it (`RingsAreSound`, coin.go:186).
* For the sender of a token under the umbrella ID the history compares the wrong
  ID and the amount wraps (`HistoryAddsUp`, tx_history_utils.go:141).
* Un-shielding with given coins always fails: it calls the function for PRV with
  a token parameter (portal.go:209, tx.go:219).
* `string(amount)` in the hash of a few
  metadata types is the rune of that number, so that all amounts beyond Unicode
  hash alike (metadata/contractingrequest.go:42); some fields are in no hash.
* The length of an input coin of a version 1 proof is cut to one byte
  (`CoinsReadBack`, privacy/v1/zkp/proof_v1.go:286); a `CoinV2` without
  `txRandom` is written but cannot be read (coin/coin_v2.go:524).
* `NewEncode` may return a string with the older checksum that `Encode` cached
  for the same bytes (common/base58/base58check.go:70); it is read all the same.
* `CoinV2.Decrypt` with another's view key spoils the object for its owner
  (`OwnersReadTheirCoins`, coin/coin_v2.go:218).

## Proofs

TLAPS proves, for all values of the constants:

* `ChooseCoinsProofs`: `TypeCorrect`, `SelectionSuffices`, `SelectionMinimal`,
  `SelectionDistinct`. Assumption: the bounds are naturals (`BoundsAssumption`);
  since they are arbitrary, the theorems hold for every list. The argument: while
  coins are visited, either all coins so far were taken, so that what is missing
  is in the rest of the list, or the next coin alone covers what remains
  (`LoopInv`). A taken coin was smaller than what remained, hence by the
  descending order the last coin taken is the smallest and no coin is superfluous
  (`MinimalInv`). `PrefixInv` links the loop to the total of the list.
* `CoinSyncProofs`: `TypeCorrect`, `EachIndexOnce`, `FetchComplete`,
  `GoroutinesNeverBlock`, `Refinement`. Assumption: batch size and thread number
  are positive (`SizesAssumption`). The loop only counts; the invariant says what
  the counts stand for: batches answered, under way and to come add up to
  `numThreads` (`ProgressInv`), goroutines and unread answers add up to
  `numWorking` (`CountInv`), batches are disjoint and cover what was handed out
  (`BatchesPartition`), and answers hold the account's coins (`DataInv`). None of
  the stated properties is inductive by itself: that the count is reached says
  nothing about the coins without the other three. `Refinement` follows: the step
  that ends the loop is the one step of `CoinFetch`.
* `UtxoCacheProofs`, for any number of callers, accounts, tokens, crashes and
  failures: `TypeCorrect`, `NeverSkips` (`NoCoinSkipped`), `ResultsAreSound`
  (`ResultSound`), `DamageIsFromFaults` (`DamageNeedsFault`). Assumptions:
  lengths and bounds are naturals (`CacheAssumption`) and the reserved names are
  no tokens, callers or accounts (`NamesAssumption`). That no cache claims too
  much is not inductive: a caller reads the object, leaves the mutex, fetches,
  and updates the object without it. `CallInv` says what a caller may still rely
  on then: the object has every coin below the index the caller started from,
  also if others have updated it since, because an object only grows.
  An entry may be read in one step and replaced in a later one, so the invariant
  is about every `tokenCache` ever made (`SlotsInv`), also one the map no longer
  points to: each is complete up to its own `LatestIndex`, and the one a caller
  holds has every coin below the index the caller started from (`ApplyInv`).
  What breaks this is only the replacement of an entry by one with fewer coins,
  which is what `discarded` records.
  `MutexInv` ties a half-written file to the holder of the mutex.
* The same module, for a client used by one goroutine at a time:
  `LoneCallsAreComplete` (`ResultComplete`), `LoneCallsNeverSkip` (`NoCoinSkipped`
  without its exception, as nothing is discarded) and `LoneCallsFindTheirAccount`
  (`SyncedIsCached`). Hypotheses of the theorems: one caller, a node that lists
  every token from the start (`~GrowingTokens`) and, for the last, a chain
  that is not empty. Two concurrent callers do not get this
  (`MCUtxoCacheColdRace`). `SoloInv` adds that each coin of the
  umbrella list is also filed under its token, except
  those the lone call is about to file, and that nobody replaces an entry between
  its two steps (`EntryInv`).
* `BatchRoundsProofs`, for any number of coins, threads, rounds and faults:
  `TypeCorrect`, `RoundsStayApart` (`RoundsApart`), `ReportsAreCounted`
  (`ReportsMatch`), `CoinsSpentOnce` (`NoDoubleSpend`), `FeeCoinForEachWorker`
  (`FeeCoinsSuffice`). Assumption: `RoundsAssumption` (sizes are positive). The
  invariant is `RoundsInv`: types and fresh ids (`TypeInv`), which workers the
  hashes belong to (`TxsInv`), that the counters count the ended workers of the
  round (`RoundInv`), who may still hold a coin (`ShareInv`), and that without
  a fault the fee coins listed are enough for the threads to come (`FeeInv`).
  Coins of different rounds are
  apart only because the earlier round has ended, hence `RoundInv` is needed for
  `NoDoubleSpend`.
* `TxHistoryProofs`, for any number of items, tokens and workers: `TypeCorrect`,
  and for clients of version 2 (`ClientVersion = 2`, every network of
  `incclient/constants.go`) `QueriesCleanUp` (`NothingLeftBehind`),
  `QueriesArePure` (`AnswersPure`), `QueriesAreComplete` (`AnswersComplete`).
  Assumption: `HistoryAssumption` (at least one worker, finitely many tokens).
  Messages carry no query. The argument counts: answers read, answers in the
  channel and workers at their requests add up to no more than `numWorkers`
  (`CountInv`), so that none is left when that many have been read; what is under
  way belongs to the current query, and no item of it is lost (`ItemsInv`).
* `TxBuildProofs`, for every set of requests, ledgers of any size and any number
  of faults and retries. Assumption: `CallsAssumption`, which TLC evaluates on
  every request of `MCTxBuild`. It has two parts. `CallOK` is what the functions
  of `Requests` hand over: naturals as amounts, a token request names a token, a
  version 1 token creation mints one amount and pays its fee in PRV, a fee in
  the token goes with no PRV payments, given coins come with their own indices or
  none. `LedgerOK` is what a node lists: finitely many assets, coins under their own
  asset, with keys and indices of their own that are not those of decoys
  (`OwnCoins`; `MaxOwnIndex` only tells the two kinds of index apart).
  - `PaysAtMostOnce` (`NoDoublePay`): once the node has accepted a transaction
    the call has reported success, unless the answer could not be read
    (`PayInv`), and only an error is answered with another call.
  - `PaymentsAreKept` (`PaymentsKept`). `BuildInv` describes an attempt: the
    assets to prepare are a suffix of those it began with, the others have
    inputs, which are not empty where decoys were asked for, and version 1 has a
    fee. This is what rules out the transaction "without input, fee and privacy"
    that both versions sign without outputs. The lemmas about `TxLayer` say what
    each of the six ways to initialise a transaction puts into it.
  - `Version2Conserves`: the part of `ValueConserved` that holds for amounts of
    any size, also when sums wrap. PRV parts (of transfers and of token
    conversions) have outputs and a fee worth their inputs, since the
    commitments must cancel; the token part of a transfer has outputs worth its
    inputs, since the asset tags only cancel when all inputs are of the one asset
    of the outputs (`OneAsset`).
* `TxInputsProofs`, under the same assumption: the path from the queries to the
  transaction, for every request, ledger, ring size and batch size.
  - `BuilderChoosesWell` (`ChosenCoinsSuffice`, `NoSuperfluousCoin`,
    `NoCoinChosenTwice` in `TxBuild`). The theorems of `ChooseCoinsProofs` begin
    with a list in descending order of positive values. `CandsInv` says that the
    list of the selection is the one `DivideCoins` made of the last query, and
    the lemmas about `DescendingOrders`, `OfVersion` and `GetUnspentOutputCoins` that it
    is such a list; the steps of a selection then are steps of `ChooseCoins`.
  - `ValueIsConserved` (`ValueConserved`). What each way to initialise a
    transaction makes of its inputs is added to `Version2Conserves`: in version 1
    and in conversions the change is a difference of wrapping sums read as a
    signed number (`OverBalance`), which is the true one if the sums fit into an
    int64, and a negative one is refused. `InputsInv` gives the types of the
    inputs, `AttemptInv` the version and fee of the attempt; a PRV conversion
    subtracts its fee from the sum itself, after the query has found the sum to
    cover it (`ConvertInv`).
  - `RingsOfBuiltAreSound` (`RingsAreSound`). `InputsInv` carries the alignment:
    the inputs of an asset are different coins of the account, of the version
    that is built, with their own indices in their order (`GoodInputs`), through the
    query, the sort, the selection and `getListIdx`, with a decoy for every other
    cell of the ring. That the cells differ follows from the arithmetic of rows
    and columns.
  - `SentIsReadBack` (`SignaturesReadBack`). For each way to initialise a
    transaction: the version, type and kind of proof of its parts are ones that
    the reader understands as they were written, and every hash was taken after
    the last assignment to what it covers. `InputsInv` is needed since the version
    of the inputs decides the kind of proof.
  - `BurnsMatchMetadata` (`BurnsAsDeclared`), for requests that burn what their
    metadata declares (`DeclaresItsBurns`), and `RequestsDeclareTheirBurns`: every
    request function that sets metadata of its own does so, whatever its
    arguments. `BurnInv` says that the outputs of a transaction burn what the
    payments asked to burn, which a change output cannot alter since it goes to
    the sender.
  - `QueriesAlwaysAgree` (`QueriesAgree`). The queries filter lists in loops;
    `Kept` states what such a loop returns, the elements at a set of positions in
    order. The proof rests on the uniqueness of that enumeration: filtering twice,
    filtering a concatenation or a shifted list gives the list one expects
    (`KeptTwice`, `KeptShift`, `KeptFilter`). Answers of the batches, put together,
    are the answers for the whole list (`BatchesAgree`); the umbrella list,
    filtered by asset, gives each asset the list of its own query, in its order.

The prover cannot use the library's induction theorems, which take a predicate
as a parameter. `InductionLemmas` derives induction over the naturals for a set
in the place of a predicate, from the well-foundedness of strict inclusion of
finite sets; sums over sets (`BatchRoundsProofs`) and over sequences (`Values`
in `TxBuildProofs`, by its partial sums) are handled with it.

The proofs changed what the models say in three respects. `ValueConserved` was
first stated for all amounts whose sums do not wrap at 2^64. The proof failed for
version 1 with given coins: with payments above 2^63 and inputs worth less, the
difference is read as a positive number and becomes the change. No such account
was among the instances of TLC. The property now asks for sums below 2^63
(`AmountsFit`), and for version 2 transfers asks for nothing. The queries filter
with `Kept` in place of `SelectSeq`, about which the prover knows nothing; and
`Log2` of the ring size is a count in place of a recursion. Third, several `CASE` expressions of
`TxLayer`, `TxView`, `Encodings` and `KeyStrings` had guards that overlap; TLC
takes the first that is true, the meaning of TLA+ is any of them. They are now
`IF` or have guards that exclude each other.

Only model-checked:

* liveness everywhere: the prover does not handle fairness;
* `AffordableIsBuilt`: it is a statement about the instance. With enough small
  coins an affordable payment exceeds the number of inputs or the size a
  transaction may have, and the code rightly refuses it; TLC checks accounts
  below those limits;
* `HistoryAddsUp`: it names the one payee of the instance, and compares a sum
  over a set of coins with sums over filtered lists of outputs;
* the seven properties of `MCAlgorithms`: loops over limbs, bytes and digits,
  compared with recursive reference definitions, for field sizes fixed by the
  modules. What a loop computes for every input is an induction over data.

## Not modelled, and why

* Zero-knowledge arguments (Schnorr, one-out-of-many, Bulletproofs, MLSAG) and
  hashes: a proof is a record of what it was made from. Their algebra is out of
  reach of both tools.
* In `crypto/curve25519`: the multiplication and squaring of field elements
  (assembly), the constant tables other than those a formula gives,
  `edwards25519.go` and `edwards_const_amd64_gen.go` (build tag `ignore`) and the
  files for other architectures.
* RPC requests and JSON (`rpchandler/`): their failures are the faults of the
  models. Single queries (`blockchain.go`, `account.go`, `*_utils.go` of pDEX,
  bridge, portal, staking) keep no state.
* AES and ElGamal encryption of version 1 coins, mnemonics and child-key
  derivation, size estimates of metadata, logging, configuration.
* `save` and `saveAndStop` of the cache have no caller. `tutorials/` are examples.

## Plan

The modules were written in this order: coin selection; the download and the
cache above it; the batch calls; the history processor; the builder, which
composes selection, queries, requests and the transaction layer; the byte formats
and the arithmetic. Theorems followed in the same order.

Every safety property of the concurrent components and ten of the twelve of the
builder are proved. What a next step could add: a version of `AffordableIsBuilt` with
the limits on inputs and size in its hypothesis; `HistoryAddsUp` for any payee;
a model of the status polls of the bridges and the portal.
