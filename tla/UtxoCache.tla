----------------------------- MODULE UtxoCache -----------------------------
(***************************************************************************)
(* The UTXO cache of the client: GetAndCacheOutCoins, syncOutCoinV2 and    *)
(* the utxoCache / accountCache they work on (incclient/coin_cache.go and  *)
(* coin_cache_utils.go).                                                   *)
(*                                                                         *)
(* Several callers (goroutines that share one client) query coins, each    *)
(* for an account and a token.  cachedData maps an account to a pointer;   *)
(* heap holds the accountCache objects, which callers update in place and  *)
(* without the mutex: an entry of CachedTokens is read in one step, and    *)
(* the tokenCache it points to, or a new one, is filled and put back into  *)
(* the map in a later one.  (The inserts only add coins, LatestIndex is    *)
(* set after them, and nobody reads both but the JSON encoder, LatestIndex *)
(* first: what others see between them is no more than they may see.)  A   *)
(* section guarded by the mutex is one step, except for store, which       *)
(* empties the file before it writes it: a crash may fall in between.  The *)
(* download is the atomic step that CoinSync implements.                   *)
(*                                                                         *)
(* The coins on the chain are numbered from 0, separately for the PRV list *)
(* and the list of all confidential assets.                                *)
(***************************************************************************)
EXTENDS Integers, Sequences, FiniteSets

CONSTANTS Accounts,       \* owners of coins, named by their OTA key
          Tokens,         \* confidential assets
          Callers,
          InitialLength,  \* number of coins on each list at the start
          MaxCoins,       \* bound on the number of coins on both lists together
          MaxCalls,       \* bound on the number of calls
          MaxFaults,      \* bound on crashes, store failures and RPC failures
          GrowingTokens   \* whether tokens may be listed by the node later

ASSUME CacheAssumption ==
    /\ InitialLength \in Nat /\ MaxCoins \in Nat
    /\ MaxCalls \in Nat /\ MaxFaults \in Nat
    /\ GrowingTokens \in BOOLEAN

PRV == "prv"    \* common.PRVIDStr
CA == "ca"      \* common.ConfidentialAssetID
TokenIDs == {PRV} \cup Tokens
Lists == {PRV, CA}
Keys == Lists \cup Tokens          \* keys of accountCache.CachedTokens
NoCaller == "none"
NoAccount == "none"

\* The names above are IDs no token, caller or account has.
ASSUME NamesAssumption ==
    /\ PRV \notin Tokens /\ CA \notin Tokens
    /\ NoCaller \notin Callers /\ NoAccount \notin Accounts

ListOf(tok) == IF tok = PRV THEN PRV ELSE CA

VARIABLES chain,        \* [Lists -> sequence of coins]; coin number n is at n + 1
          listed,       \* tokens in the node's token list
          heap,         \* the accountCache objects; a pointer is an index, 0 is nil
          cachedData,   \* [Accounts -> pointer]
          disk,         \* [Accounts -> file in the cache directory]
          mtx,          \* the caller that holds the mutex, or NoCaller
          pc,
          call,         \* [Callers -> the local variables of the call]
          otaKey,       \* [Callers -> whether outCoinKey still has its OTA key]
          outcome,      \* [Callers -> how the last call ended]
          discarded,    \* accounts of which an update has thrown away cached coins
          \* counters of calls and faults, for the bounds and the properties
          calls, faults, crashes, storeFaults

vars == <<chain, listed, heap, cachedData, disk, mtx, pc, call, otaKey,
          outcome, discarded, calls, faults, crashes, storeFaults>>
counters == <<calls, faults, crashes, storeFaults>>
node == <<chain, listed>>

NoCache == [present |-> FALSE, latest |-> 0, coins |-> {}]
EmptyCaches == [k \in Keys |-> NoCache]
NoFile == [state |-> "absent", caches |-> EmptyCaches]
Damaged == [state |-> "damaged", caches |-> EmptyCaches]

\* An entry of CachedTokens: the tokenCache objects that have been made for
\* it, and the one the map points to, 0 for none.
NoSlot == [cur |-> 0, cells |-> <<>>]
NoSlots == [k \in Keys |-> NoSlot]
Cached(slot) == IF slot.cur = 0 THEN NoCache ELSE slot.cells[slot.cur]
CachesOf(object) == [k \in Keys |-> Cached(object.slots[k])]

\* CachedTokens of an account that was read from a file.
Unmarshal(caches) ==
    [k \in Keys |-> IF caches[k].present THEN [cur |-> 1, cells |-> <<caches[k]>>]
                                        ELSE NoSlot]

\* The tokenCache that was read from the map (0: none was there) gets the
\* contents of cell and is put into the map.
PutCell(slot, held, cell) ==
    IF held = 0
    THEN [cur |-> Len(slot.cells) + 1, cells |-> Append(slot.cells, cell)]
    ELSE [cur |-> held, cells |-> [slot.cells EXCEPT ![held] = cell]]

NewCoins(list) ==
    [owner : Accounts, token : IF list = PRV THEN {PRV} ELSE Tokens]

Idle == [acc |-> NoAccount, tok |-> PRV,
         inDir |-> FALSE, length |-> 0, from |-> 0, obj |-> 0, data |-> {}, tags |-> {},
         held |-> 0, fresh |-> {}, alias |-> 0, coin |-> 0, result |-> {}]

Init ==
    /\ \E prvCoins \in [1..InitialLength -> NewCoins(PRV)],
          caCoins \in [1..InitialLength -> NewCoins(CA)] :
           chain = [l \in Lists |-> IF l = PRV THEN prvCoins ELSE caCoins]
    /\ listed \in IF GrowingTokens THEN SUBSET Tokens ELSE {Tokens}
    /\ heap = <<>>
    /\ cachedData = [a \in Accounts |-> 0]
    /\ disk = [a \in Accounts |-> NoFile]
    /\ mtx = NoCaller
    /\ pc = [c \in Callers |-> "idle"]
    /\ call = [c \in Callers |-> Idle]
    /\ otaKey = [c \in Callers |-> TRUE]
    /\ outcome = [c \in Callers |-> "none"]
    /\ discarded = {}
    /\ calls = 0 /\ faults = 0 /\ crashes = 0 /\ storeFaults = 0

-----------------------------------------------------------------------------
(* The full node (external): blocks add coins, tokens become listed.       *)

AddCoin(list) ==
    /\ Len(chain[PRV]) + Len(chain[CA]) < MaxCoins
    /\ \E coin \in NewCoins(list) : chain' = [chain EXCEPT ![list] = Append(@, coin)]
    /\ UNCHANGED <<listed, heap, cachedData, disk, mtx, pc, call, otaKey,
                   outcome, discarded, counters>>

ListToken(tok) ==
    /\ tok \notin listed
    /\ listed' = listed \cup {tok}
    /\ UNCHANGED <<chain, heap, cachedData, disk, mtx, pc, call, otaKey,
                   outcome, discarded, counters>>

-----------------------------------------------------------------------------

Goto(c, label) == pc' = [pc EXCEPT ![c] = label]

\* The call ends; nothing of it remains but its outcome and its result.
Return(c, how, result) ==
    /\ pc' = [pc EXCEPT ![c] = "idle"]
    /\ outcome' = [outcome EXCEPT ![c] = how]
    /\ call' = [call EXCEPT ![c] = [call[c] EXCEPT !.inDir = FALSE, !.from = 0, !.obj = 0,
                   !.data = {}, !.tags = {}, !.held = 0, !.fresh = {}, !.alias = 0,
                   !.coin = 0, !.result = result]]

Fault == /\ faults < MaxFaults
         /\ faults' = faults + 1

Call(c, acc, tok) ==
    /\ pc[c] = "idle"
    /\ calls < MaxCalls
    /\ calls' = calls + 1
    /\ call' = [call EXCEPT ![c] = [Idle EXCEPT !.acc = acc, !.tok = tok]]
    /\ outcome' = [outcome EXCEPT ![c] = "none"]
    /\ Goto(c, "check")
    /\ UNCHANGED <<node, heap, cachedData, disk, mtx, otaKey, discarded, faults, crashes,
                   storeFaults>>

\* load: an empty OTA key is refused.
LoadRefused(c) ==
    /\ pc[c] = "check"
    /\ ~otaKey[c]
    /\ Return(c, "invalidKey", {})
    /\ UNCHANGED <<node, heap, cachedData, disk, mtx, otaKey, discarded, counters>>

\* load: the test for an account that is already in memory takes no lock.
LoadCheck(c) ==
    /\ pc[c] = "check"
    /\ otaKey[c]
    /\ Goto(c, IF cachedData[call[c].acc] # 0 THEN "length" ELSE "readDir")
    /\ UNCHANGED <<node, heap, cachedData, disk, mtx, call, otaKey, outcome,
                   discarded, counters>>

\* load: ioutil.ReadDir, still without the lock.
ReadDir(c) ==
    /\ pc[c] = "readDir"
    /\ call' = [call EXCEPT ![c].inDir = disk[call[c].acc].state # "absent"]
    /\ Goto(c, "load")
    /\ UNCHANGED <<node, heap, cachedData, disk, mtx, otaKey, outcome,
                   discarded, counters>>

\* load, under the lock: the new map holds this account only, if at all.
LoadFile(c) ==
    LET acc == call[c].acc
    IN  /\ pc[c] = "load"
        /\ mtx = NoCaller
        /\ ~(call[c].inDir /\ disk[acc].state = "damaged")
        /\ IF call[c].inDir
           THEN /\ heap' = Append(heap,
                               [acc |-> acc, slots |-> Unmarshal(disk[acc].caches)])
                /\ cachedData' = [a \in Accounts |-> IF a = acc THEN Len(heap) + 1 ELSE 0]
           ELSE /\ heap' = heap
                /\ cachedData' = [a \in Accounts |-> 0]
        /\ Goto(c, "length")
        /\ UNCHANGED <<node, disk, mtx, call, otaKey, outcome, discarded, counters>>

\* Mutants of LoadFails: the file is read without the lock; load is tried
\* again for ever.
LoadFailsUnlocked(c) ==
    /\ pc[c] = "load"
    /\ call[c].inDir /\ disk[call[c].acc].state = "damaged"
    /\ Return(c, "loadFailed", {})
    /\ UNCHANGED <<node, heap, cachedData, disk, mtx, otaKey, discarded, counters>>
LoadRetried(c) ==
    /\ pc[c] = "load"
    /\ mtx = NoCaller
    /\ call[c].inDir /\ disk[call[c].acc].state = "damaged"
    /\ Goto(c, "check")
    /\ UNCHANGED <<node, heap, cachedData, disk, mtx, call, otaKey, outcome,
                   discarded, counters>>

\* load: json.Unmarshal fails on an empty or cut-off file.
LoadFails(c) ==
    /\ pc[c] = "load"
    /\ mtx = NoCaller
    /\ call[c].inDir /\ disk[call[c].acc].state = "damaged"
    /\ Return(c, "loadFailed", {})
    /\ UNCHANGED <<node, heap, cachedData, disk, mtx, otaKey, discarded, counters>>

-----------------------------------------------------------------------------

\* GetOTACoinLengthByShard
GetLength(c) ==
    /\ pc[c] = "length"
    /\ call' = [call EXCEPT ![c].length = Len(chain[ListOf(call[c].tok)])]
    /\ Goto(c, "getAccount")
    /\ UNCHANGED <<node, heap, cachedData, disk, mtx, otaKey, outcome,
                   discarded, counters>>

\* Mutant of CurrentIndex: also for a new cache.
CurrentIndexAlways(cache) == cache.latest + 1

\* currentIndex := LatestIndex + 1, which is 0 when LatestIndex is 0 since
\* that is also the value of a new cache.
CurrentIndex(cache) == IF cache.latest = 0 THEN 0 ELSE cache.latest + 1

\* getCachedAccount, or a new object that is not in the map yet, and the
\* index to begin with.
GetAccount(c) ==
    LET acc == call[c].acc
        o == cachedData[acc]
        list == ListOf(call[c].tok)
    IN  /\ pc[c] = "getAccount"
        /\ mtx = NoCaller
        /\ IF o # 0
           THEN /\ heap' = heap
                /\ call' = [call EXCEPT ![c].obj = o,
                               ![c].from = CurrentIndex(Cached(heap[o].slots[list]))]
           ELSE /\ heap' = Append(heap, [acc |-> acc, slots |-> NoSlots])
                /\ call' = [call EXCEPT ![c].obj = Len(heap) + 1,
                               ![c].from = CurrentIndex(NoCache)]
        /\ Goto(c, "fetch")
        /\ UNCHANGED <<node, cachedData, disk, mtx, otaKey, outcome, discarded, counters>>

UpToDate(c) ==
    /\ pc[c] = "fetch"
    /\ call[c].from >= call[c].length
    /\ Goto(c, "readBack")
    /\ UNCHANGED <<node, heap, cachedData, disk, mtx, call, otaKey, outcome,
                   discarded, counters>>

\* Mutant of GetCoinsByIndices: coins of every account are kept.
AllCoinsByIndices(list, acc, firstIdx, lastIdx) == firstIdx..lastIdx

\* getCoinsByIndices keeps the coins that belong to the account.
GetCoinsByIndices(list, acc, firstIdx, lastIdx) ==
    {n \in firstIdx..lastIdx : chain[list][n + 1].owner = acc}

\* The download of module CoinSync, then GetAllAssetTags if it is needed.
Fetch(c) ==
    LET list == ListOf(call[c].tok)
        data == GetCoinsByIndices(list, call[c].acc,
                    call[c].from, call[c].length - 1)
    IN  /\ pc[c] = "fetch"
        /\ call[c].from < call[c].length
        /\ call' = [call EXCEPT ![c].data = data,
                       ![c].tags = IF list = CA /\ data # {} THEN listed ELSE {}]
        /\ Goto(c, "update")
        /\ UNCHANGED <<node, heap, cachedData, disk, mtx, otaKey, outcome,
                       discarded, counters>>

\* GetOTACoinLengthByShard, the download, GetAllAssetTags fail.
RpcFails(c) ==
    /\ \/ pc[c] = "length"
       \/ pc[c] = "fetch" /\ call[c].from < call[c].length
    /\ Fault
    /\ Return(c, "rpcFailed", {})
    /\ UNCHANGED <<node, heap, cachedData, disk, mtx, otaKey, discarded, calls,
                   crashes, storeFaults>>

\* Mutant of LatestIndex: the length itself.
LatestIndexIsLength(c) == call[c].length

LatestIndex(c) == call[c].length - 1

\* The call when the object is up to date: nothing else of the update is kept.
Updated(c) ==
    [call[c] EXCEPT !.data = {}, !.tags = {}, !.held = 0, !.fresh = {}, !.alias = 0,
                    !.coin = 0]

\* accountCache.update, without the lock: the entry of the list is read ...
ReadEntry(c) ==
    /\ pc[c] = "update"
    /\ call' = [call EXCEPT ![c].held = heap[call[c].obj].slots[ListOf(call[c].tok)].cur]
    /\ Goto(c, "apply")
    /\ UNCHANGED <<node, heap, cachedData, disk, mtx, otaKey, outcome,
                   discarded, counters>>

\* ... and written.  Coins that are there already are kept; the new ones are
\* still to be filed under their token.  A new tokenCache replaces what
\* another caller may have put into the map since it was read; its map of
\* coins is updatedRecords too.
Apply(c) ==
    LET o == call[c].obj
        list == ListOf(call[c].tok)
        slot == heap[o].slots[list]
        held == call[c].held
        old == IF held = 0 THEN {} ELSE slot.cells[held].coins
        cell == [present |-> TRUE, latest |-> LatestIndex(c),
                 coins |-> old \cup call[c].data]
        new == PutCell(slot, held, cell)
    IN  /\ pc[c] = "apply"
        /\ heap' = [heap EXCEPT ![o].slots[list] = new]
        /\ discarded' = IF Cached(slot).coins \subseteq Cached(new).coins
                        THEN discarded ELSE discarded \cup {call[c].acc}
        /\ IF list = CA
           THEN /\ call' = [call EXCEPT ![c].fresh = call[c].data \ old,
                               ![c].alias = IF held = 0 THEN new.cur ELSE 0]
                /\ Goto(c, "index")
           ELSE /\ call' = [call EXCEPT ![c] = Updated(c)]
                /\ Goto(c, "store")
        /\ UNCHANGED <<node, cachedData, disk, mtx, otaKey, outcome, counters>>

TokenOf(n) == chain[CA][n + 1].token
ToFile(c) == {n \in call[c].fresh : TokenOf(n) \in call[c].tags}

\* What others add to the map the loop ranges over may be met by it, too.
Aliased(c) ==
    IF call[c].alias = 0 THEN {}
    ELSE {n \in heap[call[c].obj].slots[CA].cells[call[c].alias].coins \ call[c].data :
             TokenOf(n) \in call[c].tags}

\* updateAllTokens, without the lock, for a coin whose asset tag is known: the
\* entry of its token is read ...
IndexCoin(c) ==
    /\ pc[c] = "index"
    /\ \E n \in ToFile(c) \cup Aliased(c) :
          call' = [call EXCEPT ![c].coin = n, ![c].fresh = @ \ {n}, ![c].data = @ \cup {n},
                      ![c].held = heap[call[c].obj].slots[TokenOf(n)].cur]
    /\ Goto(c, "file")
    /\ UNCHANGED <<node, heap, cachedData, disk, mtx, otaKey, outcome,
                   discarded, counters>>

\* ... and written.
FileCoin(c) ==
    LET o == call[c].obj
        n == call[c].coin
        slot == heap[o].slots[TokenOf(n)]
        held == call[c].held
        old == IF held = 0 THEN [present |-> TRUE, latest |-> LatestIndex(c), coins |-> {}]
               ELSE slot.cells[held]
        cell == IF n \in old.coins THEN old
                ELSE [old EXCEPT !.latest = LatestIndex(c), !.coins = @ \cup {n}]
    IN  /\ pc[c] = "file"
        /\ heap' = [heap EXCEPT ![o].slots[TokenOf(n)] = PutCell(slot, held, cell)]
        /\ Goto(c, "index")
        /\ UNCHANGED <<node, cachedData, disk, mtx, call, otaKey, outcome,
                       discarded, counters>>

AllFiled(c) ==
    /\ pc[c] = "index"
    /\ ToFile(c) = {}
    /\ call' = [call EXCEPT ![c] = Updated(c)]
    /\ Goto(c, "store")
    /\ UNCHANGED <<node, heap, cachedData, disk, mtx, otaKey, outcome,
                   discarded, counters>>

-----------------------------------------------------------------------------

\* Mutant of StoreBegin: the account is stored but not put into the map.
StoreOnly(c) ==
    /\ pc[c] = "store"
    /\ mtx = NoCaller
    /\ mtx' = c
    /\ disk' = [disk EXCEPT ![call[c].acc] = Damaged]
    /\ Goto(c, "write")
    /\ UNCHANGED <<node, heap, cachedData, call, otaKey, outcome, discarded, counters>>

\* addAccount and store: the file is opened and emptied ...
StoreBegin(c) ==
    /\ pc[c] = "store"
    /\ mtx = NoCaller
    /\ mtx' = c
    /\ cachedData' = [cachedData EXCEPT ![call[c].acc] = call[c].obj]
    /\ disk' = [disk EXCEPT ![call[c].acc] = Damaged]
    /\ Goto(c, "write")
    /\ UNCHANGED <<node, heap, call, otaKey, outcome, discarded, counters>>

\* ... and written.
StoreEnd(c) ==
    /\ pc[c] = "write"
    /\ disk' = [disk EXCEPT ![call[c].acc] =
                   [state |-> "ok", caches |-> CachesOf(heap[call[c].obj])]]
    /\ mtx' = NoCaller
    /\ Goto(c, "readBack")
    /\ UNCHANGED <<node, heap, cachedData, call, otaKey, outcome, discarded, counters>>

\* A file that cannot be opened keeps its contents; one that cannot be
\* written stays empty.  Either way the account leaves the map.
StoreFails(c) ==
    /\ \/ pc[c] = "store" /\ mtx = NoCaller
       \/ pc[c] = "write"
    /\ Fault
    /\ storeFaults' = storeFaults + 1
    /\ cachedData' = [cachedData EXCEPT ![call[c].acc] = 0]
    /\ mtx' = NoCaller
    /\ Goto(c, "readBack")
    /\ UNCHANGED <<node, heap, disk, call, otaKey, outcome, discarded, calls, crashes>>

\* GetAndCacheOutCoins looks the account up again.
ReadBack(c) ==
    LET o == cachedData[call[c].acc]
    IN  /\ pc[c] = "readBack"
        /\ mtx = NoCaller
        /\ o # 0
        /\ call' = [call EXCEPT ![c].result = Cached(heap[o].slots[call[c].tok]).coins]
        /\ Goto(c, "v1")
        /\ UNCHANGED <<node, heap, cachedData, disk, mtx, otaKey, outcome,
                       discarded, counters>>

NotCached(c) ==
    /\ pc[c] = "readBack"
    /\ mtx = NoCaller
    /\ cachedData[call[c].acc] = 0
    /\ Return(c, "notCached", {})
    /\ UNCHANGED <<node, heap, cachedData, disk, mtx, otaKey, discarded, counters>>

\* The v1 coins are queried with the OTA key taken out of outCoinKey; it is
\* put back after an answer but not after an error.
QueryV1(c) ==
    /\ pc[c] = "v1"
    /\ Return(c, "ok", call[c].result)
    /\ UNCHANGED <<node, heap, cachedData, disk, mtx, otaKey, discarded, counters>>

QueryV1Fails(c) ==
    /\ pc[c] = "v1"
    /\ Fault
    /\ otaKey' = [otaKey EXCEPT ![c] = FALSE]
    /\ Return(c, "rpcFailed", {})
    /\ UNCHANGED <<node, heap, cachedData, disk, mtx, discarded, calls, crashes,
                   storeFaults>>

\* The process stops, also on Go's "concurrent map writes", and is restarted.
Crash ==
    /\ Fault
    /\ crashes' = crashes + 1
    /\ heap' = <<>>
    /\ cachedData' = [a \in Accounts |-> 0]
    /\ mtx' = NoCaller
    /\ pc' = [c \in Callers |-> "idle"]
    /\ call' = [c \in Callers |-> Idle]
    /\ otaKey' = [c \in Callers |-> TRUE]
    /\ outcome' = [c \in Callers |-> "none"]
    /\ UNCHANGED <<node, disk, discarded, calls, storeFaults>>

-----------------------------------------------------------------------------

Step(c) ==
    \/ LoadRefused(c) \/ LoadCheck(c) \/ ReadDir(c) \/ LoadFile(c) \/ LoadFails(c)
    \/ GetLength(c) \/ GetAccount(c) \/ UpToDate(c) \/ Fetch(c)
    \/ ReadEntry(c) \/ Apply(c) \/ IndexCoin(c) \/ FileCoin(c) \/ AllFiled(c)
    \/ StoreBegin(c) \/ StoreEnd(c)
    \/ ReadBack(c) \/ NotCached(c) \/ QueryV1(c)

\* No call is under way.
Finished == (\A c \in Callers : pc[c] = "idle") /\ UNCHANGED vars

FaultyStep(c) == RpcFails(c) \/ StoreFails(c) \/ QueryV1Fails(c)

Next ==
    \/ \E list \in Lists : AddCoin(list)
    \/ \E tok \in Tokens : ListToken(tok)
    \/ \E c \in Callers, acc \in Accounts, tok \in TokenIDs : Call(c, acc, tok)
    \/ \E c \in Callers : Step(c) \/ FaultyStep(c)
    \/ Crash
    \/ Finished

Spec == Init /\ [][Next]_vars

\* Go runs every goroutine that can run and hands the mutex on fairly.
FairSpec == Spec /\ \A c \in Callers : SF_vars(Step(c))

-----------------------------------------------------------------------------

\* The coins of an account on the chain, what the cache should know.
Coins(list, acc, first, last) ==
    {n \in first..last : chain[list][n + 1].owner = acc}

CoinsOfToken(tok, acc, first, last) ==
    {n \in Coins(ListOf(tok), acc, first, last) :
        chain[ListOf(tok)][n + 1].token = tok}

CacheType == [present : BOOLEAN, latest : Nat, coins : SUBSET Nat]
CachesType == [Keys -> CacheType]
SlotType == {s \in [cur : Nat, cells : Seq(CacheType)] : s.cur <= Len(s.cells)}
CallType == [acc : Accounts \cup {NoAccount}, tok : TokenIDs,
             inDir : BOOLEAN, length : Nat, from : Nat, obj : Nat,
             data : SUBSET Nat, tags : SUBSET Tokens, held : Nat,
             fresh : SUBSET Nat, alias : Nat, coin : Nat, result : SUBSET Nat]

\* Types.
TypeOK ==
    /\ chain \in [Lists -> Seq([owner : Accounts, token : TokenIDs])]
    /\ \A l \in Lists : \A k \in DOMAIN chain[l] : chain[l][k] \in NewCoins(l)
    /\ listed \subseteq Tokens
    /\ heap \in Seq([acc : Accounts, slots : [Keys -> SlotType]])
    /\ cachedData \in [Accounts -> 0..Len(heap)]
    /\ disk \in [Accounts -> [state : {"absent", "damaged", "ok"}, caches : CachesType]]
    /\ mtx \in Callers \cup {NoCaller}
    /\ pc \in [Callers -> {"idle", "check", "readDir", "load", "length",
                 "getAccount", "fetch", "update", "apply", "index", "file",
                 "store", "write", "readBack", "v1"}]
    /\ call \in [Callers -> CallType]
    /\ otaKey \in [Callers -> BOOLEAN]
    /\ outcome \in [Callers -> {"none", "ok", "invalidKey", "loadFailed",
                      "rpcFailed", "notCached"}]
    /\ discarded \subseteq Accounts

\* A list may claim to be synced up to LatestIndex only if it holds every coin
\* of the account up to there: the next sync starts behind it, so a coin left
\* out would never be fetched again.
CompleteUpToLatest(acc, caches) ==
    \A l \in Lists : caches[l].present =>
        /\ caches[l].latest < Len(chain[l])
        /\ Coins(l, acc, 0, caches[l].latest) \subseteq caches[l].coins

\* No interleaving of unlocked updates, evictions, re-loads and crashes makes
\* an object in memory or a file claim coins it does not hold, although
\* LatestIndex itself may go back when two callers update the same object, with
\* one exception: a caller whose accountCache.update read the entry of the map
\* (coin_cache_utils.go:152) before another caller replaced it puts its own
\* tokenCache in the place of the other's (line 170), and with that may discard
\* coins.  It takes two callers that both found no entry, so it can only happen
\* while an object has its first syncs of a list.
NoCoinSkipped ==
    /\ \A o \in DOMAIN heap : heap[o].acc \notin discarded =>
          CompleteUpToLatest(heap[o].acc, CachesOf(heap[o]))
    /\ \A a \in Accounts \ discarded : CompleteUpToLatest(a, disk[a].caches)

\* A call that succeeds returns coins of the account and token asked for only.
ResultSound ==
    \A c \in Callers : outcome[c] = "ok" =>
        call[c].result \subseteq
            CoinsOfToken(call[c].tok, call[c].acc, 0,
                         Len(chain[ListOf(call[c].tok)]) - 1)

\* A call that succeeds returns every coin that was on the chain when it asked
\* for the length, as the uncached GetOutputCoins would, if the node lists all
\* tokens (a token that it lists later is not looked for in coins that are
\* cached already).
ResultComplete ==
    \A c \in Callers : outcome[c] = "ok" =>
        CoinsOfToken(call[c].tok, call[c].acc, 0, call[c].length - 1)
            \subseteq call[c].result

\* A half-written file is only ever met after a crash or a failed store: the
\* unlocked ReadDir cannot make load see a file that store is writing.
DamageNeedsFault ==
    \A c \in Callers : outcome[c] = "loadFailed" => crashes + storeFaults > 0

\* With a node that answers and a disk that works, a call for an account with
\* coins on the chain does not fail.
SyncedIsCached == faults = 0 => \A c \in Callers : outcome[c] # "notCached"

\* Every call returns.
CallsReturn == \A c \in Callers : pc[c] # "idle" ~> pc[c] = "idle"
=============================================================================
